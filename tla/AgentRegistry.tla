--------------------------- MODULE AgentRegistry ---------------------------
(***************************************************************************)
(* The executions of one scope (bus/store.go, bus/retire.go,               *)
(* bus/scope_admin.go, bus/scope_authority.go).                            *)
(*                                                                         *)
(* An agent ID keeps its identity across executions.  Registering an agent *)
(* creates a new execution with a token and a lease; the row of the        *)
(* previous execution is overwritten, so its token stops resolving.        *)
(* Retirement and rotation of the scope token end a lease by writing 0     *)
(* into lease_expires_at.                                                  *)
(*                                                                         *)
(* Every store operation is one transaction, and transactions of one scope *)
(* are serial: SQLite runs with a single connection, Postgres takes an     *)
(* advisory lock per scope.  One action is therefore one transaction.  The *)
(* handler authenticates its token in an earlier, separate read; what it   *)
(* carries into the transaction is a principal that may have been replaced *)
(* or may have expired in between.  Actions take any principal that ever   *)
(* existed and leave it to requireCurrentExecution to refuse the stale     *)
(* ones, which covers every such interleaving.                             *)
(*                                                                         *)
(* The clock is the variable now.  Each transaction of this module reads   *)
(* it once.                                                                *)
(***************************************************************************)
EXTENDS Naturals, FiniteSets

CONSTANTS
  Agents,          \* logical agent IDs
  LeaseTimes,      \* the leaseMs values clients ask for
  ReportedLifecycles,  \* the lifecycles heartbeats report
  PeerCap,         \* connectTo and connectWorkspace link at most this many
  MaxTime,         \* bound: the clock stops here
  MaxExecutions,   \* bound: registrations per agent ID
  MaxTokens        \* bound: scope tokens issued

Lifecycles == {"starting", "ready", "offline"}

ASSUME RegistryAssumption ==
  /\ ReportedLifecycles \subseteq Lifecycles
  /\ LeaseTimes \subseteq Nat \ {0}
  /\ PeerCap \in Nat
  /\ MaxTime \in Nat
  /\ MaxExecutions \in Nat
  /\ MaxTokens \in Nat

VARIABLES
  now,         \* nowMillis()
  scopeToken,  \* generation of the scope token that scopes.token_hash holds
  agents,      \* the agents table, one row per agent ID
  links        \* the peer_links table: unordered pairs

registryVars == <<now, scopeToken, agents, links>>

(* execution_id 0: the agent was never registered.  registered_with is     *)
(* history, the scope token that authorized the registration.              *)
Agent == [execution_id : Nat, lifecycle : Lifecycles,
          lease_expires_at : Nat, registered_with : Nat]

NoAgent == [execution_id |-> 0, lifecycle |-> "offline",
            lease_expires_at |-> 0, registered_with |-> 0]

Principals == [agent : Agents, execution : Nat \ {0}]

(* The principals that ever existed, current or not.                       *)
KnownPrincipals ==
  {[agent |-> a, execution |-> e] : a \in Agents, e \in 1..MaxExecutions}

Registered(a) == agents[a].execution_id # 0

(* Agent.Reachable of scanAgent, which ConnectWorkspace repeats in SQL.    *)
Reachable(a) ==
  agents[a].lease_expires_at > now /\ agents[a].lifecycle # "offline"

requireCurrentExecution(p) ==
  /\ agents[p.agent].execution_id = p.execution
  /\ agents[p.agent].lease_expires_at > now

(* Fault: any token the scope ever had is good enough.                     *)
requireScopeCredential_EverIssued(token) == token <= scopeToken

(* beginTx under withScopeCredential: the token is checked again inside    *)
(* the transaction.                                                        *)
requireScopeCredential(token) == token = scopeToken

linkedAgents(a, b) == {a, b} \in links

-----------------------------------------------------------------------------
RegistryInit ==
  /\ now = 1
  /\ scopeToken = 1
  /\ agents = [a \in Agents |-> NoAgent]
  /\ links = {}

(* Time passes.  Nothing else happens when a lease runs out: every effect  *)
(* of expiry is materialized by a later transaction.                       *)
Tick ==
  /\ now < MaxTime
  /\ now' = now + 1
  /\ UNCHANGED <<scopeToken, agents, links>>

(* connectTo, plus with connectWorkspace every other reachable agent.      *)
ConnectPeers(a, connectTo, workspace) ==
  connectTo \cup (IF workspace THEN {b \in Agents \ {a} : Reachable(b)} ELSE {})

(* The agents and links part of registerAgentTx.  A peer that is the agent *)
(* itself or is unknown, or too many peers, roll the registration back.    *)
RegisterRow(token, a, leaseMS, connectTo, workspace) ==
  LET peers == ConnectPeers(a, connectTo, workspace) IN
  /\ requireScopeCredential(token)
  /\ agents[a].execution_id < MaxExecutions
  /\ a \notin peers
  /\ \A b \in peers : Registered(b)
  /\ Cardinality(peers) <= PeerCap
  /\ agents' = [agents EXCEPT ![a] =
       [execution_id |-> agents[a].execution_id + 1, lifecycle |-> "starting",
        lease_expires_at |-> now + leaseMS, registered_with |-> token]]
  /\ links' = links \cup {{a, b} : b \in peers}
  /\ UNCHANGED <<now, scopeToken>>

(* Fault: the heartbeat looks at the execution and not at its lease.       *)
HeartbeatRow_RevivesExpired(p, lifecycle, leaseMS) ==
  /\ agents[p.agent].execution_id = p.execution
  /\ agents' = [agents EXCEPT ![p.agent].lifecycle = lifecycle,
                              ![p.agent].lease_expires_at = now + leaseMS]
  /\ UNCHANGED <<now, scopeToken, links>>

(* A heartbeat renews only a lease that has not run out.                   *)
HeartbeatRow(p, lifecycle, leaseMS) ==
  /\ requireCurrentExecution(p)
  /\ agents' = [agents EXCEPT ![p.agent].lifecycle = lifecycle,
                              ![p.agent].lease_expires_at = now + leaseMS]
  /\ UNCHANGED <<now, scopeToken, links>>

(* The token of the current execution retires it even after the lease ran  *)
(* out; retiring a second time finds lease_expires_at = 0 and changes      *)
(* nothing.                                                                *)
RetireRow(p) ==
  /\ agents[p.agent].execution_id = p.execution
  /\ agents[p.agent].lease_expires_at # 0
  /\ agents' = [agents EXCEPT ![p.agent].lifecycle = "offline",
                              ![p.agent].lease_expires_at = 0]
  /\ UNCHANGED <<now, scopeToken, links>>

(* A new scope token ends every lease of the scope.  An absent row is      *)
(* offline and without a lease already.                                    *)
RotateRows ==
  /\ scopeToken < MaxTokens
  /\ scopeToken' = scopeToken + 1
  /\ agents' = [a \in Agents |->
       [agents[a] EXCEPT !.lifecycle = "offline", !.lease_expires_at = 0]]
  /\ UNCHANGED <<now, links>>

LinkAgents(token, left, right) ==
  /\ requireScopeCredential(token)
  /\ left # right
  /\ Registered(left) /\ Registered(right)
  /\ links' = links \cup {{left, right}}
  /\ UNCHANGED <<now, scopeToken, agents>>

-----------------------------------------------------------------------------
RegistryTypeOK ==
  /\ now \in Nat \ {0}
  /\ scopeToken \in Nat \ {0}
  /\ agents \in [Agents -> Agent]
  /\ links \subseteq SUBSET Agents

(* An execution that was replaced, that retired, that was cut off by a     *)
(* rotation or whose lease ran out never has authority again: Heartbeat    *)
(* renews a live lease only, and a registration starts another execution.  *)
AuthorityNeverReturns ==
  [][\A p \in KnownPrincipals :
       p.execution <= agents[p.agent].execution_id /\ ~requireCurrentExecution(p)
         => ~requireCurrentExecution(p)']_registryVars

(* After RotateScopeToken only executions registered under the new scope   *)
(* token can act: a registration that authenticated with the old token     *)
(* and reaches its transaction later is refused by beginTx.                *)
RotationRevokes ==
  \A a \in Agents : agents[a].lease_expires_at > 0
                      => agents[a].registered_with = scopeToken
=============================================================================
