---------------------------- MODULE MCScopeWork ----------------------------
(* Questions to humans and work of remote principals, in a scope with one  *)
(* registered agent.  The two touch different tables besides the messages, *)
(* so a behaviour exercises one of them: part says which.  With moves the  *)
(* scope is exported, deleted and imported in between.                     *)
EXTENDS Archive, TLC

CONSTANTS k1, k2

VARIABLES part, moves

scopeVars == <<vars, escalations, remoteVars, archiveVars, part, moves>>

WorkSymmetry == Permutations(MessageIds) \cup Permutations(EscalationIds)
                \cup Permutations(RemoteTaskIds)

WorkInit ==
  /\ part \in {"questions", "remote"}
  /\ moves \in BOOLEAN
  /\ now = 1
  /\ scopeToken = 1
  /\ agents = [a \in Agents |->
       [execution_id |-> 1, lifecycle |-> "starting",
        lease_expires_at |-> IF moves THEN MaxTime ELSE MaxTime + 2, registered_with |-> 1]]
  /\ links = {}
  /\ messages = [m \in MessageIds |-> NoRow("absent")]
  /\ reservations = [r \in ReservationIds |-> NoReservation("unused")]
  /\ EscalationsInit
  /\ RemoteInit
  /\ ArchiveInit

(* Agents and members send without keys of their own, and the members are  *)
(* silent while remote work is checked: the runs on traffic have those.    *)
(* The owner interferes in one way at a time, "canceled" stands for the    *)
(* terminal states that only a principal sets, and the principal uses the  *)
(* keys in order.                                                          *)
Interference ==
  {1 : c \in {c \in Credentials : credentials[c].version = 2}}
  \cup {2 : c \in {c \in Credentials : ~credentials[c].enabled}}
  \cup {3 : p \in {p \in PublicationIds : publications[p].agent # None /\ ~publications[p].enabled}}

PartNext ==
  \/ /\ part = "questions" /\ ScopeNext /\ UNCHANGED remoteVars
     /\ \A m \in MessageIds : messages'[m].idempotency_key \in EscalationIds \cup {None}
  \/ /\ part = "remote" /\ ScopeNext /\ UNCHANGED escalations
     /\ \A m \in MessageIds :
          /\ messages'[m].from \notin Humans
          /\ messages'[m].from \in Agents => messages'[m].idempotency_key = None
     /\ \A m \in MessageIds : messages[m].state = "absent" /\ messages'[m].idempotency_key = k2
          => \E first \in MessageIds : messages[first].idempotency_key = k1
     /\ Cardinality(Interference') <= 1
     /\ \A k \in RemoteTaskIds : a2aTasks'[k].state \notin {"failed", "rejected"}

(* Without moves the execution and the scope token stay, and beside the    *)
(* questions members make requests that the agent responds to.             *)
Staying ==
  /\ part = "questions" => \A m \in MessageIds :
       \/ messages'[m].state \in {"absent", "removed"}
       \/ messages'[m].idempotency_key \in EscalationIds
       \/ messages'[m].mode = IF messages'[m].from \in Humans THEN "request" ELSE "response"
  /\ scopeToken' = scopeToken
  /\ \A a \in Agents : agents'[a].execution_id = 1
                       /\ agents'[a].lease_expires_at <= agents[a].lease_expires_at

(* A scope that moves has two messages, those of members are answers or    *)
(* requests that expire.  It moves once, and is deleted right after the    *)
(* export, since what happens there in between is lost; the agents         *)
(* register again where it is imported.  The owner only disables and       *)
(* enables publications there.                                             *)
Moving ==
  /\ Cardinality({m \in MessageIds : messages'[m].state # "absent"}) <= 2
  /\ \A m \in MessageIds : messages'[m].from \in Humans =>
       \/ messages'[m].idempotency_key \in EscalationIds
       \/ messages'[m].mode = "request" /\ messages'[m].expires_at # 0
  /\ Interference' \subseteq {3}
  /\ archive # None /\ exists /\ scopeToken = 1 => ~exists'
  /\ exists /\ scopeToken = 1 => \A a \in Agents : agents'[a].execution_id = 1
  /\ exists /\ ~exists' => archive # None

WorkNext ==
  /\ \/ exists /\ PartNext /\ scopeToken' = scopeToken /\ UNCHANGED archiveVars
     \/ moves /\ ArchiveNext /\ (archive' # archive => archive = None)
  /\ IF moves THEN Moving ELSE Staying
  /\ UNCHANGED <<part, moves>>

WorkSpec == WorkInit /\ [][WorkNext]_scopeVars
=============================================================================
