--------------------------- MODULE RegistryProofs ---------------------------
(***************************************************************************)
(* What every step on the agents table preserves, for the proofs about the *)
(* modules that build on it.                                               *)
(***************************************************************************)
EXTENDS AgentRegistry, FiniteSetTheorems, TLAPS

(* Every set of numbers that is not empty has a least one.                 *)
LEMMA FirstExists ==
  ASSUME NEW S, S \subseteq Nat, S # {}
  PROVE  \E x \in S : \A y \in S : x <= y
  <1> DEFINE R == OpToRel(<, Nat)
  <1>1. PICK x \in S : \A y \in S : ~ (<<y, x>> \in R)
    <2> HIDE DEF R
    <2>1. IsWellFoundedOn(R, Nat)
      BY NatLessThanWellFounded DEF R
    <2> QED BY <2>1, WFMin
  <1>2. \A y \in S : y < x => <<y, x>> \in R
    BY DEF OpToRel
  <1> HIDE DEF R
  <1>3. \A y \in S : ~ (y < x)
    BY <1>1, <1>2, Zenon
  <1>4. \A y \in S : y \in Nat /\ x \in Nat
    OBVIOUS
  <1> QED BY <1>3, <1>4

(* A registration keeps the types, and no execution survives a rotation.   *)
LEMMA RegisterKeeps ==
  ASSUME RegistryTypeOK, RotationRevokes, NEW token, NEW a \in Agents,
         NEW leaseMS \in LeaseTimes, NEW connectTo \in SUBSET Agents, NEW workspace \in BOOLEAN,
         RegisterRow(token, a, leaseMS, connectTo, workspace)
  PROVE  RegistryTypeOK' /\ RotationRevokes'
  <1> USE RegistryAssumption
  <1>0. RegisterRow(token, a, leaseMS, connectTo, workspace) /\ token \in Nat
    BY DEF RegisterRow, requireScopeCredential, RegistryTypeOK
  <1>1. ConnectPeers(a, connectTo, workspace) \subseteq Agents
    BY DEF ConnectPeers
  <1>2. links' \subseteq SUBSET Agents
    BY <1>0, <1>1 DEF RegisterRow, RegistryTypeOK, RotationRevokes
  <1>3. agents' \in [Agents -> Agent]
    BY <1>0 DEF RegisterRow, Agent, Lifecycles, RegistryTypeOK, RotationRevokes
  <1>4. RotationRevokes'
    BY <1>0 DEF RegisterRow, Agent, requireScopeCredential, RegistryTypeOK, RotationRevokes
  <1> QED BY <1>0, <1>2, <1>3, <1>4 DEF RegisterRow, RegistryTypeOK, RotationRevokes

(* Types, and no execution survives a rotation.                            *)
LEMMA RegistrySteps ==
  ASSUME RegistryTypeOK, RotationRevokes,
         \/ Tick
         \/ \E token \in 1..MaxTokens, a \in Agents, leaseMS \in LeaseTimes,
               connectTo \in SUBSET Agents, workspace \in BOOLEAN :
              RegisterRow(token, a, leaseMS, connectTo, workspace)
         \/ \E token \in 1..MaxTokens, a, b \in Agents : LinkAgents(token, a, b)
         \/ \E p \in KnownPrincipals, lifecycle \in ReportedLifecycles,
               leaseMS \in LeaseTimes : HeartbeatRow(p, lifecycle, leaseMS)
         \/ \E p \in KnownPrincipals : RetireRow(p)
         \/ RotateRows
         \/ UNCHANGED registryVars
  PROVE  RegistryTypeOK' /\ RotationRevokes'
  <1> USE RegistryAssumption
  <1>1. CASE Tick
    BY <1>1 DEF Tick, RegistryTypeOK, RotationRevokes
  <1>2. ASSUME NEW token \in 1..MaxTokens, NEW a \in Agents,
               NEW leaseMS \in LeaseTimes, NEW connectTo \in SUBSET Agents,
               NEW workspace \in BOOLEAN,
               RegisterRow(token, a, leaseMS, connectTo, workspace)
        PROVE  RegistryTypeOK' /\ RotationRevokes'
    BY <1>2, RegisterKeeps
  <1>3. ASSUME NEW token \in 1..MaxTokens, NEW a \in Agents, NEW b \in Agents,
               LinkAgents(token, a, b)
        PROVE  RegistryTypeOK' /\ RotationRevokes'
    BY <1>3 DEF LinkAgents, RegistryTypeOK, RotationRevokes
  <1>4. ASSUME NEW p \in KnownPrincipals, NEW lifecycle \in ReportedLifecycles,
               NEW leaseMS \in LeaseTimes, HeartbeatRow(p, lifecycle, leaseMS)
        PROVE  RegistryTypeOK' /\ RotationRevokes'
    <2>1. p.agent \in Agents /\ lifecycle \in Lifecycles /\ now + leaseMS \in Nat
      BY DEF KnownPrincipals, RegistryTypeOK
    <2>2. agents' \in [Agents -> Agent]
      BY <1>4, <2>1 DEF HeartbeatRow, Agent, RegistryTypeOK, RotationRevokes
    <2>3. RotationRevokes'
      BY <1>4, <2>1 DEF HeartbeatRow, requireCurrentExecution, Agent, RegistryTypeOK, RotationRevokes
    <2> QED BY <1>4, <2>2, <2>3 DEF HeartbeatRow, RegistryTypeOK, RotationRevokes
  <1>5. ASSUME NEW p \in KnownPrincipals, RetireRow(p)
        PROVE  RegistryTypeOK' /\ RotationRevokes'
    <2>1. p.agent \in Agents
      BY DEF KnownPrincipals
    <2>2. agents' \in [Agents -> Agent]
      BY <1>5, <2>1 DEF RetireRow, Agent, Lifecycles, RegistryTypeOK, RotationRevokes
    <2>3. RotationRevokes'
      BY <1>5, <2>1 DEF RetireRow, Agent, RegistryTypeOK, RotationRevokes
    <2> QED BY <1>5, <2>2, <2>3 DEF RetireRow, RegistryTypeOK, RotationRevokes
  <1>6. CASE RotateRows
    <2>1. agents' \in [Agents -> Agent]
      BY <1>6 DEF RotateRows, Agent, Lifecycles, RegistryTypeOK, RotationRevokes
    <2>2. ASSUME NEW a \in Agents PROVE agents'[a].lease_expires_at = 0
      <3>1. /\ agents[a] \in Agent
            /\ agents'[a] = [agents[a] EXCEPT !.lifecycle = "offline",
                                              !.lease_expires_at = 0]
        BY <1>6 DEF RotateRows, RegistryTypeOK
      <3> QED BY <3>1 DEF Agent
    <2>3. RotationRevokes'
      BY <2>2 DEF RotationRevokes
    <2>4. now' \in Nat \ {0} /\ scopeToken' \in Nat \ {0} /\ links' \subseteq SUBSET Agents
      <3>1. now' = now /\ links' = links /\ scopeToken' = scopeToken + 1
        BY <1>6, Zenon DEF RotateRows
      <3> QED BY <3>1 DEF RegistryTypeOK
    <2> QED BY <2>1, <2>3, <2>4 DEF RegistryTypeOK
  <1>7. CASE UNCHANGED registryVars
    BY <1>7 DEF registryVars, RegistryTypeOK, RotationRevokes
  <1> QED BY <1>1, <1>2, <1>3, <1>4, <1>5, <1>6, <1>7

(* A heartbeat moves no execution and ends no lease.                       *)
LEMMA HeartbeatKeeps ==
  ASSUME RegistryTypeOK, NEW p \in KnownPrincipals, NEW lifecycle \in ReportedLifecycles,
         NEW leaseMS \in LeaseTimes, HeartbeatRow(p, lifecycle, leaseMS)
  PROVE  \A a \in Agents :
           /\ agents'[a].execution_id = agents[a].execution_id
           /\ agents[a].lease_expires_at # 0 => agents'[a].lease_expires_at # 0
  <1>1. p.agent \in Agents
    BY DEF KnownPrincipals
  <1> QED BY <1>1, RegistryAssumption DEF HeartbeatRow, RegistryTypeOK, Agent

(* Only registration, retirement and rotation end or replace executions,   *)
(* and none of them moves the clock.                                       *)
LEMMA ClockOfRows ==
  ASSUME \/ \E token \in 1..MaxTokens, a \in Agents, leaseMS \in LeaseTimes,
               connectTo \in SUBSET Agents, workspace \in BOOLEAN :
              RegisterRow(token, a, leaseMS, connectTo, workspace)
         \/ \E p \in KnownPrincipals : RetireRow(p)
         \/ RotateRows
  PROVE  now' = now
  BY Zenon DEF RegisterRow, RetireRow, RotateRows

(* A registration overwrites the row with a later execution.               *)
LEMMA RegisterStays ==
  ASSUME RegistryTypeOK, NEW a \in Agents, Registered(a),
         NEW token, NEW b \in Agents, NEW leaseMS, NEW connectTo, NEW workspace,
         RegisterRow(token, b, leaseMS, connectTo, workspace)
  PROVE  Registered(a)'
  BY DEF RegistryTypeOK, Agent, RegisterRow, Registered

(* An agent that was registered stays so: nothing deletes its row.         *)
LEMMA RegisteredStays ==
  ASSUME RegistryTypeOK, NEW a \in Agents, Registered(a),
         \/ Tick
         \/ \E token \in 1..MaxTokens, b \in Agents, leaseMS \in LeaseTimes,
               connectTo \in SUBSET Agents, workspace \in BOOLEAN :
              RegisterRow(token, b, leaseMS, connectTo, workspace)
         \/ \E token \in 1..MaxTokens, b, c \in Agents : LinkAgents(token, b, c)
         \/ \E p \in KnownPrincipals, lifecycle \in ReportedLifecycles,
               leaseMS \in LeaseTimes : HeartbeatRow(p, lifecycle, leaseMS)
         \/ \E p \in KnownPrincipals : RetireRow(p)
         \/ RotateRows
         \/ UNCHANGED registryVars
  PROVE  Registered(a)'
  <1>1. agents \in [Agents -> Agent] /\ agents[a].execution_id \in Nat
        /\ agents[a].execution_id # 0
    BY DEF RegistryTypeOK, Agent, Registered
  <1>2. ASSUME NEW token, NEW b \in Agents, NEW leaseMS, NEW connectTo, NEW workspace,
               RegisterRow(token, b, leaseMS, connectTo, workspace)
        PROVE  Registered(a)'
    BY <1>2, RegisterStays
  <1>3. ASSUME NEW p \in KnownPrincipals, NEW lifecycle, NEW leaseMS,
               HeartbeatRow(p, lifecycle, leaseMS)
        PROVE  Registered(a)'
    BY <1>1, <1>3 DEF HeartbeatRow, Registered, Agent
  <1>4. ASSUME NEW p \in KnownPrincipals, RetireRow(p)
        PROVE  Registered(a)'
    BY <1>1, <1>4 DEF RetireRow, Registered, Agent
  <1>5. ASSUME RotateRows
        PROVE  Registered(a)'
    BY <1>1, <1>5 DEF RotateRows, Registered, Agent
  <1>6. ASSUME agents' = agents
        PROVE  Registered(a)'
    BY <1>1, <1>6 DEF Registered
  <1>7. Tick => agents' = agents
    BY DEF Tick
  <1>8. \A token, x, y : LinkAgents(token, x, y) => agents' = agents
    BY DEF LinkAgents
  <1>9. UNCHANGED registryVars => agents' = agents
    BY DEF registryVars
  <1> QED BY <1>2, <1>3, <1>4, <1>5, <1>6, <1>7, <1>8, <1>9
=============================================================================
