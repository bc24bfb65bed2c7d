------------------------- MODULE BoardSessionProofs -------------------------
(***************************************************************************)
(* Proofs about TaskBoard and AgentSession for every number of agents,     *)
(* executions, tasks and sessions, and for an unbounded clock horizon.     *)
(***************************************************************************)
EXTENDS TaskBoard, AgentSession, RegistryProofs, FiniteSetTheorems, TLAPS

(* The inductive invariant.  DependenciesHold needs it whole: a dependency *)
(* that is done stays done, and stays as long as its dependents.           *)
TaskInv ==
  /\ TaskTypeOK
  /\ ClaimFencing
  /\ DependenciesHold

-----------------------------------------------------------------------------
(* An execution is a principal, and the empty claim is none.               *)
LEMMA PrincipalFacts ==
  /\ KnownPrincipals \subseteq Principals
  /\ Unclaimed \notin Principals
  /\ \A p \in Principals : p.agent \in Agents /\ p.execution \in Nat
  <1>1. KnownPrincipals \subseteq Principals
    BY RegistryAssumption DEF KnownPrincipals, Principals
  <1>2. Unclaimed \notin Principals
    BY DEF Unclaimed, Principals
  <1> QED BY <1>1, <1>2 DEF Principals

(* A claimed task has a principal behind it.                               *)
LEMMA ClaimIsPrincipal ==
  ASSUME TaskTypeOK, NEW t \in TaskIds, tasks[t].status = "claimed"
  PROVE  /\ tasks[t].claim \in Principals
         /\ tasks[t].claim.agent \in Agents
  <1>1. tasks[t] \in Task /\ tasks[t].claim # Unclaimed
    BY DEF TaskTypeOK
  <1>2. tasks[t].claim \in Principals
    BY <1>1 DEF Task
  <1> QED BY <1>2, PrincipalFacts

(* The rows after a sweep: a row is as it was, or an open task without     *)
(* claim whose claim was stale.                                            *)
Opened(x, y) ==
  /\ x.status = "claimed" /\ y.status = "open" /\ y.claim = Unclaimed
  /\ y.dependencies = x.dependencies

(* One row after a sweep.                                                  *)
LEMMA SweptRow ==
  ASSUME NEW tks \in [TaskIds -> Task], NEW ags, NEW t \in TaskIds
  PROVE  LET y == releaseStaleTaskClaims(tks, ags)[t] IN
         /\ y \in Task
         /\ \/ /\ y = tks[t]
               /\ y.status = "claimed" =>
                    /\ ags[y.claim.agent].execution_id = y.claim.execution
                    /\ ags[y.claim.agent].lease_expires_at > now
            \/ /\ Opened(tks[t], y)
               /\ ~ /\ ags[tks[t].claim.agent].execution_id = tks[t].claim.execution
                    /\ ags[tks[t].claim.agent].lease_expires_at > now
  <1> DEFINE z == [tks[t] EXCEPT !.status = "open", !.claim = Unclaimed]
  <1>1. z \in Task /\ z.status = "open" /\ z.claim = Unclaimed
        /\ z.dependencies = tks[t].dependencies
    <2>1. tks[t] \in Task
      OBVIOUS
    <2> HIDE DEF Unclaimed
    <2> QED BY <2>1 DEF Task
  <1>2. releaseStaleTaskClaims(tks, ags)[t] =
          IF /\ tks[t].status = "claimed"
             /\ ~ /\ ags[tks[t].claim.agent].execution_id = tks[t].claim.execution
                  /\ ags[tks[t].claim.agent].lease_expires_at > now
          THEN z ELSE tks[t]
    BY DEF releaseStaleTaskClaims
  <1> HIDE DEF z
  <1> QED BY <1>1, <1>2 DEF Opened

(* The sweep keeps what the tables must satisfy, and fences every claim it *)
(* leaves by the agents table it was given.                                *)
LEMMA SweepRows ==
  ASSUME TaskInv, NEW ags,
         \A a \in Agents : ags[a].lease_expires_at \in Nat
  PROVE  LET tks == releaseStaleTaskClaims(tasks, ags) IN
         /\ tks \in [TaskIds -> Task]
         /\ \A t \in TaskIds :
              /\ tks[t].status \in {"claimed", "done"} <=> tks[t].claim # Unclaimed
              /\ tks[t].status = "claimed" =>
                   /\ ags[tks[t].claim.agent].execution_id = tks[t].claim.execution
                   /\ ags[tks[t].claim.agent].lease_expires_at > now
              /\ tks[t].status = "done" <=> tasks[t].status = "done"
              /\ tks[t].dependencies = tasks[t].dependencies
              /\ tks[t].status \in {"claimed", "done"} => tks[t] = tasks[t]
              /\ t \in OnBoard(tks) <=> t \in OnBoard(tasks)
  <1> DEFINE tks == releaseStaleTaskClaims(tasks, ags)
  <1>1. tasks \in [TaskIds -> Task]
        /\ \A t \in TaskIds : tasks[t].status \in {"claimed", "done"} <=> tasks[t].claim # Unclaimed
    BY DEF TaskInv, TaskTypeOK
  <1>2. tks \in [TaskIds -> Task]
    <2>1. tks = [t \in TaskIds |-> tks[t]]
      BY DEF releaseStaleTaskClaims
    <2>2. \A t \in TaskIds : tks[t] \in Task
      BY <1>1, SweptRow
    <2> QED BY <2>1, <2>2
  <1>3. ASSUME NEW t \in TaskIds
        PROVE  /\ tks[t].status \in {"claimed", "done"} <=> tks[t].claim # Unclaimed
               /\ tks[t].status = "claimed" =>
                    /\ ags[tks[t].claim.agent].execution_id = tks[t].claim.execution
                    /\ ags[tks[t].claim.agent].lease_expires_at > now
               /\ tks[t].status = "done" <=> tasks[t].status = "done"
               /\ tks[t].dependencies = tasks[t].dependencies
               /\ tks[t].status \in {"claimed", "done"} => tks[t] = tasks[t]
               /\ t \in OnBoard(tks) <=> t \in OnBoard(tasks)
    <2>1. \/ /\ tks[t] = tasks[t]
             /\ tks[t].status = "claimed" =>
                  /\ ags[tks[t].claim.agent].execution_id = tks[t].claim.execution
                  /\ ags[tks[t].claim.agent].lease_expires_at > now
          \/ Opened(tasks[t], tks[t])
      BY <1>1, SweptRow
    <2> HIDE DEF tks
    <2> QED BY <1>1, <2>1 DEF Opened, OnBoard
  <1> QED BY <1>2, <1>3

-----------------------------------------------------------------------------
(* A swept board with progress untouched, after a registry step that keeps *)
(* the clock (or none).                                                    *)
LEMMA SweepPreserves ==
  ASSUME TaskInv, RegistryTypeOK', now' = now, ClaimsSwept
  PROVE  TaskInv'
  <1> DEFINE tks == releaseStaleTaskClaims(tasks, agents')
  <1>1. /\ agents' \in [Agents -> Agent] /\ now \in Nat
        /\ \A a \in Agents : agents'[a].lease_expires_at \in Nat
    BY DEF RegistryTypeOK, Agent, TaskInv, TaskTypeOK
  <1>2. tasks' = tks /\ progress' = progress
    BY DEF ClaimsSwept
  <1>3. /\ tks \in [TaskIds -> Task]
        /\ \A t \in TaskIds :
              /\ tks[t].status \in {"claimed", "done"} <=> tks[t].claim # Unclaimed
              /\ tks[t].status = "claimed" =>
                   /\ agents'[tks[t].claim.agent].execution_id = tks[t].claim.execution
                   /\ agents'[tks[t].claim.agent].lease_expires_at > now
              /\ tks[t].status = "done" <=> tasks[t].status = "done"
              /\ tks[t].dependencies = tasks[t].dependencies
              /\ tks[t].status \in {"claimed", "done"} => tks[t] = tasks[t]
              /\ t \in OnBoard(tks) <=> t \in OnBoard(tasks)
    BY <1>1, SweepRows
  <1> HIDE DEF tks
  <1>4. TaskTypeOK'
    BY <1>2, <1>3 DEF TaskInv, TaskTypeOK
  <1>5. ClaimFencing'
    <2> SUFFICES ASSUME NEW t \in TaskIds, tks[t].status = "claimed"
                 PROVE  /\ agents'[tks[t].claim.agent].execution_id = tks[t].claim.execution
                        /\ agents'[tks[t].claim.agent].lease_expires_at # 0
      BY <1>2 DEF ClaimFencing
    <2>1. tks[t] = tasks[t] /\ tasks[t].status = "claimed"
      BY <1>3
    <2>2. tks[t].claim.agent \in Agents
      BY <2>1, ClaimIsPrincipal DEF TaskInv
    <2> QED BY <1>1, <1>3, <2>2
  <1>6. DependenciesHold'
    <2> SUFFICES ASSUME NEW t \in TaskIds, t \in OnBoard(tks)
                 PROVE  /\ tks[t].dependencies \subseteq OnBoard(tks)
                        /\ tks[t].status \in {"claimed", "done"} =>
                             \A d \in tks[t].dependencies : tks[d].status = "done"
      BY <1>2 DEF DependenciesHold, OnBoard
    <2>1. /\ tasks[t].dependencies \subseteq OnBoard(tasks)
          /\ tasks[t].status \in {"claimed", "done"} =>
               \A d \in tasks[t].dependencies : tasks[d].status = "done"
      BY <1>3 DEF TaskInv, DependenciesHold
    <2>2. OnBoard(tasks) \subseteq TaskIds
      BY DEF OnBoard
    <2> QED BY <1>3, <2>1, <2>2
  <1> QED BY <1>4, <1>5, <1>6 DEF TaskInv

(* The board does not notice a step that keeps executions and leases.      *)
LEMMA QuietPreserves ==
  ASSUME TaskInv, RegistryTypeOK', UNCHANGED taskVars,
         \A a \in Agents : /\ agents'[a].execution_id = agents[a].execution_id
                           /\ agents[a].lease_expires_at # 0 => agents'[a].lease_expires_at # 0
  PROVE  TaskInv'
  <1>1. tasks' = tasks /\ progress' = progress
    BY DEF taskVars
  <1>2. TaskTypeOK' /\ DependenciesHold'
    BY <1>1 DEF TaskInv, TaskTypeOK, DependenciesHold, OnBoard
  <1>3. ClaimFencing'
    <2> SUFFICES ASSUME NEW t \in TaskIds, tasks[t].status = "claimed"
                 PROVE  /\ agents'[tasks[t].claim.agent].execution_id = tasks[t].claim.execution
                        /\ agents'[tasks[t].claim.agent].lease_expires_at # 0
      BY <1>1 DEF ClaimFencing
    <2>1. tasks[t].claim.agent \in Agents
      BY ClaimIsPrincipal DEF TaskInv
    <2> QED BY <2>1 DEF TaskInv, ClaimFencing
  <1> QED BY <1>2, <1>3 DEF TaskInv

(* Registrations, retirements, rotations, heartbeats, links and time.      *)
LEMMA ExecutionPreserves ==
  ASSUME TaskInv, RotationRevokes, ExecutionNext
  PROVE  TaskInv' /\ RotationRevokes'
  <1>1. RegistryTypeOK
    BY DEF TaskInv, TaskTypeOK
  <1>2. RegistryTypeOK' /\ RotationRevokes'
    BY <1>1, RegistrySteps, Zenon DEF ExecutionNext
  <1>3. CASE Tick /\ UNCHANGED taskVars
    <2>1. agents' = agents
      BY <1>3 DEF Tick
    <2> QED BY <1>2, <1>3, <2>1, QuietPreserves
  <1>4. CASE \E token \in 1..MaxTokens, a, b \in Agents :
               LinkAgents(token, a, b) /\ UNCHANGED taskVars
    <2>1. agents' = agents
      BY <1>4 DEF LinkAgents
    <2> QED BY <1>2, <1>4, <2>1, QuietPreserves
  <1>5. CASE \E p \in KnownPrincipals, lifecycle \in ReportedLifecycles, leaseMS \in LeaseTimes :
               HeartbeatRow(p, lifecycle, leaseMS) /\ UNCHANGED taskVars
    BY <1>1, <1>2, <1>5, HeartbeatKeeps, QuietPreserves
  <1>6. CASE \/ \E token \in 1..MaxTokens, a \in Agents, leaseMS \in LeaseTimes,
                  connectTo \in SUBSET Agents, workspace \in BOOLEAN :
                 RegisterRow(token, a, leaseMS, connectTo, workspace) /\ ClaimsSwept
             \/ \E p \in KnownPrincipals : RetireRow(p) /\ ClaimsSwept
             \/ RotateRows /\ ClaimsSwept
    <2>1. now' = now
      BY <1>6, ClockOfRows, Zenon
    <2>2. ClaimsSwept
      BY <1>6, Zenon
    <2> QED BY <1>2, <2>1, <2>2, SweepPreserves
  <1> QED BY <1>2, <1>3, <1>4, <1>5, <1>6 DEF ExecutionNext

-----------------------------------------------------------------------------
(* What a board transaction has to show about the two tables it writes.    *)
LEMMA BoardFrame ==
  ASSUME TaskInv, UNCHANGED registryVars,
         tasks' \in [TaskIds -> Task], progress' \in [TaskIds -> Progress],
         \A t \in TaskIds : tasks'[t].status \in {"claimed", "done"} <=> tasks'[t].claim # Unclaimed,
         \A t \in TaskIds : tasks'[t].status = "claimed" =>
           /\ agents[tasks'[t].claim.agent].execution_id = tasks'[t].claim.execution
           /\ agents[tasks'[t].claim.agent].lease_expires_at # 0,
         \A t \in OnBoard(tasks') :
           /\ tasks'[t].dependencies \subseteq OnBoard(tasks')
           /\ tasks'[t].status \in {"claimed", "done"} =>
                \A d \in tasks'[t].dependencies : tasks'[d].status = "done"
  PROVE  TaskInv'
  BY DEF registryVars, TaskInv, TaskTypeOK, RegistryTypeOK, ClaimFencing, DependenciesHold, OnBoard

(* The facts the invariant gives about the rows.                           *)
LEMMA BoardRows ==
  ASSUME TaskInv
  PROVE  /\ tasks \in [TaskIds -> Task] /\ progress \in [TaskIds -> Progress]
         /\ \A t \in TaskIds :
              /\ tasks[t].status \in {"claimed", "done"} <=> tasks[t].claim # Unclaimed
              /\ tasks[t].status = "claimed" =>
                   /\ agents[tasks[t].claim.agent].execution_id = tasks[t].claim.execution
                   /\ agents[tasks[t].claim.agent].lease_expires_at # 0
              /\ tasks[t].dependencies \subseteq TaskIds
         /\ \A t \in OnBoard(tasks) :
              /\ tasks[t].dependencies \subseteq OnBoard(tasks)
              /\ tasks[t].status \in {"claimed", "done"} =>
                   \A d \in tasks[t].dependencies : tasks[d].status = "done"
  BY DEF TaskInv, TaskTypeOK, ClaimFencing, DependenciesHold, Task

(* A new task depends on tasks of the board only.                          *)
LEMMA AddPreserves ==
  ASSUME TaskInv, NEW dependencies \in SUBSET TaskIds, AddTask(dependencies)
  PROVE  TaskInv'
  <1> DEFINE new == [status |-> "open", claim |-> Unclaimed,
                     dependencies |-> dependencies, updated_at |-> 0]
  <1>1. PICK id \in TaskIds : tasks[id].status = "absent" /\ tasks' = [tasks EXCEPT ![id] = new]
    BY DEF AddTask
  <1>2. dependencies \subseteq OnBoard(tasks) /\ UNCHANGED registryVars /\ progress' = progress
    BY DEF AddTask
  <1>3. /\ new \in Task /\ new.status = "open" /\ new.claim = Unclaimed
        /\ new.dependencies = dependencies
    BY DEF Task
  <1> HIDE DEF new
  <1>4. tasks'[id] = new /\ \A t \in TaskIds \ {id} : tasks'[t] = tasks[t]
    BY <1>1, BoardRows
  <1>5. tasks' \in [TaskIds -> Task]
    BY <1>1, <1>3, BoardRows
  <1>6. OnBoard(tasks') = OnBoard(tasks) \cup {id}
    BY <1>1, <1>3, <1>4 DEF OnBoard
  <1>7. ASSUME NEW t \in OnBoard(tasks')
        PROVE  /\ tasks'[t].dependencies \subseteq OnBoard(tasks')
               /\ tasks'[t].status \in {"claimed", "done"} =>
                    \A d \in tasks'[t].dependencies : tasks'[d].status = "done"
    <2>1. CASE t = id
      BY <1>2, <1>3, <1>4, <1>6, <2>1
    <2>2. CASE t # id
      <3>1. t \in OnBoard(tasks) /\ t \in TaskIds /\ tasks'[t] = tasks[t]
        BY <1>4, <1>6, <2>2 DEF OnBoard
      <3>2. id \notin OnBoard(tasks) /\ OnBoard(tasks) \subseteq TaskIds
        BY <1>1 DEF OnBoard
      <3> QED BY <1>4, <1>6, <3>1, <3>2, BoardRows
    <2> QED BY <2>1, <2>2
  <1> QED BY <1>2, <1>3, <1>4, <1>5, <1>7, BoardRows, BoardFrame

(* A claim needs every dependency done, after the sweep.                   *)
LEMMA ClaimPreserves ==
  ASSUME TaskInv, NEW p \in KnownPrincipals, NEW t \in TaskIds, ClaimTask(p, t)
  PROVE  TaskInv'
  <1> DEFINE swept == releaseStaleTaskClaims(tasks, agents)
  <1>1. /\ agents[p.agent].execution_id = p.execution
        /\ agents[p.agent].lease_expires_at > now
        /\ swept[t].status = "open"
        /\ \A d \in swept[t].dependencies : swept[d].status = "done"
        /\ tasks' = [swept EXCEPT ![t].status = "claimed", ![t].claim = p]
        /\ UNCHANGED registryVars /\ progress' = progress
    BY DEF ClaimTask, requireCurrentExecution
  <1>2. /\ now \in Nat /\ agents \in [Agents -> Agent]
        /\ \A a \in Agents : agents[a].lease_expires_at \in Nat
    BY DEF TaskInv, TaskTypeOK, RegistryTypeOK, Agent
  <1>3. /\ swept \in [TaskIds -> Task]
        /\ \A u \in TaskIds :
             /\ swept[u].status \in {"claimed", "done"} <=> swept[u].claim # Unclaimed
             /\ swept[u].status = "done" <=> tasks[u].status = "done"
             /\ swept[u].dependencies = tasks[u].dependencies
             /\ swept[u].status \in {"claimed", "done"} => swept[u] = tasks[u]
             /\ u \in OnBoard(swept) <=> u \in OnBoard(tasks)
    BY <1>2, SweepRows
  <1> HIDE DEF swept
  <1>4. p \in Principals /\ p.agent \in Agents /\ p # Unclaimed
    BY PrincipalFacts
  <1>5. \A u \in TaskIds \ {t} : tasks'[u] = swept[u]
    BY <1>1, <1>3
  <1>6. tasks'[t] = [swept[t] EXCEPT !.status = "claimed", !.claim = p]
    BY <1>1, <1>3
  <1>7. /\ tasks'[t] \in Task /\ tasks'[t].status = "claimed" /\ tasks'[t].claim = p
        /\ tasks'[t].dependencies = swept[t].dependencies
    <2>1. swept[t] \in Task
      BY <1>3
    <2> HIDE DEF Principals, Unclaimed
    <2> QED BY <1>4, <1>6, <2>1 DEF Task
  <1>8. tasks' \in [TaskIds -> Task]
    <2>1. tasks' = [u \in TaskIds |-> tasks'[u]]
      BY <1>1, <1>3
    <2> QED BY <1>3, <1>5, <1>7, <2>1
  <1>9. \A u \in TaskIds : u \in OnBoard(tasks') <=> u \in OnBoard(tasks)
    BY <1>1, <1>3, <1>5, <1>7 DEF OnBoard
  <1>10. ASSUME NEW u \in OnBoard(tasks')
         PROVE  /\ tasks'[u].dependencies \subseteq OnBoard(tasks')
                /\ tasks'[u].status \in {"claimed", "done"} =>
                     \A d \in tasks'[u].dependencies : tasks'[d].status = "done"
    <2>1. u \in TaskIds /\ u \in OnBoard(tasks)
      BY <1>9 DEF OnBoard
    <2>2. /\ tasks[u].dependencies \subseteq OnBoard(tasks)
          /\ tasks[u].status \in {"claimed", "done"} =>
               \A d \in tasks[u].dependencies : tasks[d].status = "done"
          /\ tasks[u].dependencies \subseteq TaskIds
      BY <2>1, BoardRows
    <2>3. tasks'[u].dependencies = tasks[u].dependencies
      BY <1>3, <1>5, <1>7, <2>1
    <2>4. \A d \in TaskIds : swept[d].status = "done" => tasks'[d].status = "done"
      BY <1>1, <1>5
    <2>5. CASE u = t
      BY <1>1, <1>3, <1>7, <1>9, <2>2, <2>3, <2>4, <2>5
    <2>6. CASE u # t
      BY <1>3, <1>5, <1>9, <2>1, <2>2, <2>3, <2>4, <2>6
    <2> QED BY <2>5, <2>6
  <1>11. ASSUME NEW u \in TaskIds
         PROVE  /\ tasks'[u].status \in {"claimed", "done"} <=> tasks'[u].claim # Unclaimed
                /\ tasks'[u].status = "claimed" =>
                     /\ agents[tasks'[u].claim.agent].execution_id = tasks'[u].claim.execution
                     /\ agents[tasks'[u].claim.agent].lease_expires_at # 0
    <2>1. CASE u = t
      BY <1>1, <1>2, <1>4, <1>7, <2>1
    <2>2. CASE u # t
      BY <1>3, <1>5, <2>2, BoardRows
    <2> QED BY <2>1, <2>2
  <1> QED BY <1>1, <1>8, <1>10, <1>11, BoardRows, BoardFrame

(* Completing or releasing changes one claimed row, and no task that is    *)
(* claimed or done depends on a task that is only claimed.                 *)
LEMMA FinishPreserves ==
  ASSUME TaskInv, NEW t \in TaskIds, tasks[t].status = "claimed", NEW row \in Task,
         tasks' = [tasks EXCEPT ![t] = row], UNCHANGED <<registryVars, progress>>,
         row.dependencies = tasks[t].dependencies,
         \/ row.status = "done" /\ row.claim = tasks[t].claim
         \/ row.status = "open" /\ row.claim = Unclaimed
  PROVE  TaskInv'
  <1>1. tasks'[t] = row /\ \A u \in TaskIds \ {t} : tasks'[u] = tasks[u]
    BY BoardRows
  <1>2. tasks' \in [TaskIds -> Task]
    BY BoardRows
  <1>3. OnBoard(tasks') = OnBoard(tasks)
    BY <1>1 DEF OnBoard
  <1>4. t \in OnBoard(tasks) /\ OnBoard(tasks) \subseteq TaskIds
    BY DEF OnBoard
  <1>5. ASSUME NEW u \in OnBoard(tasks)
        PROVE  /\ tasks'[u].dependencies \subseteq OnBoard(tasks)
               /\ tasks'[u].status \in {"claimed", "done"} =>
                    \A d \in tasks'[u].dependencies : tasks'[d].status = "done"
    <2>1. /\ tasks[u].dependencies \subseteq OnBoard(tasks)
          /\ tasks[u].status \in {"claimed", "done"} =>
               \A d \in tasks[u].dependencies : tasks[d].status = "done"
      BY BoardRows
    <2>2. tasks'[u].dependencies = tasks[u].dependencies
      BY <1>1, <1>4
    <2>3. tasks'[u].status \in {"claimed", "done"} => tasks[u].status \in {"claimed", "done"}
      BY <1>1, <1>4
    <2>4. \A d \in TaskIds : tasks[d].status = "done" => tasks'[d].status = "done"
      BY <1>1
    <2> QED BY <1>4, <2>1, <2>2, <2>3, <2>4
  <1>6. ASSUME NEW u \in TaskIds
        PROVE  /\ tasks'[u].status \in {"claimed", "done"} <=> tasks'[u].claim # Unclaimed
               /\ tasks'[u].status = "claimed" =>
                    /\ agents[tasks'[u].claim.agent].execution_id = tasks'[u].claim.execution
                    /\ agents[tasks'[u].claim.agent].lease_expires_at # 0
    <2>1. CASE u = t
      <3> HIDE DEF Unclaimed
      <3> QED BY <1>1, <2>1, BoardRows
    <2>2. CASE u # t
      <3> HIDE DEF Unclaimed
      <3> QED BY <1>1, <2>2, BoardRows
    <2> QED BY <2>1, <2>2
  <1>7. UNCHANGED registryVars /\ progress' = progress
    OBVIOUS
  <1> QED BY <1>2, <1>3, <1>5, <1>6, <1>7, BoardRows, BoardFrame

(* The row an execution completes.                                         *)
LEMMA CompletePreserves ==
  ASSUME TaskInv, NEW p \in KnownPrincipals, NEW t \in TaskIds, CompleteTask(p, t)
  PROVE  TaskInv'
  <1> DEFINE row == [tasks[t] EXCEPT !.status = "done", !.updated_at = now]
  <1>1. /\ tasks' = [tasks EXCEPT ![t].status = "done", ![t].updated_at = now]
        /\ UNCHANGED <<registryVars, progress>> /\ tasks[t].status = "claimed"
    BY DEF CompleteTask, ClaimedBy
  <1>2. tasks[t] \in Task /\ now \in Nat
    BY BoardRows DEF TaskInv, TaskTypeOK, RegistryTypeOK
  <1>3. /\ row \in Task /\ row.dependencies = tasks[t].dependencies
        /\ row.status = "done" /\ row.claim = tasks[t].claim
    BY <1>2 DEF Task
  <1>4. tasks' = [tasks EXCEPT ![t] = row]
    BY <1>1, BoardRows
  <1> HIDE DEF row
  <1> QED BY <1>1, <1>3, <1>4, FinishPreserves

(* The row an execution gives back.                                        *)
LEMMA ReleasePreserves ==
  ASSUME TaskInv, NEW p \in KnownPrincipals, NEW t \in TaskIds, ReleaseTask(p, t)
  PROVE  TaskInv'
  <1> DEFINE row == [tasks[t] EXCEPT !.status = "open", !.claim = Unclaimed]
  <1>1. /\ tasks' = [tasks EXCEPT ![t].status = "open", ![t].claim = Unclaimed]
        /\ UNCHANGED <<registryVars, progress>> /\ tasks[t].status = "claimed"
    BY DEF ReleaseTask, ClaimedBy
  <1>2. tasks[t] \in Task
    BY BoardRows
  <1>3. /\ row \in Task /\ row.dependencies = tasks[t].dependencies
        /\ row.status = "open" /\ row.claim = Unclaimed
    <2> HIDE DEF Unclaimed
    <2> QED BY <1>2 DEF Task
  <1>4. tasks' = [tasks EXCEPT ![t] = row]
    BY <1>1, BoardRows
  <1> HIDE DEF row, Unclaimed
  <1> QED BY <1>1, <1>3, <1>4, FinishPreserves

(* A progress entry touches the log of a claimed task only.                *)
LEMMA ProgressPreserves ==
  ASSUME TaskInv, NEW p \in KnownPrincipals, NEW t \in TaskIds, NEW bytes \in TextSizes,
         AddTaskProgress(p, t, bytes)
  PROVE  TaskInv'
  <1>1. tasks' = tasks /\ UNCHANGED registryVars
    BY DEF AddTaskProgress
  <1>2. progress[t] \in Progress /\ p \in Principals /\ bytes \in Nat
    BY BoardRows, PrincipalFacts, TaskAssumption
  <1>3. [log |-> Append(progress[t].log, p), bytes |-> progress[t].bytes + bytes] \in Progress
    <2> HIDE DEF Principals
    <2> QED BY <1>2 DEF Progress
  <1>4. progress' \in [TaskIds -> Progress]
    BY <1>3, BoardRows DEF AddTaskProgress
  <1> QED BY <1>1, <1>4, BoardRows, BoardFrame

-----------------------------------------------------------------------------
(* What retention keeps: every root, and with a task what it depends on.   *)
LEMMA RetainedClosed ==
  ASSUME NEW tks, NEW before,
         \A t \in OnBoard(tks) : tks[t].dependencies \subseteq OnBoard(tks)
  PROVE  /\ RetentionRoots(tks, before) \subseteq Retained(tks, before)
         /\ Retained(tks, before) \subseteq OnBoard(tks)
         /\ \A t \in Retained(tks, before) : tks[t].dependencies \subseteq Retained(tks, before)
  <1>1. RetentionRoots(tks, before) \subseteq Retained(tks, before)
    BY DEF Retained, RetentionRoots
  <1>2. Retained(tks, before) \subseteq OnBoard(tks)
    BY DEF Retained
  <1>3. ASSUME NEW t \in Retained(tks, before), NEW d \in tks[t].dependencies
        PROVE  d \in Retained(tks, before)
    <2>1. d \in OnBoard(tks)
      BY <1>2
    <2>2. ASSUME NEW S \in SUBSET OnBoard(tks), RetentionRoots(tks, before) \subseteq S, Closed(tks, S)
          PROVE  d \in S
      <3>1. t \in S
        BY <2>2 DEF Retained
      <3> QED BY <2>2, <3>1 DEF Closed
    <2> QED BY <2>1, <2>2 DEF Retained
  <1> QED BY <1>1, <1>2, <1>3

(* Retention removes done tasks only, and none that a kept task names.     *)
LEMMA PruneKeeps ==
  ASSUME TaskInv, NEW token, NEW before, NEW execute \in BOOLEAN,
         PruneTasks(token, before, execute)
  PROVE  /\ TaskInv'
         /\ \A t \in TaskIds :
              \/ tasks'[t].status = "removed" /\ tasks[t].status = "done"
              \/ tasks'[t] = releaseStaleTaskClaims(tasks, agents)[t]
  <1> DEFINE swept == releaseStaleTaskClaims(tasks, agents)
             candidates == IF execute THEN retentionTaskCandidates(swept, before) ELSE {}
             gone == NoTask("removed")
  <1>1. /\ tasks' = [t \in TaskIds |-> IF t \in candidates THEN gone ELSE swept[t]]
        /\ progress' = [t \in TaskIds |-> IF t \in candidates THEN NoProgress ELSE progress[t]]
        /\ UNCHANGED registryVars
    BY DEF PruneTasks
  <1>2. /\ now \in Nat /\ agents \in [Agents -> Agent]
        /\ \A a \in Agents : agents[a].lease_expires_at \in Nat
    BY DEF TaskInv, TaskTypeOK, RegistryTypeOK, Agent
  <1>3. /\ swept \in [TaskIds -> Task]
        /\ \A u \in TaskIds :
             /\ swept[u].status \in {"claimed", "done"} <=> swept[u].claim # Unclaimed
             /\ swept[u].status = "done" <=> tasks[u].status = "done"
             /\ swept[u].dependencies = tasks[u].dependencies
             /\ swept[u].status \in {"claimed", "done"} => swept[u] = tasks[u]
             /\ u \in OnBoard(swept) <=> u \in OnBoard(tasks)
    BY <1>2, SweepRows
  <1>4. /\ gone \in Task /\ gone.status = "removed" /\ gone.claim = Unclaimed
    BY DEF NoTask, Task
  <1>5. NoProgress \in Progress
    BY DEF NoProgress, Progress
  <1> HIDE DEF swept, gone
  <1>6. OnBoard(swept) \subseteq TaskIds /\ OnBoard(swept) = OnBoard(tasks)
    BY <1>3 DEF OnBoard
  <1>7. \A t \in OnBoard(swept) : swept[t].dependencies \subseteq OnBoard(swept)
    BY <1>3, <1>6, BoardRows
  <1>8. /\ RetentionRoots(swept, before) \subseteq Retained(swept, before)
        /\ \A t \in Retained(swept, before) : swept[t].dependencies \subseteq Retained(swept, before)
    BY <1>7, RetainedClosed
  <1>9. /\ candidates \subseteq OnBoard(swept)
        /\ \A t \in candidates : swept[t].status = "done"
        /\ \A t \in OnBoard(swept) \ candidates : swept[t].dependencies \cap candidates = {}
    <2>1. CASE ~execute
      BY <2>1
    <2>2. CASE execute
      <3>1. candidates = OnBoard(swept) \ Retained(swept, before)
        BY <2>2 DEF retentionTaskCandidates
      <3>2. \A t \in OnBoard(swept) \ RetentionRoots(swept, before) : swept[t].status = "done"
        BY DEF RetentionRoots
      <3> HIDE DEF candidates
      <3> QED BY <1>8, <3>1, <3>2
    <2> QED BY <2>1, <2>2
  <1> HIDE DEF candidates
  <1>10. OnBoard(tasks') = OnBoard(swept) \ candidates
    BY <1>1, <1>4, <1>6, <1>9 DEF OnBoard
  <1>11. tasks' \in [TaskIds -> Task] /\ progress' \in [TaskIds -> Progress]
    BY <1>1, <1>3, <1>4, <1>5, BoardRows
  <1>12. ASSUME NEW u \in TaskIds
         PROVE  /\ tasks'[u].status \in {"claimed", "done"} <=> tasks'[u].claim # Unclaimed
                /\ tasks'[u].status = "claimed" =>
                     /\ agents[tasks'[u].claim.agent].execution_id = tasks'[u].claim.execution
                     /\ agents[tasks'[u].claim.agent].lease_expires_at # 0
    <2> HIDE DEF Unclaimed
    <2>1. CASE u \in candidates
      BY <1>1, <1>4, <2>1
    <2>2. CASE u \notin candidates
      BY <1>1, <1>3, <2>2, BoardRows
    <2> QED BY <2>1, <2>2
  <1>13. ASSUME NEW u \in OnBoard(tasks')
         PROVE  /\ tasks'[u].dependencies \subseteq OnBoard(tasks')
                /\ tasks'[u].status \in {"claimed", "done"} =>
                     \A d \in tasks'[u].dependencies : tasks'[d].status = "done"
    <2>1. u \in OnBoard(swept) /\ u \in TaskIds /\ tasks'[u] = swept[u] /\ u \notin candidates
      BY <1>1, <1>6, <1>10
    <2>2. swept[u].dependencies \subseteq OnBoard(tasks')
      BY <1>7, <1>9, <1>10, <2>1
    <2>3. \A d \in swept[u].dependencies : d \in TaskIds /\ tasks'[d] = swept[d]
      BY <1>1, <1>6, <1>10, <2>2
    <2>4. swept[u].status \in {"claimed", "done"} =>
            \A d \in swept[u].dependencies : tasks[d].status = "done"
      BY <1>3, <1>6, <2>1, BoardRows
    <2> QED BY <1>3, <2>1, <2>2, <2>3, <2>4
  <1>14. TaskInv'
    BY <1>1, <1>11, <1>12, <1>13, BoardFrame
  <1>15. ASSUME NEW t \in TaskIds
         PROVE  \/ tasks'[t].status = "removed" /\ tasks[t].status = "done"
                \/ tasks'[t] = swept[t]
    BY <1>1, <1>3, <1>4, <1>9
  <1> QED BY <1>14, <1>15 DEF swept

-----------------------------------------------------------------------------
(* What a step may do to a task: done work stays until retention takes it, *)
(* unfinished work is not removed, and an execution with authority keeps   *)
(* its claims until it completes or releases them.                         *)
Respects(t) ==
  /\ tasks[t].status = "done" => tasks'[t].status \in {"done", "removed"}
  /\ tasks[t].status \in {"open", "claimed"} => tasks'[t].status # "removed"
  /\ \A p \in KnownPrincipals : ClaimedBy(p, t) /\ requireCurrentExecution(p)' =>
       tasks'[t] = tasks[t] \/ CompleteTask(p, t) \/ ReleaseTask(p, t)

(* A row that stays as it is is respected.                                 *)
LEMMA RowRespected ==
  ASSUME NEW t \in TaskIds, tasks'[t] = tasks[t]
  PROVE  Respects(t)
  BY DEF Respects

(* The sweep respects the claims of executions the agents table it looks   *)
(* at calls live.                                                          *)
LEMMA SweepRespects ==
  ASSUME TaskInv, RegistryTypeOK', now' = now, NEW t \in TaskIds,
         tasks'[t] = releaseStaleTaskClaims(tasks, agents')[t]
  PROVE  Respects(t)
  <1>1. /\ now \in Nat /\ \A a \in Agents : agents'[a].lease_expires_at \in Nat
    BY DEF RegistryTypeOK, Agent, TaskInv, TaskTypeOK
  <1>2. \/ tasks'[t] = tasks[t]
        \/ /\ Opened(tasks[t], tasks'[t])
           /\ ~ /\ agents'[tasks[t].claim.agent].execution_id = tasks[t].claim.execution
                /\ agents'[tasks[t].claim.agent].lease_expires_at > now
    <2>1. tasks \in [TaskIds -> Task]
      BY DEF TaskInv, TaskTypeOK
    <2>2. tasks'[t] = tasks[t] \/ Opened(tasks[t], tasks'[t])
      BY <2>1, SweptRow
    <2>3. \/ tasks'[t] = tasks[t]
          \/ ~ /\ agents'[tasks[t].claim.agent].execution_id = tasks[t].claim.execution
               /\ agents'[tasks[t].claim.agent].lease_expires_at > now
      BY DEF releaseStaleTaskClaims
    <2> QED BY <2>2, <2>3
  <1>3. CASE tasks'[t] = tasks[t]
    BY <1>3, RowRespected
  <1>4. CASE /\ Opened(tasks[t], tasks'[t])
             /\ ~ /\ agents'[tasks[t].claim.agent].execution_id = tasks[t].claim.execution
                  /\ agents'[tasks[t].claim.agent].lease_expires_at > now
    <2>1. tasks[t].status = "claimed" /\ tasks'[t].status = "open"
      BY <1>4 DEF Opened
    <2>2. \A p \in KnownPrincipals : ~(ClaimedBy(p, t) /\ requireCurrentExecution(p)')
      BY <1>4 DEF ClaimedBy, requireCurrentExecution
    <2> QED BY <2>1, <2>2 DEF Respects
  <1> QED BY <1>2, <1>3, <1>4

(* The steps of the registry respect the board.                            *)
LEMMA ExecutionRespects ==
  ASSUME TaskInv, RegistryTypeOK', ExecutionNext, NEW t \in TaskIds
  PROVE  Respects(t)
  <1>1. CASE UNCHANGED taskVars
    BY <1>1, RowRespected DEF taskVars
  <1>2. CASE \/ \E token \in 1..MaxTokens, a \in Agents, leaseMS \in LeaseTimes,
                  connectTo \in SUBSET Agents, workspace \in BOOLEAN :
                 RegisterRow(token, a, leaseMS, connectTo, workspace) /\ ClaimsSwept
             \/ \E p \in KnownPrincipals : RetireRow(p) /\ ClaimsSwept
             \/ RotateRows /\ ClaimsSwept
    <2>1. now' = now
      BY <1>2, ClockOfRows, Zenon
    <2>2. ClaimsSwept
      BY <1>2, Zenon
    <2>3. tasks'[t] = releaseStaleTaskClaims(tasks, agents')[t]
      BY <2>2, Zenon DEF ClaimsSwept
    <2> QED BY <2>1, <2>3, SweepRespects
  <1> QED BY <1>1, <1>2, Zenon DEF ExecutionNext

(* The board's own transactions keep the invariant and respect the board.  *)
LEMMA BoardSteps ==
  ASSUME TaskInv, BoardNext
  PROVE  /\ TaskInv' /\ UNCHANGED registryVars
         /\ \A t \in TaskIds : Respects(t)
  <1>1. RegistryTypeOK /\ tasks \in [TaskIds -> Task]
    BY DEF TaskInv, TaskTypeOK
  <1>2. ASSUME UNCHANGED registryVars
        PROVE  /\ RegistryTypeOK' /\ now' = now /\ agents' = agents
    BY <1>1, <1>2 DEF registryVars, RegistryTypeOK
  <1>3. ASSUME NEW dependencies \in SUBSET TaskIds, AddTask(dependencies)
        PROVE  TaskInv' /\ UNCHANGED registryVars /\ \A t \in TaskIds : Respects(t)
    <2>1. PICK id \in TaskIds : tasks[id].status = "absent" /\ \A t \in TaskIds \ {id} : tasks'[t] = tasks[t]
      BY <1>1, <1>3 DEF AddTask
    <2>2. Respects(id)
      BY <2>1 DEF Respects, ClaimedBy
    <2>3. \A t \in TaskIds \ {id} : Respects(t)
      BY <2>1, RowRespected
    <2>4. UNCHANGED registryVars
      BY <1>3 DEF AddTask
    <2> QED BY <1>3, <2>2, <2>3, <2>4, AddPreserves
  <1>4. ASSUME NEW p \in KnownPrincipals, NEW u \in TaskIds, ClaimTask(p, u)
        PROVE  TaskInv' /\ UNCHANGED registryVars /\ \A t \in TaskIds : Respects(t)
    <2> DEFINE swept == releaseStaleTaskClaims(tasks, agents)
    <2>1. /\ UNCHANGED registryVars /\ swept[u].status = "open"
          /\ tasks' = [swept EXCEPT ![u].status = "claimed", ![u].claim = p]
      BY <1>4 DEF ClaimTask
    <2>2. \A a \in Agents : agents[a].lease_expires_at \in Nat
      BY <1>1 DEF RegistryTypeOK, Agent
    <2>3. /\ swept \in [TaskIds -> Task]
          /\ swept[u].status = "done" <=> tasks[u].status = "done"
      BY <2>2, SweepRows
    <2>4. /\ \A t \in TaskIds \ {u} : tasks'[t] = swept[t]
          /\ tasks'[u].status = "claimed"
      <3>1. swept[u] \in Task
        BY <2>3
      <3>2. tasks'[u] = [swept[u] EXCEPT !.status = "claimed", !.claim = p]
        BY <2>1, <2>3
      <3> HIDE DEF swept
      <3> QED BY <2>1, <2>3, <3>1, <3>2 DEF Task
    <2>5. \A t \in TaskIds \ {u} : Respects(t)
      BY <1>2, <2>1, <2>4, SweepRespects
    <2>6. \A q \in KnownPrincipals : ~(ClaimedBy(q, u) /\ requireCurrentExecution(q)')
      BY <1>2, <2>1 DEF ClaimedBy, requireCurrentExecution, releaseStaleTaskClaims
    <2>7. Respects(u)
      BY <2>1, <2>3, <2>4, <2>6 DEF Respects
    <2> QED BY <1>4, <2>1, <2>5, <2>7, ClaimPreserves
  <1>5. ASSUME NEW p \in KnownPrincipals, NEW u \in TaskIds, CompleteTask(p, u) \/ ReleaseTask(p, u)
        PROVE  TaskInv' /\ UNCHANGED registryVars /\ \A t \in TaskIds : Respects(t)
    <2>1. /\ UNCHANGED registryVars /\ ClaimedBy(p, u)
          /\ \A t \in TaskIds \ {u} : tasks'[t] = tasks[t]
      BY <1>1, <1>5 DEF CompleteTask, ReleaseTask
    <2>2. tasks'[u].status \in {"done", "open"}
      <3>1. tasks[u] \in Task
        BY <1>1
      <3>2. \/ tasks'[u] = [tasks[u] EXCEPT !.status = "done", !.updated_at = now]
            \/ tasks'[u] = [tasks[u] EXCEPT !.status = "open", !.claim = Unclaimed]
        BY <1>1, <1>5 DEF CompleteTask, ReleaseTask
      <3> HIDE DEF Unclaimed
      <3> QED BY <3>1, <3>2 DEF Task
    <2>3. \A q \in KnownPrincipals : ClaimedBy(q, u) => q = p
      BY <2>1 DEF ClaimedBy
    <2>4. Respects(u)
      BY <1>5, <2>1, <2>2, <2>3 DEF Respects, ClaimedBy
    <2>5. \A t \in TaskIds \ {u} : Respects(t)
      BY <2>1, RowRespected
    <2> QED BY <1>5, <2>1, <2>4, <2>5, CompletePreserves, ReleasePreserves
  <1>6. ASSUME NEW p \in KnownPrincipals, NEW u \in TaskIds, NEW bytes \in TextSizes,
               AddTaskProgress(p, u, bytes)
        PROVE  TaskInv' /\ UNCHANGED registryVars /\ \A t \in TaskIds : Respects(t)
    <2>1. tasks' = tasks /\ UNCHANGED registryVars
      BY <1>6 DEF AddTaskProgress
    <2> QED BY <1>6, <2>1, RowRespected, ProgressPreserves
  <1>7. ASSUME ListTasks \/ TaskPage
        PROVE  TaskInv' /\ UNCHANGED registryVars /\ \A t \in TaskIds : Respects(t)
    <2>1. UNCHANGED registryVars /\ ClaimsSwept
      BY <1>7 DEF ListTasks, TaskPage
    <2>2. \A t \in TaskIds : tasks'[t] = releaseStaleTaskClaims(tasks, agents')[t]
      BY <2>1 DEF ClaimsSwept
    <2> QED BY <1>2, <2>1, <2>2, SweepPreserves, SweepRespects
  <1>8. ASSUME NEW token \in 1..MaxTokens, NEW before \in 1..MaxTime, NEW execute \in BOOLEAN,
               PruneTasks(token, before, execute)
        PROVE  TaskInv' /\ UNCHANGED registryVars /\ \A t \in TaskIds : Respects(t)
    <2>1. UNCHANGED registryVars
      BY <1>8 DEF PruneTasks
    <2>2. ASSUME NEW t \in TaskIds, tasks'[t].status = "removed", tasks[t].status = "done"
          PROVE  Respects(t)
      BY <2>2 DEF Respects, ClaimedBy
    <2> QED BY <1>2, <1>8, <2>1, <2>2, PruneKeeps, SweepRespects
  <1> QED BY <1>3, <1>4, <1>5, <1>6, <1>7, <1>8 DEF BoardNext

-----------------------------------------------------------------------------
(* The invariant holds initially.                                          *)
LEMMA TaskInitInv ==
  ASSUME TaskInit
  PROVE  TaskInv /\ RotationRevokes
  <1> DEFINE none == NoTask("absent")
  <1>1. /\ now = 1 /\ scopeToken = 1 /\ links = {}
        /\ agents = [a \in Agents |-> NoAgent]
        /\ tasks = [t \in TaskIds |-> none] /\ progress = [t \in TaskIds |-> NoProgress]
    BY DEF TaskInit, RegistryInit
  <1>2. none \in Task /\ none.status = "absent" /\ none.claim = Unclaimed
    BY DEF NoTask, Task
  <1>3. NoAgent \in Agent /\ NoAgent.lease_expires_at = 0
    BY DEF NoAgent, Agent, Lifecycles
  <1>4. NoProgress \in Progress
    BY DEF NoProgress, Progress
  <1> HIDE DEF none
  <1>5. RegistryTypeOK /\ RotationRevokes
    BY <1>1, <1>3 DEF RegistryTypeOK, RotationRevokes
  <1>6. TaskTypeOK
    BY <1>1, <1>2, <1>4, <1>5 DEF TaskTypeOK
  <1>7. ClaimFencing /\ DependenciesHold
    BY <1>1, <1>2 DEF ClaimFencing, DependenciesHold, OnBoard
  <1> QED BY <1>5, <1>6, <1>7 DEF TaskInv

(* Every step keeps the invariant and respects every task.                 *)
LEMMA TaskSteps ==
  ASSUME TaskInv, RotationRevokes, [TaskNext]_boardVars
  PROVE  /\ TaskInv' /\ RotationRevokes'
         /\ \A t \in TaskIds : Respects(t)
  <1>1. CASE ExecutionNext
    <2>1. TaskInv' /\ RotationRevokes'
      BY <1>1, ExecutionPreserves
    <2>2. RegistryTypeOK'
      BY <2>1 DEF TaskInv, TaskTypeOK
    <2> QED BY <1>1, <2>1, <2>2, ExecutionRespects
  <1>2. CASE BoardNext
    <2>1. UNCHANGED registryVars
      BY <1>2, BoardSteps
    <2>2. RotationRevokes'
      BY <2>1 DEF RotationRevokes, registryVars
    <2> QED BY <1>2, <2>2, BoardSteps
  <1>3. CASE UNCHANGED boardVars
    <2>1. UNCHANGED registryVars /\ tasks' = tasks /\ progress' = progress
      BY <1>3 DEF boardVars, taskVars
    <2>2. TaskInv' /\ RotationRevokes'
      BY <2>1 DEF RotationRevokes, registryVars, TaskInv, TaskTypeOK, RegistryTypeOK,
                  ClaimFencing, DependenciesHold, OnBoard
    <2> QED BY <2>1, <2>2, RowRespected
  <1> QED BY <1>1, <1>2, <1>3 DEF TaskNext

(* The inductive invariant holds throughout.                               *)
LEMMA TaskInvHolds == TaskSpec => [](TaskInv /\ RotationRevokes)
  BY TaskInitInv, TaskSteps, PTL DEF TaskSpec

(* The tasks table keeps its CHECK through every operation and sweep.      *)
THEOREM BoardTypeCorrectness == TaskSpec => []TaskTypeOK
  <1>1. TaskInv => TaskTypeOK
    BY DEF TaskInv
  <1> QED BY <1>1, TaskInvHolds, PTL

(* No claim outlives its execution by replacement, retirement or rotation, *)
(* for every number of agents and executions.                              *)
THEOREM ClaimsAreFenced == TaskSpec => []ClaimFencing
  <1>1. TaskInv => ClaimFencing
    BY DEF TaskInv
  <1> QED BY <1>1, TaskInvHolds, PTL

(* Work starts only after its dependencies are done, and neither a release *)
(* nor a sweep nor retention undoes that, for every dependency graph.      *)
THEOREM DependenciesAreKept == TaskSpec => []DependenciesHold
  <1>1. TaskInv => DependenciesHold
    BY DEF TaskInv
  <1> QED BY <1>1, TaskInvHolds, PTL

(* No one takes a task away from an execution that has authority, done     *)
(* work is never reopened and unfinished work never forgotten              *)
(* (CompleteTask, ReleaseTask, releaseStaleTaskClaims, PruneScope).        *)
THEOREM WorkIsKept == TaskSpec => WorkKept
  <1>1. TaskInv /\ RotationRevokes /\ [TaskNext]_boardVars => [FinishedWorkStays]_boardVars
    BY TaskSteps DEF Respects, FinishedWorkStays
  <1>2. TaskInv /\ RotationRevokes /\ [TaskNext]_boardVars => [ClaimsExclusive]_boardVars
    <2> SUFFICES ASSUME TaskInv, RotationRevokes, [TaskNext]_boardVars,
                        NEW t \in TaskIds, NEW p \in KnownPrincipals,
                        ClaimedBy(p, t), ~ClaimedBy(p, t)', requireCurrentExecution(p)'
                 PROVE  CompleteTask(p, t) \/ ReleaseTask(p, t)
      BY Zenon DEF ClaimsExclusive
    <2>1. Respects(t)
      BY TaskSteps
    <2>2. tasks'[t] # tasks[t]
      BY DEF ClaimedBy
    <2> QED BY <2>1, <2>2 DEF Respects
  <1>3. TaskInv /\ RotationRevokes /\ [TaskNext]_boardVars
          => [ClaimsExclusive /\ FinishedWorkStays]_boardVars
    BY <1>1, <1>2
  <1> QED BY <1>3, TaskInvHolds, PTL DEF TaskSpec, WorkKept

-----------------------------------------------------------------------------
(* The limits of the board and what an export of it requires.  The IDs may *)
(* be infinitely many, so that the unfinished tasks are finite is part of  *)
(* the invariant.                                                          *)
NoCircle ==
  \A S \in SUBSET OnBoard(tasks) : S # {} => \E t \in S : tasks[t].dependencies \cap S = {}

WorkersKnown ==
  \A t \in TaskIds :
    /\ tasks[t].status = "done" => Registered(tasks[t].claim.agent)
    /\ \A n \in 1..Len(progress[t].log) : Registered(progress[t].log[n].agent)

BoardInv ==
  /\ IsFiniteSet(Unfinished(tasks))
  /\ BoardBounded
  /\ NoCircle
  /\ WorkersKnown

(* A step that adds no task: no task comes back to the board or to work,   *)
(* its dependencies stay, and a task that is done was claimed.             *)
Settled(t) ==
  /\ tasks'[t].status \in {"open", "claimed"} => tasks[t].status \in {"open", "claimed"}
  /\ tasks'[t].status \in {"open", "claimed", "done"} =>
       /\ tasks[t].status \in {"open", "claimed", "done"}
       /\ tasks'[t].dependencies = tasks[t].dependencies
  /\ tasks'[t].status = "done" =>
       tasks[t].status \in {"claimed", "done"} /\ tasks'[t].claim = tasks[t].claim

(* A row that stays as it is is settled.                                   *)
LEMMA RowSettled ==
  ASSUME NEW t \in TaskIds, tasks'[t] = tasks[t]
  PROVE  Settled(t)
  BY DEF Settled

(* So is a row the sweep has gone over.                                    *)
LEMMA SweepSettles ==
  ASSUME TaskInv, NEW ags, \A a \in Agents : ags[a].lease_expires_at \in Nat,
         NEW t \in TaskIds, tasks'[t] = releaseStaleTaskClaims(tasks, ags)[t]
  PROVE  Settled(t)
  <1> DEFINE tks == releaseStaleTaskClaims(tasks, ags)
  <1>1. /\ tks[t].status = "done" <=> tasks[t].status = "done"
        /\ tks[t].dependencies = tasks[t].dependencies
        /\ tks[t].status \in {"claimed", "done"} => tks[t] = tasks[t]
        /\ t \in OnBoard(tks) <=> t \in OnBoard(tasks)
    BY SweepRows
  <1> HIDE DEF tks
  <1>2. tasks'[t] = tks[t]
    BY DEF tks
  <1>3. tks[t].status \in {"open", "claimed", "done"} <=> tasks[t].status \in {"open", "claimed", "done"}
    BY <1>1 DEF OnBoard
  <1> QED BY <1>1, <1>2, <1>3 DEF Settled

(* An execution that works on a task is one of a registered agent.         *)
LEMMA WorkerRegistered ==
  ASSUME NEW p \in KnownPrincipals, requireCurrentExecution(p)
  PROVE  p.agent \in Agents /\ Registered(p.agent)
  BY PrincipalFacts DEF requireCurrentExecution, Registered, Principals

(* The agents behind the tasks that are claimed or done.                   *)
LEMMA HolderRegistered ==
  ASSUME TaskInv, WorkersKnown, NEW t \in TaskIds, tasks[t].status \in {"claimed", "done"}
  PROVE  tasks[t].claim.agent \in Agents /\ Registered(tasks[t].claim.agent)
  <1>1. tasks[t].claim \in Principals
    <2>1. tasks[t] \in Task /\ tasks[t].claim # Unclaimed
      BY BoardRows
    <2> HIDE DEF Unclaimed
    <2> QED BY <2>1 DEF Task
  <1>2. tasks[t].claim.agent \in Agents /\ tasks[t].claim.execution \in Nat \ {0}
    BY <1>1 DEF Principals
  <1>3. tasks[t].status = "claimed" => Registered(tasks[t].claim.agent)
    BY <1>2, BoardRows DEF Registered
  <1> QED BY <1>2, <1>3 DEF WorkersKnown

(* Fewer tasks with the same dependencies: no circle appears.              *)
LEMMA CircleFree ==
  ASSUME NoCircle, \A t \in TaskIds : Settled(t)
  PROVE  NoCircle'
  <1>1. OnBoard(tasks') \subseteq OnBoard(tasks) /\ OnBoard(tasks') \subseteq TaskIds
    BY DEF OnBoard, Settled
  <1>2. \A t \in OnBoard(tasks') : tasks'[t].dependencies = tasks[t].dependencies
    BY DEF OnBoard, Settled
  <1>3. ASSUME NEW S \in SUBSET OnBoard(tasks'), S # {}
        PROVE  \E t \in S : tasks'[t].dependencies \cap S = {}
    <2>1. PICK t \in S : tasks[t].dependencies \cap S = {}
      BY <1>1, <1>3 DEF NoCircle
    <2> QED BY <1>2, <2>1
  <1> QED BY <1>3 DEF NoCircle

(* What a step that adds no task and no progress has to show.              *)
LEMMA SettledKeeps ==
  ASSUME TaskInv, BoardInv, \A t \in TaskIds : Settled(t),
         \A a \in Agents : Registered(a) => Registered(a)',
         \A t \in TaskIds : progress'[t] \in {progress[t], NoProgress}
  PROVE  BoardInv'
  <1>1. Unfinished(tasks') \subseteq Unfinished(tasks)
    BY DEF Unfinished, Settled
  <1>2. /\ IsFiniteSet(Unfinished(tasks'))
        /\ Cardinality(Unfinished(tasks')) <= Cardinality(Unfinished(tasks))
    BY <1>1, FS_Subset DEF BoardInv
  <1>3. /\ Cardinality(Unfinished(tasks)) \in Nat
        /\ Cardinality(Unfinished(tasks')) \in Nat
    BY <1>2, FS_CardinalityType DEF BoardInv
  <1>4. NoProgress.log = <<>> /\ Len(NoProgress.log) = 0 /\ NoProgress.bytes = 0
    BY DEF NoProgress
  <1> HIDE DEF NoProgress
  <1>5. \A t \in TaskIds : /\ Len(progress'[t].log) <= MaxProgressEvents
                          /\ progress'[t].bytes <= MaxProgressBytes
    BY <1>4, TaskAssumption DEF BoardInv, BoardBounded
  <1>6. BoardBounded'
    BY <1>2, <1>3, <1>5, TaskAssumption DEF BoardInv, BoardBounded
  <1>7. ASSUME NEW t \in TaskIds
        PROVE  /\ tasks'[t].status = "done" => Registered(tasks[t].claim.agent)'
               /\ \A n \in 1..Len(progress'[t].log) : Registered(progress[t].log[n].agent)'
    <2>1. tasks'[t].status = "done" => Registered(tasks[t].claim.agent)'
      <3> HAVE tasks'[t].status = "done"
      <3>1. tasks[t].status \in {"claimed", "done"} /\ tasks'[t].claim = tasks[t].claim
        BY DEF Settled
      <3>2. tasks[t].claim.agent \in Agents /\ Registered(tasks[t].claim.agent)
        BY <3>1, HolderRegistered DEF BoardInv
      <3> QED BY <3>1, <3>2 DEF Registered
    <2>2. ASSUME NEW n \in 1..Len(progress'[t].log)
          PROVE  Registered(progress[t].log[n].agent)'
      <3>1. progress'[t] = progress[t]
        BY <1>4, <2>2
      <3>2. Registered(progress[t].log[n].agent)
        BY <2>2, <3>1 DEF BoardInv, WorkersKnown
      <3>3. progress[t].log[n].agent \in Agents
        <4>1. progress[t].log \in Seq(Principals) /\ n \in 1..Len(progress[t].log)
          BY <2>2, <3>1, BoardRows DEF Progress
        <4>2. progress[t].log[n] \in Principals
          BY <4>1
        <4> QED BY <4>2, PrincipalFacts
      <3> QED BY <3>1, <3>2, <3>3 DEF Registered
    <2> QED BY <2>1, <2>2
  <1>8. WorkersKnown'
    BY <1>7 DEF WorkersKnown, Registered
  <1> QED BY <1>2, <1>6, <1>8, CircleFree DEF BoardInv

(* A new task may fill the last place of the board, and depends only on    *)
(* tasks that were there before it.                                        *)
LEMMA AddKeeps ==
  ASSUME TaskInv, BoardInv, NEW dependencies \in SUBSET TaskIds, AddTask(dependencies)
  PROVE  BoardInv'
  <1> DEFINE new == [status |-> "open", claim |-> Unclaimed,
                     dependencies |-> dependencies, updated_at |-> 0]
  <1>1. PICK id \in TaskIds : tasks[id].status = "absent" /\ tasks' = [tasks EXCEPT ![id] = new]
    BY DEF AddTask
  <1>2. /\ Cardinality(Unfinished(tasks)) < ActiveTaskCap
        /\ dependencies \subseteq OnBoard(tasks)
        /\ agents' = agents /\ progress' = progress
    BY DEF AddTask, registryVars
  <1>3. new.status = "open" /\ new.dependencies = dependencies
    OBVIOUS
  <1> HIDE DEF new
  <1>4. tasks'[id] = new /\ \A t \in TaskIds \ {id} : tasks'[t] = tasks[t]
    BY <1>1, BoardRows
  <1>5. /\ Unfinished(tasks') = Unfinished(tasks) \cup {id}
        /\ id \notin Unfinished(tasks)
    BY <1>1, <1>3, <1>4 DEF Unfinished
  <1>6. /\ IsFiniteSet(Unfinished(tasks'))
        /\ Cardinality(Unfinished(tasks')) = Cardinality(Unfinished(tasks)) + 1
    BY <1>5, FS_AddElement DEF BoardInv
  <1>7. Cardinality(Unfinished(tasks)) \in Nat
    BY FS_CardinalityType DEF BoardInv
  <1>8. BoardBounded'
    BY <1>2, <1>6, <1>7, TaskAssumption DEF BoardInv, BoardBounded
  <1>9. /\ OnBoard(tasks') = OnBoard(tasks) \cup {id}
        /\ id \notin OnBoard(tasks) /\ OnBoard(tasks) \subseteq TaskIds
    BY <1>1, <1>3, <1>4 DEF OnBoard
  <1>10. ASSUME NEW S \in SUBSET OnBoard(tasks'), S # {}
         PROVE  \E t \in S : tasks'[t].dependencies \cap S = {}
    <2> DEFINE old == S \ {id}
    <2>1. old \subseteq OnBoard(tasks)
      BY <1>9
    <2>2. CASE old = {}
      <3>1. S = {id}
        BY <1>10, <2>2
      <3>2. tasks'[id].dependencies \cap S = {}
        BY <1>2, <1>3, <1>4, <1>9, <3>1
      <3> QED BY <3>1, <3>2
    <2>3. CASE old # {}
      <3>1. PICK t \in old : tasks[t].dependencies \cap old = {}
        BY <2>1, <2>3 DEF BoardInv, NoCircle
      <3>2. tasks[t].dependencies \subseteq OnBoard(tasks)
        BY <2>1, BoardRows
      <3>3. tasks'[t] = tasks[t] /\ id \notin tasks[t].dependencies
        BY <1>4, <1>9, <2>1, <3>2
      <3> QED BY <3>1, <3>3
    <2> QED BY <2>2, <2>3
  <1>11. NoCircle'
    BY <1>10 DEF NoCircle
  <1>12. WorkersKnown'
    <2>1. \A t \in TaskIds : tasks'[t].status = "done" => tasks[t].status = "done" /\ tasks'[t] = tasks[t]
      BY <1>3, <1>4
    <2> QED BY <1>2, <2>1 DEF BoardInv, WorkersKnown, Registered
  <1> QED BY <1>6, <1>8, <1>11, <1>12 DEF BoardInv

(* A progress entry fits both limits and is written by an execution.       *)
LEMMA ProgressKeeps ==
  ASSUME TaskInv, BoardInv, NEW p \in KnownPrincipals, NEW t \in TaskIds, NEW bytes \in TextSizes,
         AddTaskProgress(p, t, bytes)
  PROVE  BoardInv'
  <1> DEFINE entry == [log |-> Append(progress[t].log, p), bytes |-> progress[t].bytes + bytes]
  <1>1. /\ tasks' = tasks /\ agents' = agents /\ requireCurrentExecution(p)
        /\ Len(progress[t].log) < MaxProgressEvents
        /\ progress[t].bytes + bytes <= MaxProgressBytes
        /\ progress' = [progress EXCEPT ![t] = entry]
    BY DEF AddTaskProgress, registryVars
  <1>2. progress[t].log \in Seq(Principals) /\ p \in Principals
    BY BoardRows, PrincipalFacts DEF Progress
  <1>3. /\ entry.log = Append(progress[t].log, p)
        /\ entry.bytes = progress[t].bytes + bytes
    OBVIOUS
  <1> HIDE DEF entry, Principals
  <1>4. /\ Len(entry.log) = Len(progress[t].log) + 1 /\ Len(progress[t].log) \in Nat
        /\ \A n \in 1..Len(entry.log) :
             entry.log[n] = IF n = Len(progress[t].log) + 1 THEN p ELSE progress[t].log[n]
    BY <1>2, <1>3
  <1>5. progress'[t] = entry /\ \A u \in TaskIds \ {t} : progress'[u] = progress[u]
    BY <1>1, BoardRows
  <1>6. Registered(p.agent)
    BY <1>1, WorkerRegistered
  <1>7. BoardBounded'
    BY <1>1, <1>3, <1>4, <1>5, TaskAssumption DEF BoardInv, BoardBounded
  <1>8. ASSUME NEW u \in TaskIds, NEW n \in 1..Len(progress'[u].log)
        PROVE  Registered(progress[u].log[n].agent)'
    <2>1. CASE u # t
      <3>1. progress'[u] = progress[u] /\ n \in 1..Len(progress[u].log)
        BY <1>5, <1>8, <2>1
      <3> QED BY <1>1, <3>1 DEF BoardInv, WorkersKnown, Registered
    <2>2. CASE u = t /\ n = Len(progress[t].log) + 1
      <3>1. progress'[u].log[n] = p
        BY <1>4, <1>5, <1>8, <2>2
      <3> QED BY <1>1, <1>6, <3>1 DEF Registered
    <2>3. CASE u = t /\ n # Len(progress[t].log) + 1
      <3>1. n \in 1..Len(progress[t].log) /\ progress'[u].log[n] = progress[t].log[n]
        BY <1>4, <1>5, <1>8, <2>3
      <3> QED BY <1>1, <3>1 DEF BoardInv, WorkersKnown, Registered
    <2> QED BY <2>1, <2>2, <2>3
  <1>9. WorkersKnown'
    BY <1>1, <1>8 DEF BoardInv, WorkersKnown, Registered
  <1>10. NoCircle' /\ IsFiniteSet(Unfinished(tasks'))
    BY <1>1 DEF BoardInv, NoCircle
  <1> QED BY <1>7, <1>9, <1>10 DEF BoardInv

(* Every other step settles every task and leaves its log or removes it.   *)
LEMMA OtherStepsSettle ==
  ASSUME TaskInv, TaskInv',
         \/ ExecutionNext
         \/ \E p \in KnownPrincipals, t \in TaskIds :
              ClaimTask(p, t) \/ CompleteTask(p, t) \/ ReleaseTask(p, t)
         \/ ListTasks \/ TaskPage
         \/ \E token \in 1..MaxTokens, before \in 1..MaxTime, execute \in BOOLEAN :
              PruneTasks(token, before, execute)
         \/ UNCHANGED boardVars
  PROVE  \A u \in TaskIds : Settled(u) /\ progress'[u] \in {progress[u], NoProgress}
  <1> DEFINE Goal == \A u \in TaskIds : Settled(u) /\ progress'[u] \in {progress[u], NoProgress}
  <1>1. /\ tasks \in [TaskIds -> Task]
        /\ \A a \in Agents : agents[a].lease_expires_at \in Nat
        /\ \A a \in Agents : agents'[a].lease_expires_at \in Nat
    BY DEF TaskInv, TaskTypeOK, RegistryTypeOK, Agent
  <1>2. ASSUME UNCHANGED taskVars
        PROVE  Goal
    BY <1>2, RowSettled DEF taskVars
  <1>3. ASSUME ClaimsSwept
        PROVE  Goal
    <2>1. progress' = progress
          /\ \A u \in TaskIds : tasks'[u] = releaseStaleTaskClaims(tasks, agents')[u]
      BY <1>3 DEF ClaimsSwept
    <2> QED BY <1>1, <2>1, SweepSettles
  <1>4. ASSUME NEW p \in KnownPrincipals, NEW t \in TaskIds, ClaimTask(p, t)
        PROVE  Goal
    <2> DEFINE swept == releaseStaleTaskClaims(tasks, agents)
    <2>1. swept \in [TaskIds -> Task]
          /\ (t \in OnBoard(swept) <=> t \in OnBoard(tasks))
          /\ (swept[t].status = "done" <=> tasks[t].status = "done")
          /\ swept[t].dependencies = tasks[t].dependencies
      BY <1>1, SweepRows
    <2>2. /\ swept[t].status = "open" /\ progress' = progress
          /\ tasks' = [swept EXCEPT ![t].status = "claimed", ![t].claim = p]
      BY <1>4 DEF ClaimTask
    <2>3. ASSUME NEW u \in TaskIds \ {t} PROVE Settled(u)
      <3>1. tasks'[u] = swept[u]
        BY <2>1, <2>2
      <3> QED BY <1>1, <3>1, SweepSettles
    <2>4. Settled(t)
      <3> HIDE DEF swept
      <3>1. tasks'[t].status = "claimed" /\ tasks'[t].dependencies = swept[t].dependencies
        BY <2>1, <2>2 DEF Task
      <3>2. tasks[t].status \in {"open", "claimed"}
        BY <2>1, <2>2 DEF OnBoard
      <3> QED BY <2>1, <3>1, <3>2 DEF Settled
    <2> QED BY <2>2, <2>3, <2>4
  <1>5. ASSUME NEW p \in KnownPrincipals, NEW t \in TaskIds, CompleteTask(p, t) \/ ReleaseTask(p, t)
        PROVE  Goal
    <2>1. /\ tasks[t].status = "claimed" /\ progress' = progress
          /\ \/ tasks' = [tasks EXCEPT ![t].status = "done", ![t].updated_at = now]
             \/ tasks' = [tasks EXCEPT ![t].status = "open", ![t].claim = Unclaimed]
      BY <1>5 DEF CompleteTask, ReleaseTask, ClaimedBy
    <2>2. \A u \in TaskIds \ {t} : tasks'[u] = tasks[u]
      BY <1>1, <2>1
    <2>3. /\ tasks'[t].dependencies = tasks[t].dependencies
          /\ \/ tasks'[t].status = "open"
             \/ tasks'[t].status = "done" /\ tasks'[t].claim = tasks[t].claim
      BY <1>1, <2>1 DEF Task
    <2>4. Settled(t)
      BY <2>1, <2>3 DEF Settled
    <2> QED BY <2>1, <2>2, <2>4, RowSettled
  <1>6. ASSUME ListTasks \/ TaskPage
        PROVE  Goal
    BY <1>3, <1>6 DEF ListTasks, TaskPage
  <1>7. ASSUME NEW token, NEW before, NEW execute \in BOOLEAN, PruneTasks(token, before, execute)
        PROVE  Goal
    <2>1. \A u \in TaskIds :
            \/ tasks'[u].status = "removed" /\ tasks[u].status = "done"
            \/ tasks'[u] = releaseStaleTaskClaims(tasks, agents)[u]
      BY <1>7, PruneKeeps
    <2>2. \A u \in TaskIds : tasks'[u].status = "removed" => Settled(u)
      BY DEF Settled
    <2>3. \A u \in TaskIds : Settled(u)
      BY <1>1, <2>1, <2>2, SweepSettles
    <2>4. \A u \in TaskIds : progress'[u] \in {progress[u], NoProgress}
      BY <1>7 DEF PruneTasks
    <2> QED BY <2>3, <2>4
  <1>8. ExecutionNext => UNCHANGED taskVars \/ ClaimsSwept
    BY Zenon DEF ExecutionNext
  <1>9. UNCHANGED boardVars => UNCHANGED taskVars
    BY DEF boardVars
  <1> HIDE DEF Goal
  <1>10. Goal
    BY <1>2, <1>3, <1>4, <1>5, <1>6, <1>7, <1>8, <1>9, Zenon
  <1> QED BY <1>10 DEF Goal

(* Every step keeps the limits of the board and its export.                *)
LEMMA BoardInvSteps ==
  ASSUME TaskInv, TaskInv', BoardInv, [TaskNext]_boardVars
  PROVE  BoardInv'
  <1>1. RegistryTypeOK
    BY DEF TaskInv, TaskTypeOK
  <1>2. CASE \E dependencies \in SUBSET TaskIds : AddTask(dependencies)
    BY <1>2, AddKeeps
  <1>3. CASE \E p \in KnownPrincipals, t \in TaskIds, bytes \in TextSizes :
               AddTaskProgress(p, t, bytes)
    BY <1>3, ProgressKeeps
  <1>4. CASE \/ ExecutionNext
             \/ \E p \in KnownPrincipals, t \in TaskIds :
                  ClaimTask(p, t) \/ CompleteTask(p, t) \/ ReleaseTask(p, t)
             \/ ListTasks \/ TaskPage
             \/ \E token \in 1..MaxTokens, before \in 1..MaxTime, execute \in BOOLEAN :
                  PruneTasks(token, before, execute)
             \/ UNCHANGED boardVars
    <2>1. \A u \in TaskIds : Settled(u) /\ progress'[u] \in {progress[u], NoProgress}
      BY <1>4, OtherStepsSettle
    <2>2. ExecutionNext \/ UNCHANGED registryVars
      <3>1. UNCHANGED boardVars => UNCHANGED registryVars
        BY DEF boardVars
      <3>2. BoardNext => UNCHANGED registryVars
        BY BoardSteps
      <3>3. ExecutionNext \/ BoardNext \/ UNCHANGED boardVars
        BY DEF TaskNext
      <3> QED BY <3>1, <3>2, <3>3
    <2>3. \A a \in Agents : Registered(a) => Registered(a)'
      BY <1>1, <2>2, RegisteredStays, Zenon DEF ExecutionNext
    <2> QED BY <2>1, <2>3, SettledKeeps
  <1> QED BY <1>2, <1>3, <1>4, Zenon DEF TaskNext, BoardNext

(* The empty board.                                                        *)
LEMMA BoardInvInit ==
  ASSUME TaskInit
  PROVE  BoardInv
  <1>1. \A t \in TaskIds : tasks[t].status = "absent" /\ progress[t] = NoProgress
    BY DEF TaskInit, NoTask
  <1>2. NoProgress.log = <<>> /\ Len(NoProgress.log) = 0 /\ NoProgress.bytes = 0
    BY DEF NoProgress
  <1> HIDE DEF NoProgress
  <1>3. Unfinished(tasks) = {} /\ OnBoard(tasks) = {}
    BY <1>1 DEF Unfinished, OnBoard
  <1>4. IsFiniteSet(Unfinished(tasks)) /\ Cardinality(Unfinished(tasks)) = 0
    BY <1>3, FS_EmptySet
  <1>5. BoardBounded
    BY <1>1, <1>2, <1>4, TaskAssumption DEF BoardBounded
  <1>6. NoCircle
    BY <1>3 DEF NoCircle
  <1>7. WorkersKnown
    BY <1>1, <1>2 DEF WorkersKnown
  <1> QED BY <1>4, <1>5, <1>6, <1>7 DEF BoardInv

(* Both inductive invariants together.                                     *)
LEMMA BoardInvHolds == TaskSpec => [](TaskInv /\ BoardInv)
  <1>1. TaskInit => BoardInv
    BY BoardInvInit
  <1>2. TaskInv /\ TaskInv' /\ BoardInv /\ [TaskNext]_boardVars => BoardInv'
    BY BoardInvSteps
  <1> QED BY <1>1, <1>2, TaskInvHolds, PTL DEF TaskSpec

(* The claims of the board belong to executions that were neither replaced *)
(* nor retired nor revoked, and no order of claims, releases, sweeps and   *)
(* removals makes the board or a progress log exceed its limit             *)
(* (releaseStaleTaskClaims, AddTask, AddTaskProgress).                     *)
THEOREM BoardIsSound == TaskSpec => []BoardSound
  <1>1. TaskInv /\ BoardInv => BoardSound
    BY DEF TaskInv, BoardInv, BoardSound
  <1> QED BY <1>1, BoardInvHolds, PTL

(* The row of a task as the archive has it.                                *)
LEMMA ArchivedRow ==
  ASSUME TaskInv, NEW t \in TaskIds
  PROVE  LET y == archivedTask(tasks[t]) IN
         /\ y.dependencies = tasks[t].dependencies
         /\ tasks[t].status = "claimed" => y.status = "open" /\ y.claim = Unclaimed
         /\ tasks[t].status # "claimed" => y = tasks[t]
  <1>1. tasks[t] \in Task
    BY BoardRows
  <1> HIDE DEF Unclaimed
  <1> QED BY <1>1 DEF archivedTask, Task

(* Tasks never wait for each other in a circle, nor for one that is gone,  *)
(* so the export accepts every board the operations can produce            *)
(* (archivedTask, validateArchive).                                        *)
THEOREM BoardIsExportable == TaskSpec => []BoardExportable
  <1>1. ASSUME TaskInv, BoardInv
        PROVE  BoardExportable
    <2> DEFINE tks == [t \in TaskIds |-> archivedTask(tasks[t])]
    <2>1. \A t \in TaskIds :
            /\ tks[t].dependencies = tasks[t].dependencies
            /\ tasks[t].status = "claimed" => tks[t].status = "open" /\ tks[t].claim = Unclaimed
            /\ tasks[t].status # "claimed" => tks[t] = tasks[t]
      BY <1>1, ArchivedRow
    <2> HIDE DEF tks
    <2>2. /\ OnBoard(tks) = OnBoard(tasks) /\ Unfinished(tks) = Unfinished(tasks)
          /\ OnBoard(tasks) \subseteq TaskIds
      BY <2>1 DEF OnBoard, Unfinished
    <2>3. ASSUME NEW t \in OnBoard(tks)
          PROVE  /\ tks[t].status \in {"open", "done"}
                 /\ tks[t].status = "done" => Registered(tks[t].claim.agent)
                 /\ tks[t].status = "open" => tks[t].claim = Unclaimed
      <3>1. t \in TaskIds /\ tasks[t].status \in {"open", "claimed", "done"}
        BY <2>2 DEF OnBoard
      <3>2. tasks[t].status = "open" => tasks[t].claim = Unclaimed
        BY <1>1, <3>1, BoardRows
      <3>3. tasks[t].status = "done" => Registered(tasks[t].claim.agent)
        BY <1>1, <3>1 DEF BoardInv, WorkersKnown
      <3> HIDE DEF Unclaimed
      <3> QED BY <2>1, <3>1, <3>2, <3>3
    <2>4. ASSUME NEW t \in OnBoard(tks)
          PROVE  tks[t].dependencies \subseteq OnBoard(tks) \ {t}
      <3>1. t \in OnBoard(tasks) /\ tks[t].dependencies = tasks[t].dependencies
        BY <2>1, <2>2
      <3>2. tasks[t].dependencies \cap {t} = {}
        BY <1>1, <3>1 DEF BoardInv, NoCircle
      <3> QED BY <1>1, <2>2, <3>1, <3>2, BoardRows
    <2>5. ASSUME NEW t \in OnBoard(tks)
          PROVE  /\ \A n \in 1..Len(progress[t].log) : Registered(progress[t].log[n].agent)
                 /\ Len(progress[t].log) <= MaxProgressEvents
                 /\ progress[t].bytes <= MaxProgressBytes
      BY <1>1, <2>2 DEF BoardInv, WorkersKnown, BoardBounded
    <2>6. Cardinality(Unfinished(tks)) <= ActiveTaskCap
      BY <1>1, <2>2 DEF BoardInv, BoardBounded
    <2>7. \A S \in SUBSET OnBoard(tks) : S # {} => \E t \in S : tks[t].dependencies \cap S = {}
      BY <1>1, <2>1, <2>2 DEF BoardInv, NoCircle
    <2>8. validArchivedTasks(tks)
      BY <2>3, <2>4, <2>5, <2>6, <2>7 DEF validArchivedTasks
    <2> QED BY <2>8 DEF BoardExportable, tks
  <1> QED BY <1>1, BoardInvHolds, PTL

-----------------------------------------------------------------------------
(* Managed sessions.                                                       *)

Pcs == {"new", "failed", "starting", "idle", "beat", "ending", "lock", "retiring", "done"}
Who == {"loop", "caller"}

AnswerRow == [kind : {"none", "ok", "refused", "lost"}, lease : Nat]

Session ==
  [pc : Pcs, caller : {"idle", "waiting", "beat"}, execution : Nat, lifecycle : Lifecycles,
   lease : Nat, deadline : Nat, closed : BOOLEAN, cancelled : BOOLEAN, err : BOOLEAN,
   want : Lifecycles, answers : [Who -> AnswerRow], states : Nat, acked : Lifecycles]

RequestRow == [session : Managed, who : Who, kind : {"heartbeat", "retire"},
               lifecycle : Lifecycles, waited : BOOLEAN]

(* The requests that somebody in the session waits for.                    *)
Waits(s, who) == {r \in wire : r.session = s /\ r.who = who /\ r.waited}

(* The execution of the session has no authority, by the row of its agent. *)
Past(x, row, t) == ~(row.execution_id = x.execution /\ row.lease_expires_at > t)

(* The loop waits for one request at a time, which is answered at most     *)
(* once; in "retiring" it is the retirement, and what says that it went    *)
(* through is true.  Its execution never has a longer lease than it asks   *)
(* for, whatever others ask for.                                           *)
LoopRow(x, W, row, t) ==
  /\ x.pc \notin {"starting", "beat", "retiring"} => W = {} /\ x.answers["loop"].kind = "none"
  /\ x.answers["loop"].kind # "none" => W = {}
  /\ \A q, r \in W : q = r
  /\ x.pc = "retiring" => /\ \A r \in W : r.kind = "retire"
                          /\ x.answers["loop"].kind = "ok" => Past(x, row, t)
  /\ x.pc = "done" /\ ~x.err => Past(x, row, t)
  /\ row.execution_id = x.execution => row.lease_expires_at <= t + SessionLease

(* No lease that the session was told is longer than the one the bus       *)
(* holds: the bus never shortens a lease without ending it.                *)
LeaseRow(x, row) ==
  /\ x.execution <= row.execution_id
  /\ x.pc = "new" => /\ x.caller = "idle" /\ x.execution = 0 /\ x.lease = 0 /\ ~x.closed
                     /\ \A who \in Who : x.answers[who].lease = 0
  /\ row.execution_id = x.execution /\ row.lease_expires_at # 0 =>
       /\ x.lease <= row.lease_expires_at
       /\ \A who \in Who : x.answers[who].lease <= row.lease_expires_at

RowOf(s) == agents[AgentOfSession[s]]

SessionOK(s) ==
  /\ LoopRow(managed[s], Waits(s, "loop"), RowOf(s), now)
  /\ LeaseRow(managed[s], RowOf(s))

SessionInv ==
  /\ now \in Nat /\ scopeToken \in Nat /\ agents \in [Agents -> Agent]
  /\ managed \in [Managed -> Session] /\ wire \subseteq RequestRow
  /\ \A r \in wire : managed[r.session].pc # "new"
  /\ \A s \in Managed : SessionOK(s)

(* What a step of the bus does to the row of an agent: a lease that is     *)
(* there is kept, ended, or renewed while it has not run out, for as long  *)
(* as a session asks.                                                      *)
RowMove(x, y, t) ==
  /\ x.execution_id <= y.execution_id
  /\ y.execution_id = x.execution_id =>
       \/ y.lease_expires_at = x.lease_expires_at
       \/ y.lease_expires_at = 0
       \/ /\ t < x.lease_expires_at /\ x.lease_expires_at <= y.lease_expires_at
          /\ y.lease_expires_at = t + SessionLease

(* No move gives an execution back its authority or takes from a lease.    *)
LEMMA MoveKeeps ==
  ASSUME NEW x \in Session, NEW W, NEW r1 \in Agent, NEW r2 \in Agent,
         NEW t \in Nat, NEW u \in Nat, t <= u,
         LoopRow(x, W, r1, t), LeaseRow(x, r1), RowMove(r1, r2, t)
  PROVE  LoopRow(x, W, r2, u) /\ LeaseRow(x, r2)
  <1>1. /\ x.execution \in Nat /\ x.lease \in Nat
        /\ \A who \in Who : x.answers[who].lease \in Nat
        /\ r1.execution_id \in Nat /\ r2.execution_id \in Nat
        /\ r1.lease_expires_at \in Nat /\ r2.lease_expires_at \in Nat
    BY DEF Session, AnswerRow, Agent
  <1>2. Past(x, r1, t) => Past(x, r2, u)
    BY <1>1 DEF Past, LeaseRow, RowMove
  <1>5. r2.execution_id = x.execution => r2.lease_expires_at <= u + SessionLease
    <2>1. SessionLease \in Nat
      BY RegistryAssumption, SessionAssumption
    <2> QED BY <1>1, <2>1 DEF LoopRow, LeaseRow, RowMove
  <1>3. LoopRow(x, W, r2, u)
    BY <1>2, <1>5 DEF LoopRow
  <1>4. LeaseRow(x, r2)
    BY <1>1 DEF LeaseRow, RowMove
  <1> QED BY <1>3, <1>4

RowsMove ==
  /\ now' \in Nat /\ now <= now' /\ scopeToken' \in Nat /\ agents' \in [Agents -> Agent]
  /\ \A a \in Agents : RowMove(agents[a], agents'[a], now)

Facts == now \in Nat /\ scopeToken \in Nat /\ agents \in [Agents -> Agent]

(* The bus, as sessions use it.                                            *)
LEMMA BusMoves ==
  ASSUME Facts,
         \/ Tick \/ RotateRows \/ UNCHANGED registryVars
         \/ \E a \in Agents, leaseMS \in LeaseTimes :
              RegisterRow(scopeToken, a, leaseMS, {}, FALSE)
         \/ \E p \in [agent : Agents, execution : Nat], lifecycle \in Lifecycles :
              /\ HeartbeatRow(p, lifecycle, SessionLease)
              /\ agents[p.agent].lease_expires_at <= now + SessionLease
         \/ \E p \in [agent : Agents, execution : Nat] : RetireRow(p)
  PROVE  RowsMove
  <1>1. SessionLease \in Nat \ {0} /\ LeaseTimes \subseteq Nat
    BY RegistryAssumption, SessionAssumption
  <1>2. \A a \in Agents : /\ agents[a] \in Agent
                          /\ agents[a].execution_id \in Nat /\ agents[a].lease_expires_at \in Nat
    BY DEF Facts, Agent
  <1>3. ASSUME agents' = agents, now' \in Nat, now <= now', scopeToken' = scopeToken PROVE RowsMove
    BY <1>1, <1>2, <1>3 DEF RowsMove, RowMove, Facts
  <1>4. CASE Tick
    <2>1. agents' = agents /\ now' \in Nat /\ now <= now' /\ scopeToken' = scopeToken
      BY <1>4 DEF Tick, Facts
    <2> QED BY <1>3, <2>1
  <1>5. CASE UNCHANGED registryVars
    <2>1. agents' = agents /\ now' \in Nat /\ now <= now' /\ scopeToken' = scopeToken
      BY <1>5 DEF registryVars, Facts
    <2> QED BY <1>3, <2>1
  <1>6. CASE RotateRows
    <2>1. agents' \in [Agents -> Agent]
      BY <1>2, <1>6 DEF RotateRows, Agent, Lifecycles
    <2>2. ASSUME NEW a \in Agents
          PROVE  /\ agents'[a].lease_expires_at = 0
                 /\ agents'[a].execution_id = agents[a].execution_id
      BY <1>2, <1>6 DEF RotateRows, Agent
    <2>3. now' = now /\ scopeToken' = scopeToken + 1
      BY <1>6, Zenon DEF RotateRows
    <2>4. now' \in Nat /\ now <= now' /\ scopeToken' \in Nat
      BY <2>3 DEF Facts
    <2> QED BY <1>1, <1>2, <2>1, <2>2, <2>4 DEF RowsMove, RowMove, Facts
  <1>7. ASSUME NEW a \in Agents, NEW leaseMS \in LeaseTimes,
               RegisterRow(scopeToken, a, leaseMS, {}, FALSE)
        PROVE  RowsMove
    <2>1. PICK row : row = [execution_id |-> agents[a].execution_id + 1, lifecycle |-> "starting",
                            lease_expires_at |-> now + leaseMS,
                            registered_with |-> scopeToken]
      OBVIOUS
    <2>2. row \in Agent /\ row.execution_id = agents[a].execution_id + 1
      BY <1>1, <1>2, <2>1 DEF Agent, Lifecycles, Facts
    <2>3. agents' = [agents EXCEPT ![a] = row] /\ now' = now /\ scopeToken' = scopeToken
      BY <1>7, <2>1 DEF RegisterRow
    <2> QED BY <1>1, <1>2, <2>2, <2>3 DEF RowsMove, RowMove, Facts
  <1>8. ASSUME NEW p \in [agent : Agents, execution : Nat], NEW lifecycle \in Lifecycles,
               HeartbeatRow(p, lifecycle, SessionLease),
               agents[p.agent].lease_expires_at <= now + SessionLease
        PROVE  RowsMove
    <2>1. PICK a \in Agents : a = p.agent
      OBVIOUS
    <2>2. PICK row : row = [agents[a] EXCEPT !.lifecycle = lifecycle,
                                             !.lease_expires_at = now + SessionLease]
      OBVIOUS
    <2>5. now + SessionLease \in Nat
      BY <1>1 DEF Facts
    <2>3. /\ row \in Agent /\ row.execution_id = agents[a].execution_id
          /\ row.lease_expires_at = now + SessionLease
      BY <1>2, <2>1, <2>2, <2>5 DEF Agent
    <2>4. /\ agents' = [agents EXCEPT ![a] = row] /\ now' = now /\ scopeToken' = scopeToken
          /\ now < agents[a].lease_expires_at
      BY <1>2, <1>8, <2>1, <2>2 DEF HeartbeatRow, requireCurrentExecution, Facts
    <2>6. RowMove(agents[a], row, now)
      BY <1>2, <1>8, <2>1, <2>3, <2>4 DEF RowMove
    <2> QED BY <1>1, <1>2, <2>3, <2>4, <2>6 DEF RowsMove, RowMove, Facts
  <1>9. ASSUME NEW p \in [agent : Agents, execution : Nat], RetireRow(p)
        PROVE  RowsMove
    <2>1. PICK a \in Agents : a = p.agent
      OBVIOUS
    <2>2. PICK row : row = [agents[a] EXCEPT !.lifecycle = "offline", !.lease_expires_at = 0]
      OBVIOUS
    <2>3. /\ row \in Agent /\ row.execution_id = agents[a].execution_id
          /\ row.lease_expires_at = 0
      BY <1>1, <1>2, <2>2 DEF Agent, Lifecycles, Facts
    <2>4. agents' = [agents EXCEPT ![a] = row] /\ now' = now /\ scopeToken' = scopeToken
      BY <1>2, <1>9, <2>1, <2>2 DEF RetireRow, Facts
    <2> QED BY <1>1, <1>2, <2>3, <2>4 DEF RowsMove, RowMove, Facts
  <1> QED BY <1>4, <1>5, <1>6, <1>7, <1>8, <1>9

-----------------------------------------------------------------------------
(* A step of one session that leaves the bus alone.                        *)
LEMMA OneSession ==
  ASSUME SessionInv, NEW s \in Managed, NEW y \in Session,
         managed' = [managed EXCEPT ![s] = y], UNCHANGED registryVars,
         wire' \subseteq RequestRow, y.pc # "new",
         \A r \in wire' : r.session = s \/ \E q \in wire : q.session = r.session,
         \A j \in Managed \ {s} : Waits(j, "loop")' = Waits(j, "loop"),
         LoopRow(y, Waits(s, "loop")', RowOf(s), now), LeaseRow(y, RowOf(s))
  PROVE  SessionInv'
  <1>1. /\ agents' = agents /\ now' = now /\ scopeToken' = scopeToken
        /\ managed' \in [Managed -> Session] /\ managed'[s] = y
        /\ \A j \in Managed \ {s} : managed'[j] = managed[j]
    BY DEF registryVars, SessionInv
  <1>2. \A r \in wire' : managed'[r.session].pc # "new"
    BY <1>1 DEF SessionInv, RequestRow
  <1>3. ASSUME NEW j \in Managed PROVE SessionOK(j)'
    <2>1. CASE j = s
      BY <1>1, <2>1 DEF SessionOK, RowOf
    <2>2. CASE j # s
      BY <1>1, <2>2 DEF SessionInv, SessionOK, RowOf
    <2> QED BY <2>1, <2>2
  <1> QED BY <1>1, <1>2, <1>3 DEF SessionInv

(* A request more on the wire.                                             *)
LEMMA SentWaits ==
  ASSUME NEW s \in Managed, NEW who \in Who, NEW kind, NEW lifecycle,
         wire' = wire \cup {Request(s, who, kind, lifecycle)}
  PROVE  /\ Waits(s, who)' = Waits(s, who) \cup {Request(s, who, kind, lifecycle)}
         /\ \A j \in Managed, w \in Who : <<j, w>> # <<s, who>> => Waits(j, w)' = Waits(j, w)
         /\ \A r \in wire' : r.session = s \/ \E q \in wire : q.session = r.session
         /\ Request(s, who, kind, lifecycle).kind = kind
  BY DEF Waits, Request

(* Nobody waits any more for what is given up.                             *)
LEMMA AbandonedWaits ==
  ASSUME NEW s \in Managed, NEW who \in Who, wire \subseteq RequestRow, wire' = Abandon(s, who)
  PROVE  /\ wire' \subseteq RequestRow /\ Waits(s, who)' = {}
         /\ \A j \in Managed, w \in Who : <<j, w>> # <<s, who>> => Waits(j, w)' = Waits(j, w)
         /\ \A r \in wire' : \E q \in wire : q.session = r.session
  <1> DEFINE g(r) == IF r.session = s /\ r.who = who THEN [r EXCEPT !.waited = FALSE] ELSE r
  <1>1. \A r \in wire : /\ g(r) \in RequestRow /\ g(r).session = r.session /\ g(r).who = r.who
                        /\ r.session = s /\ r.who = who => ~g(r).waited
                        /\ ~(r.session = s /\ r.who = who) => g(r) = r
    BY DEF RequestRow
  <1>2. wire' = {g(r) : r \in wire}
    BY DEF Abandon
  <1> HIDE DEF g
  <1>3. wire' \subseteq RequestRow /\ \A r \in wire' : \E q \in wire : q.session = r.session
    BY <1>1, <1>2
  <1>4. Waits(s, who)' = {}
    BY <1>1, <1>2 DEF Waits
  <1>5. ASSUME NEW j \in Managed, NEW w \in Who, <<j, w>> # <<s, who>>
        PROVE  Waits(j, w)' = Waits(j, w)
    BY <1>1, <1>2, <1>5 DEF Waits
  <1> QED BY <1>3, <1>4, <1>5

(* A session keeps its execution, and knows no lease it was not told.      *)
Kept(x, y) ==
  /\ y.execution = x.execution /\ x.pc # "new" /\ y.pc # "new"
  /\ y.lease = x.lease \/ \E who \in Who : y.lease = x.answers[who].lease
  /\ \A who \in Who : y.answers[who] \in {x.answers[who], NoAnswer}

(* What a step of a session does to the requests its loop waits for.       *)
LoopWire(s, W) ==
  \/ wire' = wire /\ W = Waits(s, "loop")
  \/ \E kind \in {"heartbeat", "retire"}, lifecycle \in Lifecycles :
       LET r == Request(s, "loop", kind, lifecycle)
       IN  wire' = wire \cup {r} /\ W = Waits(s, "loop") \cup {r}
  \/ \E lifecycle \in Lifecycles :
       wire' = wire \cup {Request(s, "caller", "heartbeat", lifecycle)} /\ W = Waits(s, "loop")
  \/ wire' = Abandon(s, "loop") /\ W = {}
  \/ wire' = Abandon(s, "caller") /\ W = Waits(s, "loop")

(* A step of one session keeps the invariant when what its loop relies on  *)
(* holds of the new record and of the requests that are left.              *)
LEMMA SessionMoves ==
  ASSUME SessionInv, NEW s \in Managed, NEW y \in Session, NEW W,
         managed' = [managed EXCEPT ![s] = y], UNCHANGED registryVars,
         Kept(managed[s], y), LoopWire(s, W), LoopRow(y, W, RowOf(s), now)
  PROVE  SessionInv'
  <1>1. /\ managed[s] \in Session /\ LeaseRow(managed[s], RowOf(s)) /\ wire \subseteq RequestRow
        /\ RowOf(s) \in Agent
    BY SessionAssumption DEF SessionInv, SessionOK, RowOf
  <1>2. LeaseRow(y, RowOf(s))
    <2>1. PICK x \in Session : x = managed[s]
      BY <1>1
    <2>2. PICK row \in Agent : row = RowOf(s)
      BY <1>1
    <2>3. row.lease_expires_at \in Nat /\ NoAnswer.lease = 0
      BY DEF Agent, NoAnswer
    <2>4. LeaseRow(x, row) /\ Kept(x, y)
      BY <1>1, <2>1, <2>2
    <2>5. LeaseRow(y, row)
      BY <2>3, <2>4 DEF LeaseRow, Kept
    <2> QED BY <2>2, <2>5
  <1>3. /\ wire' \subseteq RequestRow /\ Waits(s, "loop")' = W
        /\ \A j \in Managed \ {s} : Waits(j, "loop")' = Waits(j, "loop")
        /\ \A r \in wire' : r.session = s \/ \E q \in wire : q.session = r.session
    <2>1. CASE wire' = wire /\ W = Waits(s, "loop")
      BY <1>1, <2>1 DEF Waits
    <2>2. ASSUME NEW kind \in {"heartbeat", "retire"}, NEW who \in Who,
                 NEW lifecycle \in Lifecycles,
                 wire' = wire \cup {Request(s, who, kind, lifecycle)},
                 W = Waits(s, "loop") \cup
                       (IF who = "loop" THEN {Request(s, who, kind, lifecycle)} ELSE {})
          PROVE  /\ wire' \subseteq RequestRow /\ Waits(s, "loop")' = W
                 /\ \A j \in Managed \ {s} : Waits(j, "loop")' = Waits(j, "loop")
                 /\ \A r \in wire' : r.session = s \/ \E q \in wire : q.session = r.session
      <3>1. Request(s, who, kind, lifecycle) \in RequestRow
        BY DEF Request, RequestRow
      <3> QED BY <1>1, <2>2, <3>1, SentWaits DEF Who
    <2>3. ASSUME NEW who \in Who, wire' = Abandon(s, who),
                 W = IF who = "loop" THEN {} ELSE Waits(s, "loop")
          PROVE  /\ wire' \subseteq RequestRow /\ Waits(s, "loop")' = W
                 /\ \A j \in Managed \ {s} : Waits(j, "loop")' = Waits(j, "loop")
                 /\ \A r \in wire' : r.session = s \/ \E q \in wire : q.session = r.session
      BY <1>1, <2>3, AbandonedWaits DEF Who
    <2> QED BY <2>1, <2>2, <2>3 DEF LoopWire, Who
  <1>4. y.pc # "new"
    BY DEF Kept
  <1> QED BY <1>2, <1>3, <1>4, OneSession

(* The session's own steps.                                                *)
LEMMA LoopSteps ==
  ASSUME SessionInv, NEW s \in Managed,
         \/ Started(s) \/ sendHeartbeat(s) \/ HeartbeatAnswered(s) \/ LoopCancelled(s)
         \/ EndLoop(s) \/ Retire(s) \/ Retired(s) \/ RetireTimesOut(s)
  PROVE  SessionInv'
  <1> DEFINE Goal == SessionInv'
  <1>1. PICK x \in Session : x = managed[s]
    BY DEF SessionInv
  <1>2. PICK row : row = RowOf(s)
    OBVIOUS
  <1>3. /\ LoopRow(x, Waits(s, "loop"), row, now) /\ LeaseRow(x, row) /\ wire \subseteq RequestRow
        /\ managed \in [Managed -> Session] /\ now \in Nat
    BY <1>1, <1>2 DEF SessionInv, SessionOK
  <1>4. SessionLease \in Nat \ {0}
    BY RegistryAssumption, SessionAssumption
  <1>5. /\ x.answers["loop"] \in AnswerRow /\ NoAnswer \in AnswerRow
        /\ NoAnswer.kind = "none" /\ NoAnswer.lease = 0
    BY DEF Session, Who, NoAnswer, AnswerRow
  <1>10. ASSUME Started(s) PROVE Goal
    <2>1. PICK answer \in AnswerRow : answer = x.answers["loop"]
      BY <1>5
    <2>2. PICK c \in BOOLEAN : c = (answer.kind # "ok")
      OBVIOUS
    <2>3. PICK pc \in {"idle", "retiring"} : pc = IF answer.kind = "ok" THEN "idle" ELSE "retiring"
      OBVIOUS
    <2> DEFINE y == [x EXCEPT !.answers["loop"] = NoAnswer, !.pc = pc, !.lease = answer.lease,
                              !.deadline = now + SessionLease, !.closed = c, !.err = c]
    <2>4. managed' = [managed EXCEPT ![s] = y]
      BY <1>1, <1>3, <1>10, <2>1, <2>2, <2>3 DEF Started, heartbeatExpiry
    <2>5. now + SessionLease \in Nat /\ answer.lease \in Nat /\ pc \in Pcs
      BY <1>3, <1>4, <2>1 DEF AnswerRow, Pcs
    <2>6. y \in Session
      BY <1>5, <2>5 DEF Session
    <2>7. /\ y.pc = pc /\ y.caller = x.caller /\ y.execution = x.execution /\ y.lease = answer.lease
          /\ y.answers = [x.answers EXCEPT !["loop"] = NoAnswer]
      BY <1>5 DEF Session
    <2> HIDE DEF y
    <2>8. x.pc = "starting" /\ answer.kind # "none"
      BY <1>1, <1>10, <2>1 DEF Started
    <2>9. Kept(x, y)
      BY <1>5, <2>1, <2>3, <2>7, <2>8 DEF Kept, Who, Session
    <2>10. y.answers["loop"] = NoAnswer
      BY <2>7, <1>5 DEF Session, Who
    <2>11. CASE c
      <3>1. PICK r : r = Request(s, "loop", "retire", "offline")
        OBVIOUS
      <3>4. r.kind = "retire"
        BY <3>1 DEF Request
      <3>2. LoopRow(y, {r}, row, now)
        BY <3>4, <1>3, <1>5, <2>2, <2>3, <2>7, <2>10, <2>11, <3>1 DEF LoopRow
      <3>3. LoopWire(s, {r})
        BY <1>1, <1>3, <1>10, <2>1, <2>2, <2>8, <2>11, <3>1
           DEF Started, LoopWire, LoopRow, Lifecycles
      <3> QED BY <1>1, <1>2, <1>10, <2>4, <2>6, <2>9, <3>2, <3>3, SessionMoves DEF Started
    <2>12. CASE ~c
      <3>1. LoopRow(y, {}, row, now)
        BY <1>3, <1>5, <2>2, <2>3, <2>7, <2>10, <2>12 DEF LoopRow
      <3>2. LoopWire(s, {})
        BY <1>1, <1>3, <1>10, <2>1, <2>2, <2>8, <2>12 DEF Started, LoopWire, LoopRow
      <3> QED BY <1>1, <1>2, <1>10, <2>4, <2>6, <2>9, <3>1, <3>2, SessionMoves DEF Started
    <2> QED BY <2>11, <2>12
  <1>11. ASSUME sendHeartbeat(s), x.closed \/ x.cancelled PROVE Goal
    <2>1. PICK e \in BOOLEAN : e = (x.err \/ ~x.cancelled)
      OBVIOUS
    <2> DEFINE y == [x EXCEPT !.pc = "ending", !.err = e]
    <2>2. /\ managed' = [managed EXCEPT ![s] = y] /\ wire' = wire
          /\ x.pc = "idle" /\ UNCHANGED registryVars
      BY <1>1, <1>3, <1>11, <2>1 DEF sendHeartbeat
    <2>3. y \in Session /\ y.pc = "ending" /\ y.execution = x.execution /\ y.lease = x.lease
          /\ y.answers = x.answers
      BY DEF Session, Pcs
    <2> HIDE DEF y
    <2>4. Kept(x, y) /\ LoopRow(y, Waits(s, "loop"), row, now) /\ LoopWire(s, Waits(s, "loop"))
      BY <1>3, <2>2, <2>3 DEF Kept, LoopRow, LoopWire
    <2> QED BY <1>1, <1>2, <2>2, <2>3, <2>4, SessionMoves
  <1>12. ASSUME sendHeartbeat(s), ~(x.closed \/ x.cancelled) PROVE Goal
    <2> DEFINE y == [x EXCEPT !.pc = "beat"]
    <2>1. PICK r : r = Request(s, "loop", "heartbeat", x.lifecycle)
      OBVIOUS
    <2>2. managed' = [managed EXCEPT ![s] = y] /\ wire' = wire \cup {r} /\ x.pc = "idle"
          /\ UNCHANGED registryVars
      BY <1>1, <1>3, <1>12, <2>1 DEF sendHeartbeat
    <2>3. y \in Session /\ y.pc = "beat" /\ y.execution = x.execution /\ y.lease = x.lease
          /\ y.answers = x.answers
      BY DEF Session, Pcs
    <2>4. x.lifecycle \in Lifecycles
      BY DEF Session
    <2> HIDE DEF y
    <2>5. Kept(x, y) /\ LoopRow(y, {r}, row, now) /\ LoopWire(s, {r})
      BY <1>3, <2>1, <2>2, <2>3, <2>4 DEF Kept, LoopRow, LoopWire
    <2> QED BY <1>1, <1>2, <2>2, <2>3, <2>5, SessionMoves
  <1>13. ASSUME HeartbeatAnswered(s) PROVE Goal
    <2>1. PICK answer \in AnswerRow : answer = x.answers["loop"]
      BY <1>5
    <2>2. PICK ended \in BOOLEAN :
            ended = (answer.kind # "ok" /\ (x.cancelled \/ ~Survives(s, answer.kind)))
      OBVIOUS
    <2>3. PICK e \in BOOLEAN : e = (x.err \/ (ended /\ ~x.cancelled))
      OBVIOUS
    <2>4. PICK pc \in {"ending", "idle"} : pc = IF ended THEN "ending" ELSE "idle"
      OBVIOUS
    <2>5. PICK l \in {answer.lease, x.lease} :
            l = IF answer.kind = "ok" THEN answer.lease ELSE x.lease
      OBVIOUS
    <2>6. PICK d \in {now + SessionLease, x.deadline} :
            d = IF answer.kind = "ok" THEN now + SessionLease ELSE x.deadline
      OBVIOUS
    <2> DEFINE y == [x EXCEPT !.answers["loop"] = NoAnswer, !.pc = pc, !.lease = l,
                              !.deadline = d, !.err = e]
    <2>7. managed' = [managed EXCEPT ![s] = y]
      BY <1>1, <1>3, <1>13, <2>1, <2>2, <2>3, <2>4, <2>5, <2>6
         DEF HeartbeatAnswered, heartbeatExpiry
    <2>8. wire' = wire /\ x.pc = "beat" /\ answer.kind # "none" /\ UNCHANGED registryVars
      BY <1>1, <1>13, <2>1 DEF HeartbeatAnswered
    <2>9. l \in Nat /\ d \in Nat /\ pc \in Pcs
      BY <1>3, <1>4, <2>1 DEF AnswerRow, Pcs, Session
    <2>10. y \in Session
      BY <1>5, <2>9 DEF Session
    <2>11. /\ y.pc = pc /\ y.execution = x.execution /\ y.lease = l
           /\ y.answers = [x.answers EXCEPT !["loop"] = NoAnswer]
      BY DEF Session
    <2> HIDE DEF y
    <2>12. Kept(x, y)
      BY <1>5, <2>1, <2>4, <2>8, <2>11 DEF Kept, Who, Session
    <2>13. y.answers["loop"] = NoAnswer
      BY <2>11 DEF Session, Who
    <2>14. LoopRow(y, Waits(s, "loop"), row, now) /\ LoopWire(s, Waits(s, "loop"))
      BY <1>3, <1>5, <2>1, <2>4, <2>8, <2>11, <2>13 DEF LoopRow, LoopWire
    <2> QED BY <1>1, <1>2, <2>7, <2>8, <2>10, <2>12, <2>14, SessionMoves
  <1>14. ASSUME LoopCancelled(s) PROVE Goal
    <2> DEFINE y == [x EXCEPT !.pc = "ending", !.answers["loop"] = NoAnswer]
    <2>1. /\ managed' = [managed EXCEPT ![s] = y] /\ wire' = Abandon(s, "loop")
          /\ x.pc \in {"idle", "beat"} /\ UNCHANGED registryVars
      BY <1>1, <1>3, <1>14 DEF LoopCancelled, Running
    <2>2. /\ y \in Session /\ y.pc = "ending" /\ y.execution = x.execution /\ y.lease = x.lease
          /\ y.answers = [x.answers EXCEPT !["loop"] = NoAnswer]
      BY <1>5 DEF Session, Pcs
    <2> HIDE DEF y
    <2>3. y.answers["loop"] = NoAnswer /\ Kept(x, y)
      BY <1>5, <2>1, <2>2 DEF Kept, Who, Session
    <2>4. LoopRow(y, {}, row, now) /\ LoopWire(s, {})
      BY <1>3, <1>5, <2>1, <2>2, <2>3 DEF LoopRow, LoopWire
    <2> QED BY <1>1, <1>2, <2>1, <2>2, <2>3, <2>4, SessionMoves
  <1>15. ASSUME EndLoop(s) PROVE Goal
    <2> DEFINE y == [x EXCEPT !.pc = "lock", !.closed = TRUE, !.cancelled = TRUE]
    <2>1. /\ managed' = [managed EXCEPT ![s] = y] /\ wire' = wire
          /\ x.pc = "ending" /\ UNCHANGED registryVars
      BY <1>1, <1>3, <1>15 DEF EndLoop
    <2>2. /\ y \in Session /\ y.pc = "lock" /\ y.execution = x.execution /\ y.lease = x.lease
          /\ y.answers = x.answers
      BY DEF Session, Pcs
    <2> HIDE DEF y
    <2>3. Kept(x, y) /\ LoopRow(y, Waits(s, "loop"), row, now) /\ LoopWire(s, Waits(s, "loop"))
      BY <1>3, <2>1, <2>2 DEF Kept, LoopRow, LoopWire
    <2> QED BY <1>1, <1>2, <2>1, <2>2, <2>3, SessionMoves
  <1>16. ASSUME Retire(s) PROVE Goal
    <2> DEFINE y == [x EXCEPT !.pc = "retiring"]
    <2>1. PICK r : r = Request(s, "loop", "retire", "offline")
      OBVIOUS
    <2>2. /\ managed' = [managed EXCEPT ![s] = y] /\ wire' = wire \cup {r}
          /\ x.pc = "lock" /\ UNCHANGED registryVars
      BY <1>1, <1>3, <1>16, <2>1 DEF Retire
    <2>3. /\ y \in Session /\ y.pc = "retiring" /\ y.execution = x.execution /\ y.lease = x.lease
          /\ y.answers = x.answers
      BY DEF Session, Pcs
    <2>4. r.kind = "retire"
      BY <2>1 DEF Request
    <2> HIDE DEF y
    <2>5. Kept(x, y) /\ LoopRow(y, {r}, row, now) /\ LoopWire(s, {r})
      BY <1>3, <2>1, <2>2, <2>3, <2>4 DEF Kept, LoopRow, LoopWire, Lifecycles
    <2> QED BY <1>1, <1>2, <2>2, <2>3, <2>5, SessionMoves
  <1>17. ASSUME Retired(s) PROVE Goal
    <2>1. PICK e \in BOOLEAN : e = (x.err \/ x.answers["loop"].kind # "ok")
      OBVIOUS
    <2> DEFINE y == [x EXCEPT !.pc = "done", !.answers["loop"] = NoAnswer, !.err = e]
    <2>2. /\ managed' = [managed EXCEPT ![s] = y] /\ wire' = wire
          /\ x.pc = "retiring" /\ x.answers["loop"].kind # "none" /\ UNCHANGED registryVars
      BY <1>1, <1>3, <1>17, <2>1 DEF Retired
    <2>3. /\ y \in Session /\ y.pc = "done" /\ y.execution = x.execution /\ y.lease = x.lease
          /\ y.answers = [x.answers EXCEPT !["loop"] = NoAnswer] /\ y.err = e
      BY <1>5 DEF Session, Pcs
    <2> HIDE DEF y
    <2>4. y.answers["loop"] = NoAnswer /\ Kept(x, y)
      BY <1>5, <2>2, <2>3 DEF Kept, Who, Session
    <2>5. ~y.err => x.answers["loop"].kind = "ok"
      BY <2>1, <2>3, Zenon
    <2>6. ~y.err => Past(y, row, now)
      BY <1>3, <2>2, <2>3, <2>5 DEF LoopRow, Past
    <2>7. LoopRow(y, Waits(s, "loop"), row, now) /\ LoopWire(s, Waits(s, "loop"))
      BY <1>3, <1>5, <2>2, <2>3, <2>4, <2>6 DEF LoopRow, LoopWire
    <2> QED BY <1>1, <1>2, <2>2, <2>3, <2>4, <2>7, SessionMoves
  <1>18. ASSUME RetireTimesOut(s) PROVE Goal
    <2> DEFINE y == [x EXCEPT !.pc = "done", !.err = TRUE, !.answers["loop"] = NoAnswer]
    <2>1. /\ managed' = [managed EXCEPT ![s] = y] /\ wire' = Abandon(s, "loop")
          /\ x.pc = "retiring" /\ UNCHANGED registryVars
      BY <1>1, <1>3, <1>18 DEF RetireTimesOut
    <2>2. /\ y \in Session /\ y.pc = "done" /\ y.execution = x.execution /\ y.lease = x.lease
          /\ y.answers = [x.answers EXCEPT !["loop"] = NoAnswer] /\ y.err = TRUE
      BY <1>5 DEF Session, Pcs
    <2> HIDE DEF y
    <2>3. y.answers["loop"] = NoAnswer /\ Kept(x, y)
      BY <1>5, <2>1, <2>2 DEF Kept, Who, Session
    <2>4. LoopRow(y, {}, row, now) /\ LoopWire(s, {})
      BY <1>3, <1>5, <2>1, <2>2, <2>3 DEF LoopRow, LoopWire
    <2> QED BY <1>1, <1>2, <2>1, <2>2, <2>3, <2>4, SessionMoves
  <1> HIDE DEF Goal
  <1>19. sendHeartbeat(s) => Goal
    BY <1>11, <1>12
  <1>20. Goal
    BY <1>10, <1>13, <1>14, <1>15, <1>16, <1>17, <1>18, <1>19
  <1> QED BY <1>20 DEF Goal

(* The callers of a session leave its loop alone.                          *)
LEMMA CallerSteps ==
  ASSUME SessionInv, NEW s \in Managed,
         \/ \E lifecycle \in ReportedLifecycles : SetState(s, lifecycle)
         \/ SendState(s) \/ StateAnswered(s) \/ StateCancelled(s) \/ ContextEnds(s)
         \/ Close(s) \/ CloseCancels(s)
  PROVE  SessionInv'
  <1> DEFINE Goal == SessionInv'
  <1>1. PICK x \in Session : x = managed[s]
    BY DEF SessionInv
  <1>2. PICK W : W = Waits(s, "loop")
    OBVIOUS
  <1>3. /\ LoopRow(x, W, RowOf(s), now) /\ LeaseRow(x, RowOf(s)) /\ wire \subseteq RequestRow
        /\ managed \in [Managed -> Session]
    BY <1>1, <1>2 DEF SessionInv, SessionOK
  <1>4. /\ x.answers["caller"] \in AnswerRow /\ NoAnswer \in AnswerRow
    BY <1>3 DEF Session, Who, NoAnswer, AnswerRow, LeaseRow
  <1>5. ASSUME NEW y \in Session, managed' = [managed EXCEPT ![s] = y], UNCHANGED registryVars,
               x.pc # "new", y.pc = x.pc, y.execution = x.execution, y.err = x.err,
               y.answers["loop"] = x.answers["loop"], LoopWire(s, W),
               y.answers["caller"] \in {x.answers["caller"], NoAnswer},
               y.lease \in {x.lease, x.answers["caller"].lease}
        PROVE  Goal
    <2>1. Kept(x, y)
      BY <1>5 DEF Kept, Who
    <2>2. LoopRow(y, W, RowOf(s), now)
      BY <1>3, <1>5 DEF LoopRow, Past
    <2> QED BY <1>1, <1>5, <2>1, <2>2, SessionMoves
  <1>10. ASSUME NEW lifecycle \in ReportedLifecycles, SetState(s, lifecycle) PROVE Goal
    <2> DEFINE y == [x EXCEPT !.caller = "waiting", !.want = lifecycle, !.states = @ + 1]
    <2>1. /\ managed' = [managed EXCEPT ![s] = y] /\ wire' = wire /\ x.pc # "new"
          /\ UNCHANGED registryVars
      BY <1>1, <1>3, <1>10 DEF SetState
    <2>2. x.states + 1 \in Nat /\ lifecycle \in Lifecycles
      BY RegistryAssumption DEF Session
    <2>3. /\ y \in Session /\ y.pc = x.pc /\ y.execution = x.execution /\ y.err = x.err
          /\ y.answers = x.answers /\ y.lease = x.lease
      BY <2>2 DEF Session
    <2> HIDE DEF y
    <2> QED BY <1>2, <1>5, <2>1, <2>3 DEF LoopWire
  <1>11. ASSUME SendState(s), x.closed PROVE Goal
    <2> DEFINE y == [x EXCEPT !.caller = "idle"]
    <2>1. /\ managed' = [managed EXCEPT ![s] = y] /\ wire' = wire /\ x.pc # "new"
          /\ UNCHANGED registryVars
      BY <1>1, <1>3, <1>11 DEF SendState, LeaseRow
    <2>2. /\ y \in Session /\ y.pc = x.pc /\ y.execution = x.execution /\ y.err = x.err
          /\ y.answers = x.answers /\ y.lease = x.lease
      BY DEF Session
    <2> HIDE DEF y
    <2> QED BY <1>2, <1>5, <2>1, <2>2 DEF LoopWire
  <1>12. ASSUME SendState(s), ~x.closed PROVE Goal
    <2> DEFINE y == [x EXCEPT !.caller = "beat"]
    <2>1. /\ managed' = [managed EXCEPT ![s] = y] /\ x.pc # "new" /\ UNCHANGED registryVars
          /\ wire' = wire \cup {Request(s, "caller", "heartbeat", x.want)}
      BY <1>1, <1>3, <1>12 DEF SendState, LeaseRow
    <2>2. /\ y \in Session /\ y.pc = x.pc /\ y.execution = x.execution /\ y.err = x.err
          /\ y.answers = x.answers /\ y.lease = x.lease /\ x.want \in Lifecycles
      BY DEF Session
    <2> HIDE DEF y
    <2> QED BY <1>2, <1>5, <2>1, <2>2 DEF LoopWire
  <1>13. ASSUME StateAnswered(s) PROVE Goal
    <2>1. PICK answer \in AnswerRow : answer = x.answers["caller"]
      BY <1>4
    <2>2. PICK l \in {answer.lease, x.lease} :
            l = IF answer.kind = "ok" THEN answer.lease ELSE x.lease
      OBVIOUS
    <2>3. PICK lifecycle \in Lifecycles :
            lifecycle = IF answer.kind = "ok" THEN x.want ELSE x.lifecycle
      BY DEF Session
    <2>4. PICK acked \in Lifecycles : acked = IF answer.kind = "ok" THEN x.want ELSE x.acked
      BY DEF Session
    <2> DEFINE y == [x EXCEPT !.caller = "idle", !.answers["caller"] = NoAnswer, !.lease = l,
                              !.lifecycle = lifecycle, !.acked = acked]
    <2>5. managed' = [managed EXCEPT ![s] = y]
      BY <1>1, <1>3, <1>13, <2>1, <2>2, <2>3, <2>4 DEF StateAnswered, heartbeatExpiry
    <2>6. wire' = wire /\ x.pc # "new" /\ UNCHANGED registryVars
      BY <1>1, <1>3, <1>13 DEF StateAnswered, LeaseRow
    <2>7. l \in Nat
      BY <2>1 DEF AnswerRow, Session
    <2>8. /\ y \in Session /\ y.pc = x.pc /\ y.execution = x.execution /\ y.err = x.err
          /\ y.answers = [x.answers EXCEPT !["caller"] = NoAnswer] /\ y.lease = l
      BY <1>4, <2>7 DEF Session
    <2> HIDE DEF y
    <2>9. y.answers["loop"] = x.answers["loop"] /\ y.answers["caller"] = NoAnswer
      BY <2>8 DEF Session, Who
    <2> QED BY <1>2, <1>5, <2>1, <2>2, <2>5, <2>6, <2>8, <2>9 DEF LoopWire
  <1>14. ASSUME StateCancelled(s) PROVE Goal
    <2> DEFINE y == [x EXCEPT !.caller = "idle", !.answers["caller"] = NoAnswer]
    <2>1. /\ managed' = [managed EXCEPT ![s] = y] /\ wire' = Abandon(s, "caller") /\ x.pc # "new"
          /\ UNCHANGED registryVars
      BY <1>1, <1>3, <1>14 DEF StateCancelled, LeaseRow
    <2>2. /\ y \in Session /\ y.pc = x.pc /\ y.execution = x.execution /\ y.err = x.err
          /\ y.answers = [x.answers EXCEPT !["caller"] = NoAnswer] /\ y.lease = x.lease
      BY <1>4 DEF Session
    <2> HIDE DEF y
    <2>3. y.answers["loop"] = x.answers["loop"] /\ y.answers["caller"] = NoAnswer
      BY <2>2 DEF Session, Who
    <2> QED BY <1>2, <1>5, <2>1, <2>2, <2>3 DEF LoopWire
  <1>15. ASSUME Close(s) PROVE Goal
    <2> DEFINE y == [x EXCEPT !.closed = TRUE]
    <2>1. /\ managed' = [managed EXCEPT ![s] = y] /\ wire' = wire /\ x.pc # "new"
          /\ UNCHANGED registryVars
      BY <1>1, <1>3, <1>15 DEF Close
    <2>2. /\ y \in Session /\ y.pc = x.pc /\ y.execution = x.execution /\ y.err = x.err
          /\ y.answers = x.answers /\ y.lease = x.lease
      BY DEF Session
    <2> HIDE DEF y
    <2> QED BY <1>2, <1>5, <2>1, <2>2 DEF LoopWire
  <1>16. ASSUME CloseCancels(s) \/ ContextEnds(s) PROVE Goal
    <2> DEFINE y == [x EXCEPT !.cancelled = TRUE]
    <2>1. /\ managed' = [managed EXCEPT ![s] = y] /\ wire' = wire /\ x.pc # "new"
          /\ UNCHANGED registryVars
      BY <1>1, <1>3, <1>16 DEF CloseCancels, ContextEnds, Running, LeaseRow
    <2>2. /\ y \in Session /\ y.pc = x.pc /\ y.execution = x.execution /\ y.err = x.err
          /\ y.answers = x.answers /\ y.lease = x.lease
      BY DEF Session
    <2> HIDE DEF y
    <2> QED BY <1>2, <1>5, <2>1, <2>2 DEF LoopWire
  <1> HIDE DEF Goal
  <1>17. SendState(s) => Goal
    BY <1>11, <1>12
  <1>18. Goal
    BY <1>10, <1>13, <1>14, <1>15, <1>16, <1>17
  <1> QED BY <1>18 DEF Goal

(* What the sessions know stays true when the rows of the bus move.        *)
LEMMA MovedRows ==
  ASSUME SessionInv, RowsMove, NEW j \in Managed
  PROVE  /\ LoopRow(managed[j], Waits(j, "loop"), RowOf(j)', now')
         /\ LeaseRow(managed[j], RowOf(j)')
  <1>1. /\ managed[j] \in Session /\ LoopRow(managed[j], Waits(j, "loop"), RowOf(j), now)
        /\ LeaseRow(managed[j], RowOf(j)) /\ now \in Nat /\ now' \in Nat /\ now <= now'
        /\ RowOf(j) \in Agent /\ RowOf(j)' \in Agent /\ RowMove(RowOf(j), RowOf(j)', now)
    BY SessionAssumption DEF SessionInv, SessionOK, RowsMove, RowOf
  <1> QED BY <1>1, MoveKeeps

(* A request leaves the wire; if somebody waits for it, there is an answer *)
(* that is true of the bus.                                                *)
LEMMA AnswerSteps ==
  ASSUME SessionInv, RowsMove, NEW r \in wire, wire' = wire \ {r},
         NEW a \in AnswerRow, a.kind # "none",
         \/ ~r.waited /\ managed' = managed
         \/ r.waited /\ managed' = [managed EXCEPT ![r.session].answers[r.who] = a],
         r.kind = "retire" /\ a.kind = "ok" =>
           Past(managed[r.session], RowOf(r.session)', now'),
         LET row == RowOf(r.session)'
         IN  row.execution_id = managed[r.session].execution /\ row.lease_expires_at # 0 =>
               a.lease <= row.lease_expires_at
  PROVE  SessionInv'
  <1>1. PICK s \in Managed : s = r.session
    BY DEF SessionInv, RequestRow
  <1>2. PICK who \in Who : who = r.who
    BY DEF SessionInv, RequestRow
  <1>3. PICK x \in Session : x = managed[s]
    BY <1>1 DEF SessionInv
  <1>4. x.pc # "new" /\ managed \in [Managed -> Session] /\ wire \subseteq RequestRow
    BY <1>1, <1>3 DEF SessionInv
  <1> DEFINE y == [x EXCEPT !.answers[who] = a]
  <1>5. /\ y \in Session /\ y.pc = x.pc /\ y.execution = x.execution /\ y.lease = x.lease
        /\ y.err = x.err /\ y.answers = [x.answers EXCEPT ![who] = a]
    BY DEF Session
  <1>6. r.waited => managed' = [managed EXCEPT ![s] = y]
    BY <1>1, <1>2, <1>3, <1>4
  <1> HIDE DEF y
  <1>7. \A j \in Managed : /\ LoopRow(managed[j], Waits(j, "loop"), RowOf(j)', now')
                           /\ LeaseRow(managed[j], RowOf(j)')
    BY MovedRows
  <1>8. \A j \in Managed : Waits(j, "loop")' = Waits(j, "loop") \ {r}
    BY DEF Waits
  <1>9. ASSUME r.waited PROVE LoopRow(y, Waits(s, "loop")', RowOf(s)', now')
    <2>1. y.answers \in [Who -> AnswerRow] /\ x.answers \in [Who -> AnswerRow]
      BY <1>5 DEF Session
    <2>2. CASE who = "loop"
      <3>4. y.answers["loop"] = a
        BY <1>5, <2>1, <2>2
      <3>5. r \in Waits(s, "loop")
        BY <1>1, <1>2, <1>9, <2>2, Zenon DEF Waits
      <3>1. r \in Waits(s, "loop") /\ y.answers["loop"] = a
        BY <3>4, <3>5
      <3>2. x.pc \in {"starting", "beat", "retiring"} /\ Waits(s, "loop")' = {}
            /\ (x.pc = "retiring" => r.kind = "retire")
        BY <1>3, <1>7, <1>8, <3>1 DEF LoopRow
      <3>3. x.pc = "retiring" /\ a.kind = "ok" => Past(y, RowOf(s)', now')
        BY <1>1, <1>3, <1>5, <3>2 DEF Past
      <3> QED BY <1>3, <1>5, <1>7, <3>1, <3>2, <3>3 DEF LoopRow
    <2>3. CASE who # "loop"
      <3>1. r \notin Waits(s, "loop") /\ y.answers["loop"] = x.answers["loop"]
        BY <1>2, <1>5, <2>1, <2>3 DEF Waits, Who
      <3> QED BY <1>3, <1>5, <1>7, <1>8, <3>1 DEF LoopRow, Past
    <2> QED BY <2>2, <2>3
  <1>10. LeaseRow(y, RowOf(s)')
    <2>1. PICK row : row = RowOf(s)'
      OBVIOUS
    <2>2. LeaseRow(x, row)
      BY <1>3, <1>7, <2>1
    <2>3. \A w \in Who : y.answers[w] \in {x.answers[w], a}
      BY <1>5 DEF Session
    <2>4. row.execution_id = x.execution /\ row.lease_expires_at # 0 =>
            a.lease <= row.lease_expires_at
      BY <1>1, <1>3, <2>1
    <2>5. LeaseRow(y, row)
      BY <1>4, <1>5, <2>2, <2>3, <2>4 DEF LeaseRow
    <2> QED BY <2>1, <2>5
  <1>11. ASSUME NEW j \in Managed PROVE SessionOK(j)'
    <2>1. CASE ~r.waited
      <3>1. managed' = managed /\ r \notin Waits(j, "loop")
        BY <2>1, Zenon DEF Waits
      <3>2. Waits(j, "loop")' = Waits(j, "loop")
        BY <1>8, <3>1
      <3>3. managed[j]' = managed[j]
        BY <3>1
      <3> QED BY <1>7, <3>2, <3>3, Zenon DEF SessionOK
    <2>2. CASE r.waited /\ j = s
      BY <1>4, <1>6, <1>9, <1>10, <2>2 DEF SessionOK
    <2>3. CASE r.waited /\ j # s
      <3>1. managed'[j] = managed[j] /\ r \notin Waits(j, "loop")
        BY <1>1, <1>4, <1>6, <2>3 DEF Waits
      <3>2. Waits(j, "loop")' = Waits(j, "loop")
        BY <1>8, <3>1
      <3>3. managed[j]' = managed[j]
        BY <3>1
      <3> QED BY <1>7, <3>2, <3>3, Zenon DEF SessionOK
    <2> QED BY <2>1, <2>2, <2>3
  <1>12. /\ managed' \in [Managed -> Session] /\ wire' \subseteq RequestRow
         /\ \A j \in Managed : managed[j].pc # "new" => managed'[j].pc # "new"
    BY <1>3, <1>4, <1>5, <1>6
  <1> QED BY <1>4, <1>11, <1>12 DEF SessionInv, RowsMove, RequestRow

(* An answer reaches the caller that waits, as it was given or lost on the *)
(* way; nobody else is told.                                               *)
LEMMA AnswerCases ==
  ASSUME NEW r \in wire, NEW kind, NEW lease, Answer(r, kind, lease)
  PROVE  \E a \in {[kind |-> kind, lease |-> lease], [kind |-> "lost", lease |-> 0]} :
           \/ ~r.waited /\ managed' = managed
           \/ r.waited /\ managed' = [managed EXCEPT ![r.session].answers[r.who] = a]
  BY DEF Answer

(* The bus answers a request of the session.                               *)
LEMMA HandleSteps ==
  ASSUME SessionInv, NEW r \in wire, Handle(r)
  PROVE  SessionInv'
  <1> DEFINE Goal == SessionInv'
  <1>1. PICK s \in Managed : s = r.session
    BY DEF SessionInv, RequestRow
  <1>2. PICK p : p = PrincipalOf(s)
    OBVIOUS
  <1>3. p \in [agent : Agents, execution : Nat] /\ p.agent = AgentOfSession[s]
        /\ p.execution = managed[s].execution
    BY <1>2, SessionAssumption DEF PrincipalOf, SessionInv, Session
  <1>4. SessionLease \in Nat \ {0}
    BY RegistryAssumption, SessionAssumption
  <1>5. /\ r.lifecycle \in Lifecycles /\ Facts /\ agents[p.agent] \in Agent
        /\ agents[p.agent].execution_id \in Nat /\ agents[p.agent].lease_expires_at \in Nat
        /\ now \in Nat
    BY <1>3 DEF SessionInv, RequestRow, Facts, Agent
  <1>6. wire' = wire \ {r}
    BY DEF Handle
  <1>7. ASSUME NEW kind \in {"ok", "refused"}, NEW lease \in Nat, Answer(r, kind, lease), RowsMove,
               r.kind = "retire" /\ kind = "ok" => Past(managed[s], RowOf(s)', now'),
               RowOf(s)'.execution_id = managed[s].execution /\ RowOf(s)'.lease_expires_at # 0 =>
                 lease <= RowOf(s)'.lease_expires_at
        PROVE  Goal
    <2>1. PICK a \in {[kind |-> kind, lease |-> lease], [kind |-> "lost", lease |-> 0]} :
             \/ ~r.waited /\ managed' = managed
             \/ r.waited /\ managed' = [managed EXCEPT ![r.session].answers[r.who] = a]
      BY <1>7, AnswerCases
    <2>2. /\ a \in AnswerRow /\ a.kind # "none" /\ a.lease \in {0, lease}
          /\ a.kind = "ok" => kind = "ok"
      BY DEF AnswerRow
    <2>3. RowOf(s)'.lease_expires_at \in Nat
      BY <1>7, SessionAssumption DEF RowsMove, RowOf, Agent
    <2> QED BY <1>1, <1>6, <1>7, <2>1, <2>2, <2>3, AnswerSteps
  <1> HIDE DEF Goal
  <1>8. PICK row \in Agent : row = agents[p.agent] /\ row = RowOf(s)
    BY <1>3, <1>5 DEF RowOf
  <1>9. row.execution_id \in Nat /\ row.lease_expires_at \in Nat /\ agents \in [Agents -> Agent]
    BY <1>5 DEF Agent, Facts
  <1>10. UNCHANGED registryVars => RowOf(s)' = row /\ now' = now /\ RowsMove
    BY <1>5, <1>8, BusMoves DEF registryVars, RowOf
  <1>11. ASSUME r.kind = "heartbeat", HeartbeatRow(p, r.lifecycle, SessionLease),
                Answer(r, "ok", now + SessionLease)
         PROVE  Goal
    <2>6. row.execution_id = managed[s].execution
      BY <1>3, <1>8, <1>11 DEF HeartbeatRow, requireCurrentExecution
    <2>7. agents[p.agent].lease_expires_at <= now + SessionLease
      BY <1>8, <2>6 DEF SessionInv, SessionOK, LoopRow
    <2>1. RowsMove
      BY <1>3, <1>5, <1>11, <2>7, BusMoves
    <2>2. agents' = [agents EXCEPT ![p.agent].lifecycle = r.lifecycle,
                                   ![p.agent].lease_expires_at = now + SessionLease]
      BY <1>11 DEF HeartbeatRow
    <2>3. RowOf(s)'.lease_expires_at = now + SessionLease
      BY <1>3, <1>8, <1>9, <2>2 DEF RowOf, Agent
    <2>4. now + SessionLease \in Nat
      BY <1>4, <1>5
    <2>5. now + SessionLease <= now + SessionLease
      BY <2>4
    <2> QED BY <1>7, <1>11, <2>1, <2>3, <2>4, <2>5
  <1>12. ASSUME UNCHANGED registryVars, Answer(r, "refused", 0) PROVE Goal
    <2>1. 0 <= row.lease_expires_at
      BY <1>9
    <2> QED BY <1>7, <1>10, <1>12, <2>1
  <1>13. ASSUME RetireRow(p), Answer(r, "ok", 0) PROVE Goal
    <2>1. RowsMove
      BY <1>3, <1>13, <1>5, BusMoves
    <2>2. /\ now' = now
          /\ agents' = [agents EXCEPT ![p.agent].lifecycle = "offline",
                                      ![p.agent].lease_expires_at = 0]
      BY <1>13 DEF RetireRow
    <2>3. RowOf(s)'.lease_expires_at = 0
      BY <1>3, <1>8, <1>9, <2>2 DEF RowOf, Agent
    <2>4. Past(managed[s], RowOf(s)', now')
      BY <1>5, <2>2, <2>3 DEF Past
    <2> QED BY <1>7, <1>13, <2>1, <2>3, <2>4
  <1>14. ASSUME row.lease_expires_at = 0, UNCHANGED registryVars, Answer(r, "ok", 0) PROVE Goal
    <2>1. Past(managed[s], RowOf(s)', now')
      BY <1>5, <1>10, <1>14 DEF Past
    <2> QED BY <1>7, <1>10, <1>14, <2>1
  <1>15. Goal
    <2>1. PrincipalOf(r.session) = p
      BY <1>1, <1>2
    <2> QED BY <1>8, <1>11, <1>12, <1>13, <1>14, <2>1, Zenon DEF Handle
  <1> QED BY <1>15 DEF Goal

(* A request that nobody waits for is lost before the bus sees it.         *)
LEMMA LoseSteps ==
  ASSUME SessionInv, NEW r \in wire, LoseRequest(r)
  PROVE  SessionInv'
  <1>1. Facts /\ UNCHANGED registryVars
    BY DEF SessionInv, Facts, LoseRequest
  <1>2. RowsMove
    BY <1>1, BusMoves
  <1>3. PICK a \in AnswerRow : a = [kind |-> "lost", lease |-> 0]
    BY DEF AnswerRow
  <1>4. RowOf(r.session)'.lease_expires_at \in Nat
    <2>1. r.session \in Managed
      BY DEF SessionInv, RequestRow
    <2> QED BY <1>2, <2>1, SessionAssumption DEF RowsMove, RowOf, Agent
  <1>5. /\ wire' = wire \ {r}
        /\ \/ ~r.waited /\ managed' = managed
           \/ r.waited /\ managed' = [managed EXCEPT ![r.session].answers[r.who] = a]
    BY DEF LoseRequest
  <1>6. a.kind = "lost" /\ a.lease = 0 /\ 0 <= RowOf(r.session)'.lease_expires_at
    BY <1>3, <1>4
  <1> QED BY <1>2, <1>5, <1>6, AnswerSteps

(* Who waited is told that the request was lost, and the request goes on.  *)
LEMMA TimeOutSteps ==
  ASSUME SessionInv, NEW r \in wire, RequestTimesOut(r)
  PROVE  SessionInv'
  <1>1. PICK s \in Managed, who \in Who : s = r.session /\ who = r.who
    BY DEF SessionInv, RequestRow
  <1>2. PICK x \in Session : x = managed[s]
    BY DEF SessionInv
  <1>3. PICK a \in AnswerRow : a = [kind |-> "lost", lease |-> 0]
    BY DEF AnswerRow
  <1>4. /\ managed \in [Managed -> Session] /\ wire \subseteq RequestRow /\ x.pc # "new"
        /\ LoopRow(x, Waits(s, "loop"), RowOf(s), now) /\ LeaseRow(x, RowOf(s))
        /\ RowOf(s) \in Agent
    BY <1>1, <1>2, SessionAssumption DEF SessionInv, SessionOK, RowOf
  <1> DEFINE y == [x EXCEPT !.answers[who] = a]
  <1>5. /\ managed' = [managed EXCEPT ![s] = y] /\ wire' = Abandon(s, who)
        /\ UNCHANGED registryVars /\ r.waited
    BY <1>1, <1>2, <1>3, <1>4 DEF RequestTimesOut
  <1>6. /\ y \in Session /\ y.pc = x.pc /\ y.execution = x.execution /\ y.lease = x.lease
        /\ y.err = x.err /\ y.caller = x.caller /\ y.closed = x.closed
        /\ y.answers = [x.answers EXCEPT ![who] = a]
    BY DEF Session
  <1> HIDE DEF y
  <1>7. /\ wire' \subseteq RequestRow /\ Waits(s, who)' = {}
        /\ \A j \in Managed, w \in Who : <<j, w>> # <<s, who>> => Waits(j, w)' = Waits(j, w)
        /\ \A q \in wire' : \E o \in wire : o.session = q.session
    BY <1>4, <1>5, AbandonedWaits
  <1>8. /\ x.answers \in [Who -> AnswerRow]
        /\ \A w \in Who : y.answers[w] = IF w = who THEN a ELSE x.answers[w]
    BY <1>6 DEF Session
  <1>9. LoopRow(y, Waits(s, "loop")', RowOf(s), now)
    <2>1. CASE who = "loop"
      <3>1. r \in Waits(s, "loop") /\ Waits(s, "loop")' = {}
        BY <1>1, <1>5, <1>7, <2>1, Zenon DEF Waits
      <3>2. x.pc \in {"starting", "beat", "retiring"}
        BY <1>4, <3>1 DEF LoopRow
      <3>3. y.answers["loop"] = a /\ a.kind = "lost"
        BY <1>3, <1>8, <2>1
      <3> QED BY <1>4, <1>6, <3>1, <3>2, <3>3 DEF LoopRow
    <2>2. CASE who # "loop"
      <3>1. "loop" \in Who /\ <<s, "loop">> # <<s, who>>
        BY <2>2 DEF Who
      <3>2. Waits(s, "loop")' = Waits(s, "loop") /\ y.answers["loop"] = x.answers["loop"]
        BY <1>7, <1>8, <2>2, <3>1
      <3> QED BY <1>4, <1>6, <3>2 DEF LoopRow, Past
    <2> QED BY <2>1, <2>2
  <1>10. LeaseRow(y, RowOf(s))
    <2>1. PICK row \in Agent : row = RowOf(s)
      BY <1>4
    <2>2. row.lease_expires_at \in Nat /\ a.lease = 0
      BY <1>3 DEF Agent
    <2>3. LeaseRow(x, row)
      BY <1>4, <2>1
    <2>4. LeaseRow(y, row)
      BY <1>4, <1>6, <1>8, <2>2, <2>3 DEF LeaseRow
    <2> QED BY <2>1, <2>4
  <1>11. \A j \in Managed \ {s} : Waits(j, "loop")' = Waits(j, "loop")
    BY <1>7 DEF Who
  <1> QED BY <1>4, <1>5, <1>6, <1>7, <1>9, <1>10, <1>11, OneSession

(* The sessions and what is on the wire stay as they are.                  *)
LEMMA BusSteps ==
  ASSUME SessionInv, UNCHANGED sessionVars,
         \/ Tick \/ RotateRows \/ UNCHANGED registryVars
         \/ \E a \in Agents, leaseMS \in LeaseTimes :
              RegisterRow(scopeToken, a, leaseMS, {}, FALSE)
  PROVE  SessionInv'
  <1>1. RowsMove
    <2>1. Facts
      BY DEF SessionInv, Facts
    <2> QED BY <2>1, BusMoves
  <1>2. managed' = managed /\ wire' = wire
    BY DEF sessionVars
  <1>3. \A j \in Managed : Waits(j, "loop")' = Waits(j, "loop")
    BY <1>2 DEF Waits
  <1>4. ASSUME NEW j \in Managed PROVE SessionOK(j)'
    <2>1. /\ LoopRow(managed[j], Waits(j, "loop"), RowOf(j)', now')
          /\ LeaseRow(managed[j], RowOf(j)')
      BY <1>1, MovedRows
    <2>2. managed[j]' = managed[j]
      BY <1>2
    <2> QED BY <1>3, <2>1, <2>2, Zenon DEF SessionOK
  <1> QED BY <1>1, <1>2, <1>4 DEF SessionInv, RowsMove

(* A session starts, or starts again.                                      *)
LEMMA StartSteps ==
  ASSUME SessionInv, NEW s \in Managed, StartAgentSession(s)
  PROVE  SessionInv'
  <1>1. PICK x \in Session : x = managed[s]
    BY DEF SessionInv
  <1>2. PICK a \in Agents : a = AgentOfSession[s]
    BY SessionAssumption
  <1>3. /\ RegisterRow(scopeToken, a, SessionLease, {}, FALSE) /\ x.pc = "new"
        /\ managed \in [Managed -> Session] /\ wire \subseteq RequestRow
        /\ agents[a] \in Agent /\ agents[a].execution_id \in Nat
    BY <1>1, <1>2 DEF StartAgentSession, SessionInv, Agent
  <1>4. RowsMove
    <2>1. Facts /\ SessionLease \in LeaseTimes
      BY SessionAssumption DEF SessionInv, Facts
    <2> QED BY <1>3, <2>1, BusMoves
  <1>5. /\ RowOf(s)'.execution_id = agents[a].execution_id + 1
        /\ RowOf(s)'.lease_expires_at <= now' + SessionLease
    <2>1. /\ RowOf(s)'.execution_id = agents[a].execution_id + 1
          /\ RowOf(s)'.lease_expires_at = now + SessionLease /\ now' = now
      BY <1>2, <1>3, SessionAssumption DEF RegisterRow, RowOf, SessionInv
    <2>2. now + SessionLease \in Nat
      BY RegistryAssumption, SessionAssumption DEF SessionInv
    <2> QED BY <2>1, <2>2
  <1>6. /\ LoopRow(x, Waits(s, "loop"), RowOf(s)', now') /\ LeaseRow(x, RowOf(s)')
    BY <1>1, <1>4, MovedRows
  <1>7. x.execution = 0
    BY <1>3, <1>6 DEF LeaseRow
  <1>8. ASSUME NEW y \in Session, managed' = [managed EXCEPT ![s] = y], wire' \subseteq RequestRow,
               y.pc # "new", y.lease = x.lease, y.answers = x.answers,
               y.execution <= agents[a].execution_id + 1,
               LoopRow(y, Waits(s, "loop")', RowOf(s)', now'),
               \A j \in Managed \ {s} : Waits(j, "loop")' = Waits(j, "loop"),
               \A r \in wire' : r.session = s \/ \E q \in wire : q.session = r.session
        PROVE  SessionInv'
    <2>1. PICK row \in Agent : row = RowOf(s)'
      BY <1>4, SessionAssumption DEF RowsMove, RowOf
    <2>2. row.lease_expires_at \in Nat /\ row.execution_id = agents[a].execution_id + 1
      BY <1>5, <2>1 DEF Agent
    <2>3. LeaseRow(y, row)
      BY <1>3, <1>6, <1>8, <2>2 DEF LeaseRow
    <2>4. ASSUME NEW j \in Managed PROVE SessionOK(j)'
      <3>1. CASE j = s
        <4>1. managed[j]' = y
          BY <1>3, <1>8, <3>1
        <4> QED BY <1>8, <2>1, <2>3, <3>1, <4>1, Zenon DEF SessionOK
      <3>2. CASE j # s
        <4>1. managed[j]' = managed[j] /\ Waits(j, "loop")' = Waits(j, "loop")
          BY <1>3, <1>8, <3>2
        <4>2. /\ LoopRow(managed[j], Waits(j, "loop"), RowOf(j)', now')
              /\ LeaseRow(managed[j], RowOf(j)')
          BY <1>4, MovedRows
        <4> QED BY <4>1, <4>2, Zenon DEF SessionOK
      <3> QED BY <3>1, <3>2
    <2>5. \A r \in wire' : managed'[r.session].pc # "new"
      BY <1>3, <1>8 DEF SessionInv, RequestRow
    <2> QED BY <1>3, <1>4, <1>8, <2>4, <2>5 DEF SessionInv, RowsMove
  <1>9. /\ agents[a].execution_id + 1 \in Nat
        /\ Waits(s, "loop") = {} /\ x.answers["loop"].kind = "none"
    BY <1>3, <1>6 DEF LoopRow
  <1>10. ASSUME managed' = [managed EXCEPT ![s].pc = "starting",
                              ![s].execution = agents[AgentOfSession[s]].execution_id + 1],
                wire' = wire \cup {Request(s, "loop", "heartbeat", "starting")}
         PROVE  SessionInv'
    <2>1. PICK e \in Nat : e = agents[a].execution_id + 1
      BY <1>3
    <2> DEFINE y == [x EXCEPT !.pc = "starting", !.execution = e]
    <2>2. managed' = [managed EXCEPT ![s] = y]
      BY <1>1, <1>2, <1>3, <1>10, <2>1
    <2>3. /\ y \in Session /\ y.pc = "starting" /\ y.execution = e /\ y.lease = x.lease
          /\ y.answers = x.answers
      BY DEF Session, Pcs
    <2> HIDE DEF y
    <2>4. PICK r : r = Request(s, "loop", "heartbeat", "starting")
      OBVIOUS
    <2>5. r \in RequestRow
      BY <2>4 DEF Request, RequestRow, Who, Lifecycles
    <2>6. /\ Waits(s, "loop")' = Waits(s, "loop") \cup {r}
          /\ \A j \in Managed \ {s} : Waits(j, "loop")' = Waits(j, "loop")
          /\ \A q \in wire' : q.session = s \/ \E o \in wire : o.session = q.session
      BY <1>10, <2>4, SentWaits DEF Who
    <2>7. LoopRow(y, Waits(s, "loop")', RowOf(s)', now')
      BY <1>3, <1>5, <1>9, <2>3, <2>6 DEF LoopRow
    <2>8. wire' \subseteq RequestRow /\ y.pc # "new"
      BY <1>3, <1>10, <2>3, <2>4, <2>5
    <2>9. y.execution <= agents[a].execution_id + 1
      BY <2>1, <2>3
    <2> QED BY <1>8, <2>2, <2>3, <2>6, <2>7, <2>8, <2>9
  <1>11. ASSUME managed' = [managed EXCEPT ![s].pc = "failed"], wire' = wire PROVE SessionInv'
    <2> DEFINE y == [x EXCEPT !.pc = "failed"]
    <2>1. managed' = [managed EXCEPT ![s] = y]
      BY <1>1, <1>3, <1>11
    <2>2. /\ y \in Session /\ y.pc = "failed" /\ y.execution = 0 /\ y.lease = x.lease
          /\ y.answers = x.answers
      BY <1>7 DEF Session, Pcs
    <2> HIDE DEF y
    <2>3. \A j \in Managed : Waits(j, "loop")' = Waits(j, "loop")
      BY <1>11 DEF Waits
    <2>4. LoopRow(y, Waits(s, "loop")', RowOf(s)', now')
      BY <1>3, <1>5, <1>9, <2>2, <2>3 DEF LoopRow
    <2>5. 0 <= agents[a].execution_id + 1
      BY <1>3
    <2> QED BY <1>3, <1>8, <1>11, <2>1, <2>2, <2>3, <2>4, <2>5
  <1> QED BY <1>10, <1>11 DEF StartAgentSession

(* The sessions before they start.                                         *)
LEMMA SessionStarts == RegistryInit /\ SessionInit => SessionInv
  <1> SUFFICES ASSUME RegistryInit, SessionInit PROVE SessionInv
    OBVIOUS
  <1>1. NewSession \in Session
    BY DEF NewSession, Session, Pcs, Who, AnswerRow, NoAnswer, Lifecycles
  <1>2. NoAgent \in Agent
    BY DEF NoAgent, Agent, Lifecycles
  <1>3. /\ managed = [s \in Managed |-> NewSession] /\ wire = {}
        /\ agents = [a \in Agents |-> NoAgent] /\ now = 1 /\ scopeToken = 1
    BY DEF RegistryInit, SessionInit
  <1>4. SessionLease \in Nat
    BY RegistryAssumption, SessionAssumption
  <1>5. ASSUME NEW s \in Managed PROVE SessionOK(s)
    <2>1. managed[s] = NewSession /\ Waits(s, "loop") = {} /\ RowOf(s) = NoAgent
      BY <1>3, SessionAssumption DEF Waits, RowOf
    <2>2. LoopRow(NewSession, {}, NoAgent, now)
      BY <1>3, <1>4 DEF LoopRow, NewSession, NoAnswer, NoAgent
    <2>3. LeaseRow(NewSession, NoAgent)
      BY DEF LeaseRow, NewSession, NoAnswer, NoAgent, Who
    <2> QED BY <2>1, <2>2, <2>3 DEF SessionOK
  <1> QED BY <1>1, <1>2, <1>3, <1>5 DEF SessionInv

(* The lemmas above, one for each kind of step.                            *)
LEMMA SessionSteps == SessionInv /\ [SessionNext]_<<registryVars, sessionVars>> => SessionInv'
  <1> SUFFICES ASSUME SessionInv, [SessionNext]_<<registryVars, sessionVars>> PROVE SessionInv'
    OBVIOUS
  <1> DEFINE Goal == SessionInv'
  <1>1. ASSUME NEW s \in Managed,
               \/ Started(s) \/ sendHeartbeat(s) \/ HeartbeatAnswered(s) \/ LoopCancelled(s)
               \/ EndLoop(s) \/ Retire(s) \/ Retired(s) \/ RetireTimesOut(s)
        PROVE  Goal
    BY <1>1, LoopSteps
  <1>2. ASSUME NEW s \in Managed,
               \/ \E lifecycle \in ReportedLifecycles : SetState(s, lifecycle)
               \/ SendState(s) \/ StateAnswered(s) \/ StateCancelled(s) \/ ContextEnds(s)
               \/ Close(s) \/ CloseCancels(s)
        PROVE  Goal
    BY <1>2, CallerSteps
  <1>3. ASSUME NEW s \in Managed, StartAgentSession(s) PROVE Goal
    BY <1>3, StartSteps
  <1>4. ASSUME NEW r \in wire, Handle(r) \/ RequestTimesOut(r) \/ LoseRequest(r) PROVE Goal
    BY <1>4, HandleSteps, TimeOutSteps, LoseSteps
  <1>5. ASSUME Tick \/ RotateRows \/ UNCHANGED registryVars, UNCHANGED sessionVars PROVE Goal
    BY <1>5, BusSteps
  <1>9. ASSUME NEW a \in Agents, NEW leaseMS \in LeaseTimes, RegisterElsewhere(a, leaseMS)
        PROVE  Goal
    BY <1>9, BusSteps DEF RegisterElsewhere
  <1> HIDE DEF Goal
  <1>6. ASSUME SessionNext PROVE Goal
    BY <1>1, <1>2, <1>3, <1>4, <1>5, <1>6, <1>9, Zenon DEF SessionNext, SessionStep
  <1>7. ASSUME UNCHANGED <<registryVars, sessionVars>> PROVE Goal
    BY <1>5, <1>7
  <1>8. Goal
    BY <1>6, <1>7
  <1> QED BY <1>8 DEF Goal

(* What the invariant says of a session that is done.                      *)
LEMMA SessionInvHonest == SessionInv => SessionHonest
  <1> SUFFICES ASSUME SessionInv PROVE SessionHonest
    OBVIOUS
  <1>1. ASSUME NEW s \in Managed
        PROVE  /\ managed[s].pc = "done" /\ ~managed[s].err => Past(managed[s], RowOf(s), now)
               /\ LeaseRow(managed[s], RowOf(s))
    BY DEF SessionInv, SessionOK, LoopRow
  <1>2. CloseMeansRetired
    BY <1>1 DEF CloseMeansRetired, requireCurrentExecution, PrincipalOf, Past, RowOf
  <1>3. LeaseNotInvented
    BY <1>1 DEF LeaseNotInvented, LeaseRow, RowOf
  <1> QED BY <1>2, <1>3 DEF SessionHonest

(* What a managed session tells its user is true of the bus, whatever      *)
(* heartbeats and retirements are still on their way, late or lost: Close  *)
(* that succeeded leaves no authority behind, and LeaseExpiresAt is never  *)
(* past the lease that the bus holds (StartAgentSession, sendHeartbeat,    *)
(* SetState and Close).                                                    *)
THEOREM SessionsAreHonest == SessionSpec => []SessionHonest
  <1>1. RegistryInit /\ SessionInit => SessionInv
    BY SessionStarts
  <1>2. SessionInv /\ [SessionNext]_<<registryVars, sessionVars>> => SessionInv'
    BY SessionSteps
  <1>3. SessionInv => SessionHonest
    BY SessionInvHonest
  <1> QED BY <1>1, <1>2, <1>3, PTL DEF SessionSpec
=============================================================================
