----------------------------- MODULE TaskBoard -----------------------------
(***************************************************************************)
(* The shared task board of one scope: the tasks and task_progress tables  *)
(* (bus/store.go, bus/task_progress.go, bus/task_page.go, bus/storage.go). *)
(*                                                                         *)
(* A task is claimed by an execution, not by an agent.  No timer takes a   *)
(* claim away when its execution ends: transactions that need to know      *)
(* (registration, retirement, rotation, claiming, listing, the storage     *)
(* summary, retention) sweep the stale claims of the whole scope first.    *)
(*                                                                         *)
(* Titles, descriptions and notes are left out.  updated_at is read for    *)
(* done tasks only and is 0 for the others.  A progress entry is the       *)
(* execution that wrote it; its sequence number is its position.           *)
(***************************************************************************)
EXTENDS AgentRegistry, Sequences

CONSTANTS
  TaskIds,             \* random IDs: a used one never comes back
  TextSizes,           \* octet_length of a progress text
  ActiveTaskCap,       \* activeTaskCap
  MaxListedTasks,      \* maxListedTasks
  MaxProgressEvents,   \* maxTaskProgressEvents
  MaxProgressBytes     \* maxTaskProgressBytes

ASSUME TaskAssumption ==
  /\ TextSizes \subseteq Nat
  /\ ActiveTaskCap \in Nat
  /\ MaxListedTasks \in Nat
  /\ MaxProgressEvents \in Nat
  /\ MaxProgressBytes \in Nat

VARIABLES
  tasks,     \* the tasks table; "absent" and "removed" are no row
  progress   \* task_progress: per task the log and the sum of its text sizes

taskVars == <<tasks, progress>>

Unclaimed == [agent |-> "nobody", execution |-> 0]

Task ==
  [status : {"absent", "open", "claimed", "done", "removed"},
   claim : Principals \cup {Unclaimed}, dependencies : SUBSET TaskIds,
   updated_at : Nat]

NoTask(status) ==
  [status |-> status, claim |-> Unclaimed, dependencies |-> {}, updated_at |-> 0]

Progress == [log : Seq(Principals), bytes : Nat]
NoProgress == [log |-> <<>>, bytes |-> 0]

OnBoard(tks)    == {t \in TaskIds : tks[t].status \in {"open", "claimed", "done"}}
Unfinished(tks) == {t \in TaskIds : tks[t].status \in {"open", "claimed"}}

-----------------------------------------------------------------------------
(* Fault: the sweep compares the agent and forgets the execution.          *)
releaseStaleTaskClaims_SameAgent(tks, ags) ==
  [t \in TaskIds |->
     IF /\ tks[t].status = "claimed"
        /\ ~(ags[tks[t].claim.agent].lease_expires_at > now)
     THEN [tks[t] EXCEPT !.status = "open", !.claim = Unclaimed]
     ELSE tks[t]]

(* Fault: the sweep also takes the claims of live executions.              *)
releaseStaleTaskClaims_Live(tks, ags) ==
  [t \in TaskIds |->
     IF tks[t].status = "claimed"
     THEN [tks[t] EXCEPT !.status = "open", !.claim = Unclaimed]
     ELSE tks[t]]

(* Fault: the sweep opens the task and leaves the claim columns.           *)
releaseStaleTaskClaims_KeepsClaim(tks, ags) ==
  [t \in TaskIds |->
     IF /\ tks[t].status = "claimed"
        /\ ~ /\ ags[tks[t].claim.agent].execution_id = tks[t].claim.execution
             /\ ags[tks[t].claim.agent].lease_expires_at > now
     THEN [tks[t] EXCEPT !.status = "open"]
     ELSE tks[t]]

(* Opens every claimed task without a live execution behind it, judged by  *)
(* the agents table as the transaction has written it so far.              *)
releaseStaleTaskClaims(tks, ags) ==
  [t \in TaskIds |->
     IF /\ tks[t].status = "claimed"
        /\ ~ /\ ags[tks[t].claim.agent].execution_id = tks[t].claim.execution
             /\ ags[tks[t].claim.agent].lease_expires_at > now
     THEN [tks[t] EXCEPT !.status = "open", !.claim = Unclaimed]
     ELSE tks[t]]

(* What the transactions that end executions do to the board.              *)
ClaimsSwept ==
  /\ tasks' = releaseStaleTaskClaims(tasks, agents')
  /\ UNCHANGED progress

(* An execution or the scope token; either is checked again by beginTx or  *)
(* by the transaction.                                                     *)
taskAuthority ==
  \/ \E token \in 1..MaxTokens : requireScopeCredential(token)
  \/ \E p \in KnownPrincipals : requireCurrentExecution(p)

(* Fault: the dependencies are not looked up.                              *)
AddTask_UnknownDependencies(dependencies) ==
  /\ taskAuthority
  /\ Cardinality(Unfinished(tasks)) < ActiveTaskCap
  /\ \E id \in TaskIds :
       /\ tasks[id].status = "absent"
       /\ tasks' = [tasks EXCEPT ![id] =
            [status |-> "open", claim |-> Unclaimed,
             dependencies |-> dependencies, updated_at |-> 0]]
  /\ UNCHANGED <<registryVars, progress>>

(* Fault: the cap is compared after the insertion.                         *)
AddTask_CapOffByOne(dependencies) ==
  /\ taskAuthority
  /\ Cardinality(Unfinished(tasks)) <= ActiveTaskCap
  /\ dependencies \subseteq OnBoard(tasks)
  /\ \E id \in TaskIds :
       /\ tasks[id].status = "absent"
       /\ tasks' = [tasks EXCEPT ![id] =
            [status |-> "open", claim |-> Unclaimed,
             dependencies |-> dependencies, updated_at |-> 0]]
  /\ UNCHANGED <<registryVars, progress>>

AddTask(dependencies) ==
  /\ taskAuthority
  /\ Cardinality(Unfinished(tasks)) < ActiveTaskCap
  /\ dependencies \subseteq OnBoard(tasks)
  /\ \E id \in TaskIds :
       /\ tasks[id].status = "absent"
       /\ tasks' = [tasks EXCEPT ![id] =
            [status |-> "open", claim |-> Unclaimed,
             dependencies |-> dependencies, updated_at |-> 0]]
  /\ UNCHANGED <<registryVars, progress>>

(* A refused claim rolls back, the sweep included.                         *)
ClaimTask(p, t) ==
  LET swept == releaseStaleTaskClaims(tasks, agents) IN
  /\ requireCurrentExecution(p)
  /\ swept[t].status = "open"
  /\ \A d \in swept[t].dependencies : swept[d].status = "done"
  /\ tasks' = [swept EXCEPT ![t].status = "claimed", ![t].claim = p]
  /\ UNCHANGED <<registryVars, progress>>

ClaimedBy(p, t) == tasks[t].status = "claimed" /\ tasks[t].claim = p

(* CHECK of the table: a task that is not open keeps its claim columns.    *)
CompleteTask(p, t) ==
  /\ requireCurrentExecution(p)
  /\ ClaimedBy(p, t)
  /\ tasks' = [tasks EXCEPT ![t].status = "done", ![t].updated_at = now]
  /\ UNCHANGED <<registryVars, progress>>

(* Fault: the status is not part of the condition.                         *)
ReleaseTask_AnyStatus(p, t) ==
  /\ requireCurrentExecution(p)
  /\ tasks[t].claim = p
  /\ tasks' = [tasks EXCEPT ![t].status = "open", ![t].claim = Unclaimed]
  /\ UNCHANGED <<registryVars, progress>>

ReleaseTask(p, t) ==
  /\ requireCurrentExecution(p)
  /\ ClaimedBy(p, t)
  /\ tasks' = [tasks EXCEPT ![t].status = "open", ![t].claim = Unclaimed]
  /\ UNCHANGED <<registryVars, progress>>

AddTaskProgress(p, t, bytes) ==
  /\ requireCurrentExecution(p)
  /\ ClaimedBy(p, t)
  /\ Len(progress[t].log) < MaxProgressEvents
  /\ progress[t].bytes + bytes <= MaxProgressBytes
  /\ progress' = [progress EXCEPT ![t] =
       [log |-> Append(progress[t].log, p), bytes |-> progress[t].bytes + bytes]]
  /\ UNCHANGED <<registryVars, tasks>>

(* Reads that sweep.  A history that is too long for ListTasks is read in  *)
(* pages.                                                                  *)
ListTasks ==
  /\ taskAuthority
  /\ Cardinality(OnBoard(tasks)) <= MaxListedTasks
  /\ UNCHANGED registryVars
  /\ ClaimsSwept

TaskPage == taskAuthority /\ UNCHANGED registryVars /\ ClaimsSwept

-----------------------------------------------------------------------------
(* Retention keeps unfinished and recent tasks and, transitively, what     *)
(* they depend on: the least set the work list of the code fills.          *)
RetentionRoots(tks, before) ==
  {t \in OnBoard(tks) : tks[t].status # "done" \/ tks[t].updated_at >= before}

Closed(tks, S) == \A t \in S : tks[t].dependencies \subseteq S

Retained(tks, before) ==
  {t \in OnBoard(tks) :
     \A S \in SUBSET OnBoard(tks) : RetentionRoots(tks, before) \subseteq S /\ Closed(tks, S) => t \in S}

(* Fault: what a retained task depends on goes once it is old.             *)
retentionTaskCandidates_NoClosure(tks, before) == OnBoard(tks) \ RetentionRoots(tks, before)

retentionTaskCandidates(tks, before) == OnBoard(tks) \ Retained(tks, before)

(* PruneScope for the tasks; their progress goes with them (ON DELETE      *)
(* CASCADE).                                                               *)
PruneTasks(token, before, execute) ==
  LET swept      == releaseStaleTaskClaims(tasks, agents)
      candidates == IF execute THEN retentionTaskCandidates(swept, before) ELSE {} IN
  /\ requireScopeCredential(token)
  /\ tasks' = [t \in TaskIds |->
       IF t \in candidates THEN NoTask("removed") ELSE swept[t]]
  /\ progress' = [t \in TaskIds |->
       IF t \in candidates THEN NoProgress ELSE progress[t]]
  /\ UNCHANGED registryVars

-----------------------------------------------------------------------------
TaskInit ==
  /\ RegistryInit
  /\ tasks = [t \in TaskIds |-> NoTask("absent")]
  /\ progress = [t \in TaskIds |-> NoProgress]

boardVars == <<registryVars, taskVars>>

(* The steps of the registry, board effects included.  A heartbeat sweeps  *)
(* nothing.                                                                *)
ExecutionNext ==
  \/ Tick /\ UNCHANGED taskVars
  \/ \E token \in 1..MaxTokens, a \in Agents, leaseMS \in LeaseTimes,
        connectTo \in SUBSET Agents, workspace \in BOOLEAN :
       RegisterRow(token, a, leaseMS, connectTo, workspace) /\ ClaimsSwept
  \/ \E token \in 1..MaxTokens, a, b \in Agents :
       LinkAgents(token, a, b) /\ UNCHANGED taskVars
  \/ \E p \in KnownPrincipals, lifecycle \in ReportedLifecycles, leaseMS \in LeaseTimes :
       HeartbeatRow(p, lifecycle, leaseMS) /\ UNCHANGED taskVars
  \/ \E p \in KnownPrincipals : RetireRow(p) /\ ClaimsSwept
  \/ RotateRows /\ ClaimsSwept

BoardNext ==
  \/ \E dependencies \in SUBSET TaskIds : AddTask(dependencies)
  \/ \E p \in KnownPrincipals, t \in TaskIds : ClaimTask(p, t)
  \/ \E p \in KnownPrincipals, t \in TaskIds : CompleteTask(p, t)
  \/ \E p \in KnownPrincipals, t \in TaskIds : ReleaseTask(p, t)
  \/ \E p \in KnownPrincipals, t \in TaskIds, bytes \in TextSizes :
       AddTaskProgress(p, t, bytes)
  \/ ListTasks
  \/ TaskPage
  \/ \E token \in 1..MaxTokens, before \in 1..MaxTime, execute \in BOOLEAN :
       PruneTasks(token, before, execute)

TaskNext == ExecutionNext \/ BoardNext

TaskSpec == TaskInit /\ [][TaskNext]_boardVars

-----------------------------------------------------------------------------
(* Types, with the CHECK of the tasks table: open tasks and only they have *)
(* no claim columns.                                                       *)
TaskTypeOK ==
  /\ RegistryTypeOK
  /\ tasks \in [TaskIds -> Task]
  /\ \A t \in TaskIds : tasks[t].status \in {"claimed", "done"} <=> tasks[t].claim # Unclaimed
  /\ progress \in [TaskIds -> Progress]

(* A claim never outlives its execution by replacement, retirement or      *)
(* rotation: the transaction that ends the execution opens the task.  Only *)
(* a lease that runs out leaves a claim behind, until the next sweep.      *)
ClaimFencing ==
  \A t \in TaskIds : tasks[t].status = "claimed" =>
    LET holder == tasks[t].claim IN
    /\ agents[holder.agent].execution_id = holder.execution
    /\ agents[holder.agent].lease_expires_at # 0

(* A task that is worked on or done had all its dependencies done before,  *)
(* and what a task depends on is kept as long as the task: taskFrom and    *)
(* ClaimTask never miss a dependency row.                                  *)
DependenciesHold ==
  \A t \in OnBoard(tasks) :
    /\ tasks[t].dependencies \subseteq OnBoard(tasks)
    /\ tasks[t].status \in {"claimed", "done"} =>
         \A d \in tasks[t].dependencies : tasks[d].status = "done"

(* Fault: a claim is archived.                                             *)
archivedTask_AsStored(task) == task

(* An archive holds no claims: a claimed task is written down as open.     *)
archivedTask(task) ==
  IF task.status = "claimed" THEN [task EXCEPT !.status = "open", !.claim = Unclaimed] ELSE task

(* The part of validateArchive on the tasks and their progress.  Its       *)
(* depth-first search finds no cycle: any tasks have one among them that   *)
(* depends on none of the others.                                          *)
validArchivedTasks(tks) ==
  /\ \A t \in OnBoard(tks) :
       /\ tks[t].status \in {"open", "done"}
       /\ tks[t].status = "done" => Registered(tks[t].claim.agent)
       /\ tks[t].status = "open" => tks[t].claim = Unclaimed
       /\ tks[t].dependencies \subseteq OnBoard(tks) \ {t}
       /\ \A n \in 1..Len(progress[t].log) : Registered(progress[t].log[n].agent)
       /\ Len(progress[t].log) <= MaxProgressEvents
       /\ progress[t].bytes <= MaxProgressBytes
  /\ Cardinality(Unfinished(tks)) <= ActiveTaskCap
  /\ \A S \in SUBSET OnBoard(tks) : S # {} => \E t \in S : tks[t].dependencies \cap S = {}

(* Tasks never wait for each other in a circle, nor for one that is gone:  *)
(* in whatever order they were added, worked on and removed, the export of *)
(* the scope accepts the board, and an import can go on with it.           *)
BoardExportable == validArchivedTasks([t \in TaskIds |-> archivedTask(tasks[t])])

(* The board and every progress log stay within their limits: no release   *)
(* or sweep makes a finished task count again.                             *)
BoardBounded ==
  /\ Cardinality(Unfinished(tasks)) <= ActiveTaskCap
  /\ \A t \in TaskIds : /\ Len(progress[t].log) <= MaxProgressEvents
                        /\ progress[t].bytes <= MaxProgressBytes

(* The claims of the board belong to executions that were neither replaced *)
(* nor retired nor revoked, and its limits hold (releaseStaleTaskClaims,   *)
(* AddTask, AddTaskProgress).                                              *)
BoardSound == TaskTypeOK /\ ClaimFencing /\ BoardBounded

(* Claims are exclusive: a task leaves the execution that claimed it when  *)
(* that execution completes or releases it, or has lost its authority.     *)
ClaimsExclusive ==
  \A t \in TaskIds, p \in KnownPrincipals :
    ClaimedBy(p, t) /\ ~ClaimedBy(p, t)' /\ requireCurrentExecution(p)'
      => CompleteTask(p, t) \/ ReleaseTask(p, t)

(* Finished work is never reopened, although a done task keeps its claim   *)
(* columns, and unfinished work is never forgotten.                        *)
FinishedWorkStays ==
  \A t \in TaskIds :
    /\ tasks[t].status = "done" => tasks'[t].status \in {"done", "removed"}
    /\ tasks[t].status \in {"open", "claimed"} => tasks'[t].status # "removed"

(* Work stays with who does it, and stays done, in every step of the board *)
(* (CompleteTask, ReleaseTask, releaseStaleTaskClaims, PruneScope).        *)
WorkKept == [][ClaimsExclusive /\ FinishedWorkStays]_boardVars
=============================================================================
