---------------------------- MODULE MCTaskBoard ----------------------------
(* TaskBoard on small scopes, with symmetric identifiers.                  *)
EXTENDS TaskBoard, TLC

VARIABLE part

BoardSymmetry == Permutations(Agents) \cup Permutations(TaskIds)

(* For "dependencies" one agent is registered beyond the horizon.          *)
PartInit ==
  /\ part \in {"claims", "dependencies"}
  /\ now = 1
  /\ scopeToken = 1
  /\ \E first \in Agents :
       agents = [a \in Agents |->
         IF part = "dependencies" /\ a = first
         THEN [execution_id |-> 1, lifecycle |-> "starting",
               lease_expires_at |-> MaxTime + 1, registered_with |-> 1]
         ELSE NoAgent]
  /\ links = {}
  /\ tasks = [t \in TaskIds |-> NoTask("absent")]
  /\ progress = [t \in TaskIds |-> NoProgress]

(* "claims" has agents that come and go and one task with short progress;  *)
(* "dependencies" has three tasks with their progress logs at their limits.*)
Claims ==
  /\ Cardinality({t \in TaskIds : tasks[t].status # "absent"}) <= 1
  /\ \A t \in TaskIds : Len(progress[t].log) <= 1 /\ progress[t].bytes <= 1
Dependencies == now <= 3

PartNext ==
  /\ UNCHANGED part
  /\ TaskNext
  /\ part = "claims" => Claims'
  /\ part = "dependencies" => Dependencies' /\ UNCHANGED <<scopeToken, agents, links>>

PartSpec == PartInit /\ [][PartNext]_<<registryVars, taskVars, part>>
=============================================================================
