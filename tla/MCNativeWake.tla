---------------------------- MODULE MCNativeWake ----------------------------
(* Native wake of one registered agent that a member of a hosted workspace *)
(* writes to.                                                              *)
EXTENDS NativeWake, TLC

WakeSymmetry == Permutations(MessageIds) \cup Permutations(Listeners)

(* The agent is registered for a lease longer than the horizon, and has a  *)
(* message that never expires: a registration and a send reach this state. *)
WakeStart ==
  /\ now = 1
  /\ scopeToken = 1
  /\ agents = [a \in Agents |->
       [execution_id |-> 1, lifecycle |-> "starting",
        lease_expires_at |-> MaxTime + 2, registered_with |-> 1]]
  /\ links = {}
  /\ \E h \in Humans, a \in Agents, first \in MessageIds :
       messages = [m \in MessageIds |->
         IF m = first
         THEN [NoRow("queued") EXCEPT !.from = h, !.to = a, !.created_at = 1]
         ELSE NoRow("absent")]
  /\ reservations = [r \in ReservationIds |-> NoReservation("unused")]
  /\ WakeTablesInit

MCWakeSpec == WakeStart /\ [][WakeNext]_<<vars, wakeVars>>
=============================================================================
