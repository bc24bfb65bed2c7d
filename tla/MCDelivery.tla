----------------------------- MODULE MCDelivery -----------------------------
(* Delivery on small scopes, with symmetric identifiers.                   *)
EXTENDS Delivery, TLC

(* AllSymmetry for the runs whose initial state does not tell agents apart. *)
IdSymmetry == Permutations(MessageIds) \cup Permutations(ReservationIds)
AllSymmetry == IdSymmetry \cup Permutations(Agents)

(* A scope whose agents are already registered, for a lease longer than    *)
(* the horizon, and linked to each other: registrations with connectTo     *)
(* reach this state.  Runs about message traffic start here.               *)
LinkedInit ==
  /\ now = 1
  /\ scopeToken = 1
  /\ agents = [a \in Agents |->
       [execution_id |-> 1, lifecycle |-> "starting",
        lease_expires_at |-> MaxTime + 2, registered_with |-> 1]]
  /\ links = {{a, b} : a, b \in Agents} \ {{a} : a \in Agents}
  /\ messages = [m \in MessageIds |-> NoRow("absent")]
  /\ reservations = [r \in ReservationIds |-> NoReservation("unused")]

LinkedSpec == LinkedInit /\ [][DeliveryNext]_vars
=============================================================================
