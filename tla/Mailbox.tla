------------------------------ MODULE Mailbox ------------------------------
(***************************************************************************)
(* What delivery promises for one message, without executions, leases,     *)
(* reservation rows or a clock.                                            *)
(*                                                                         *)
(* To an agent, delivery is at least once under an exclusive hold: an      *)
(* accepted message is queued until it is delivered or expires; once       *)
(* delivered it never counts as undelivered again; a message under a hold  *)
(* can be delivered but not acknowledged.  A human reads a message, which  *)
(* finishes it; what goes to a remote principal is finished when stored.   *)
(* Acknowledged and expired are final, and only final messages are         *)
(* forgotten.  The recipient of a message never changes.                   *)
(*                                                                         *)
(* One transaction may move many messages, each along one of these moves.  *)
(***************************************************************************)
CONSTANTS MessageIds, Holds, Nobody

VARIABLES phase, holder, kind

mailboxVars == <<phase, holder, kind>>

Phases == {"absent", "queued", "delivered", "acknowledged", "expired", "removed"}
Kinds  == {"none", "agent", "human", "remote"}
Open   == {"queued", "delivered"}

Goes(m, from, to) == phase[m] \in from /\ phase'[m] \in to
Free(m) == holder[m] = Nobody /\ holder'[m] = Nobody
Keeps(m, kinds) == kind[m] \in kinds /\ kind'[m] = kind[m]

Accept(m) == /\ Goes(m, {"absent"}, {"queued"}) /\ Free(m)
             /\ kind'[m] \in {"agent", "human"}
StoreRemote(m) == /\ Goes(m, {"absent"}, {"acknowledged"}) /\ Free(m)
                  /\ kind'[m] = "remote"

(* Under a new hold; the one before it, if any, is over.                   *)
Hold(m) == /\ phase[m] \in Open /\ phase'[m] = phase[m]
           /\ holder'[m] \in Holds \ {holder[m]}
           /\ Keeps(m, {"agent"})

(* The holder hands the message over, or gives it back unchanged.          *)
Deliver(m) == /\ Goes(m, Open, {"delivered"}) /\ Keeps(m, {"agent"})
              /\ holder[m] \in Holds /\ holder'[m] = Nobody
GiveBack(m) == /\ phase[m] \in Open /\ phase'[m] = phase[m] /\ Keeps(m, {"agent"})
               /\ holder[m] \in Holds /\ holder'[m] = Nobody

Acknowledge(m) == Goes(m, {"delivered"}, {"acknowledged"}) /\ Free(m) /\ Keeps(m, {"agent"})
Read(m)        == Goes(m, Open, {"acknowledged"}) /\ Free(m) /\ Keeps(m, {"human"})
Expire(m)      == Goes(m, Open, {"expired"}) /\ holder'[m] = Nobody /\ Keeps(m, Kinds)

(* Retention expires what is due before it forgets.                        *)
Forget(m) == /\ Goes(m, Open \cup {"acknowledged", "expired"}, {"removed"})
             /\ holder'[m] = Nobody

Move(m) ==
  \/ phase'[m] = phase[m] /\ holder'[m] = holder[m] /\ kind'[m] = kind[m]
  \/ Accept(m) \/ StoreRemote(m) \/ Hold(m) \/ Deliver(m) \/ GiveBack(m)
  \/ Acknowledge(m) \/ Read(m) \/ Expire(m) \/ Forget(m)

MailboxInit ==
  /\ phase = [m \in MessageIds |-> "absent"]
  /\ holder = [m \in MessageIds |-> Nobody]
  /\ kind = [m \in MessageIds |-> "none"]

MailboxNext ==
  /\ phase' \in [MessageIds -> Phases]
  /\ holder' \in [MessageIds -> Holds \cup {Nobody}]
  /\ kind' \in [MessageIds -> Kinds]
  /\ \A m \in MessageIds : Move(m)

MailboxSpec == MailboxInit /\ [][MailboxNext]_mailboxVars
=============================================================================
