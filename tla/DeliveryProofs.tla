--------------------------- MODULE DeliveryProofs ---------------------------
(***************************************************************************)
(* Proofs about Delivery for every number of agents, messages,             *)
(* reservations and executions, and for an unbounded clock horizon.        *)
(***************************************************************************)
EXTENDS Delivery, RegistryProofs, FiniteSetTheorems, TLAPS

-----------------------------------------------------------------------------
(* What the table helpers return, row by row.                              *)

(* expireMessages keeps the table a table.                                 *)
LEMMA ExpireType ==
  ASSUME NEW msgs \in [MessageIds -> Message], NEW t \in Nat
  PROVE  expireMessages(msgs, t) \in [MessageIds -> Message]
  <1> SUFFICES ASSUME NEW m \in MessageIds
               PROVE  expireMessages(msgs, t)[m] \in Message
    BY DEF expireMessages
  <1>1. [msgs[m] EXCEPT !.state = "expired", !.reservation_id = None] \in Message
    BY DEF Message, Terminal
  <1> QED BY <1>1 DEF expireMessages

(* releaseReservations keeps the table a table.                            *)
LEMMA ReleaseType ==
  ASSUME NEW msgs \in [MessageIds -> Message], NEW R
  PROVE  releaseReservations(msgs, R) \in [MessageIds -> Message]
  <1> SUFFICES ASSUME NEW m \in MessageIds
               PROVE  releaseReservations(msgs, R)[m] \in Message
    BY DEF releaseReservations
  <1>1. \A s \in Active :
          [msgs[m] EXCEPT !.state = s, !.reservation_id = None] \in Message
    BY DEF Message
  <1> QED BY <1>1 DEF releaseReservations, Active

(* deleteReservations keeps the reservations table a table.                *)
LEMMA DeleteType ==
  ASSUME reservations \in [ReservationIds -> Reservation], NEW R
  PROVE  deleteReservations(R) \in [ReservationIds -> Reservation]
  BY DEF deleteReservations, Reservation, NoReservation

(* Inserting a message keeps the table a table.                            *)
LEMMA InsertType ==
  ASSUME NEW msgs \in [MessageIds -> Message], NEW id \in MessageIds,
         NEW sender \in Participants, NEW in \in SendInputs, NEW t \in Nat
  PROVE  InsertMessage(msgs, id, sender, in, t) \in [MessageIds -> Message]
  <1> SUFFICES ASSUME NEW m \in MessageIds
               PROVE  InsertMessage(msgs, id, sender, in, t)[m] \in Message
    BY DEF InsertMessage
  <1>1. NewMessage(sender, in, t) \in Message
    <2>1. /\ in.to \in Participants /\ in.mode \in Modes
          /\ in.response_to \in MessageIds \cup {None}
          /\ in.idempotency_key \in Keys \cup {None}
          /\ in.expires_in \in Nat
      BY DeliveryAssumption DEF SendInputs
    <2>2. (IF in.expires_in = 0 THEN 0 ELSE t + in.expires_in) \in Nat
      BY <2>1
    <2> QED BY <2>1, <2>2 DEF NewMessage, Message, Active, Terminal
  <1>2. [msgs[m] EXCEPT !.response_message_id = id] \in Message
    BY DEF Message
  <1> QED BY <1>1, <1>2 DEF InsertMessage

(* Expiry keeps reserved rows in step with the reservations.               *)
LEMMA ExpireHeld ==
  ASSUME NEW msgs \in [MessageIds -> Message], NEW t \in Nat, NEW res,
         NEW m \in MessageIds, HeldRow(msgs[m], res)
  PROVE  HeldRow(expireMessages(msgs, t)[m], res)
  BY DEF expireMessages, HeldRow, Message

(* Releasing reservations and deleting their rows go together.             *)
LEMMA ReleaseHeld ==
  ASSUME NEW msgs \in [MessageIds -> Message], NEW R, 
         reservations \in [ReservationIds -> Reservation],
         NEW m \in MessageIds, HeldRow(msgs[m], reservations)
  PROVE  HeldRow(releaseReservations(msgs, R)[m], deleteReservations(R))
  <1>1. CASE msgs[m].state = "reserved" /\ msgs[m].reservation_id \in R
    BY <1>1 DEF releaseReservations, deleteReservations, HeldRow, Message
  <1>2. CASE ~(msgs[m].state = "reserved" /\ msgs[m].reservation_id \in R)
    <2>1. releaseReservations(msgs, R)[m] = msgs[m]
      BY <1>2 DEF releaseReservations
    <2> QED BY <1>2, <2>1 DEF deleteReservations, HeldRow, Reservation
  <1> QED BY <1>1, <1>2

(* Expiry leaves no active message past its time, and keeps the times.     *)
LEMMA ExpireInTime ==
  ASSUME NEW msgs \in [MessageIds -> Message], NEW t \in Nat,
         NEW m \in MessageIds, InTime(msgs[m]), msgs[m].delivered_at <= t
  PROVE  LET msg == expireMessages(msgs, t)[m] IN
         /\ InTime(msg) /\ msg.delivered_at <= t
         /\ msg.state \in Active => ~Overdue(msg, t)
  BY DEF expireMessages, InTime, Message, Active, Overdue

(* A release keeps the times.                                              *)
LEMMA ReleaseInTime ==
  ASSUME NEW msgs \in [MessageIds -> Message], NEW R,
         NEW m \in MessageIds, InTime(msgs[m])
  PROVE  LET msg == releaseReservations(msgs, R)[m] IN
         InTime(msg) /\ msg.delivered_at = msgs[m].delivered_at
  BY DEF releaseReservations, InTime, Message

-----------------------------------------------------------------------------
(* The inductive invariant.  ReservedIffHeld needs the recipient in the    *)
(* reservation row, ReservationFencing that every end of an execution      *)
(* releases, DeliveredInTime that nothing was delivered in the future.     *)
DeliveryInv ==
  /\ DeliveryTypeOK
  /\ ReservedIffHeld
  /\ ReservationFencing
  /\ RotationRevokes
  /\ DeliveredInTime

-----------------------------------------------------------------------------
(* Deleting reservations leaves the others as they were.                   *)
LEMMA DeleteHeld ==
  ASSUME DeliveryTypeOK, NEW R, reservations' = deleteReservations(R)
  PROVE  \A r \in Held' : r \in Held /\ r \notin R /\ reservations'[r] = reservations[r]
  BY DEF Held, deleteReservations, NoReservation, DeliveryTypeOK, Reservation

(* A transaction that releases reservations and does nothing else to the   *)
(* two tables keeps what the invariant says about them.                    *)
LEMMA ReleaseStep ==
  ASSUME DeliveryInv, NEW R, now' = now,
         messages' = releaseReservations(messages, R),
         reservations' = deleteReservations(R)
  PROVE  /\ messages' \in [MessageIds -> Message]
         /\ reservations' \in [ReservationIds -> Reservation]
         /\ ReservedIffHeld' /\ DeliveredInTime'
  <1> USE DEF DeliveryInv, DeliveryTypeOK
  <1>1. messages' \in [MessageIds -> Message]
    BY ReleaseType
  <1>2. reservations' \in [ReservationIds -> Reservation]
    BY DeleteType
  <1>3. ReservedIffHeld'
    BY ReleaseHeld DEF ReservedIffHeld
  <1>4. DeliveredInTime'
    BY ReleaseInTime DEF DeliveredInTime
  <1> QED BY <1>1, <1>2, <1>3, <1>4

(* Registration, retirement and rotation end executions together with      *)
(* their reservations; the other registry steps touch no inbox.            *)
LEMMA RegistryPreserves ==
  ASSUME DeliveryInv, RegistryNext
  PROVE  DeliveryInv'
  <1> USE DEF DeliveryInv
  <1>1. RegistryTypeOK' /\ RotationRevokes'
    <2>1. RegistryTypeOK /\ RotationRevokes
      BY DEF DeliveryTypeOK
    <2> QED BY <2>1, RegistrySteps, Zenon DEF RegistryNext, RegisterAgent, Heartbeat, RetireAgent,
                  RotateScopeToken
  <1>2. CASE Tick /\ UNCHANGED deliveryVars
    <2>1. now' >= now /\ agents' = agents /\ messages' = messages /\ reservations' = reservations
      BY <1>2 DEF Tick, deliveryVars, DeliveryTypeOK, RegistryTypeOK
    <2>2. ReservedIffHeld' /\ ReservationFencing'
      BY <2>1 DEF ReservedIffHeld, ReservationFencing, Held, HeldRow
    <2>3. DeliveredInTime'
      BY <1>1, <2>1 DEF DeliveredInTime, InTime, DeliveryTypeOK, RegistryTypeOK, Message
    <2> QED BY <1>1, <2>1, <2>2, <2>3 DEF DeliveryTypeOK
  <1>3. ASSUME NEW token \in 1..MaxTokens, NEW a \in Agents,
               NEW leaseMS \in LeaseTimes, NEW connectTo \in SUBSET Agents,
               NEW workspace \in BOOLEAN,
               RegisterAgent(token, a, leaseMS, connectTo, workspace)
        PROVE  DeliveryInv'
    <2>1. /\ now' = now /\ messages' = releaseReservations(messages, HeldBy(a))
          /\ reservations' = deleteReservations(HeldBy(a))
          /\ \A b \in Agents \ {a} : agents'[b] = agents[b]
      BY <1>3 DEF RegisterAgent, RegisterRow, DeliveryTypeOK, RegistryTypeOK
    <2>2. ReservationFencing'
      BY <2>1, DeleteHeld DEF ReservationFencing, HeldBy
    <2> QED BY <1>1, <2>1, <2>2, ReleaseStep DEF DeliveryTypeOK
  <1>4. ASSUME NEW token \in 1..MaxTokens, NEW a \in Agents, NEW b \in Agents,
               LinkAgents(token, a, b) /\ UNCHANGED deliveryVars
        PROVE  DeliveryInv'
    <2>1. now' = now /\ agents' = agents /\ messages' = messages /\ reservations' = reservations
      BY <1>4 DEF LinkAgents, deliveryVars
    <2> QED BY <1>1, <2>1 DEF DeliveryTypeOK, ReservedIffHeld, ReservationFencing, Held,
                              HeldRow, DeliveredInTime
  <1>5. ASSUME NEW p \in KnownPrincipals, NEW lifecycle \in ReportedLifecycles,
               NEW leaseMS \in LeaseTimes, Heartbeat(p, lifecycle, leaseMS)
        PROVE  DeliveryInv'
    <2>1. now' = now /\ messages' = messages /\ reservations' = reservations
      BY <1>5 DEF Heartbeat, HeartbeatRow, deliveryVars
    <2>2. p.agent \in Agents
      BY DEF KnownPrincipals
    <2>3. ASSUME NEW a \in Agents
          PROVE  /\ agents'[a].execution_id = agents[a].execution_id
                 /\ agents[a].lease_expires_at # 0 => agents'[a].lease_expires_at # 0
      BY <1>5, <2>2, RegistryAssumption
         DEF Heartbeat, HeartbeatRow, DeliveryTypeOK, RegistryTypeOK, Agent
    <2>4. ReservationFencing'
      BY <2>1, <2>3 DEF ReservationFencing, Held
    <2> QED BY <1>1, <2>1, <2>4 DEF DeliveryTypeOK, ReservedIffHeld, Held, HeldRow, DeliveredInTime
  <1>6. ASSUME NEW p \in KnownPrincipals, RetireAgent(p)
        PROVE  DeliveryInv'
    <2>1. /\ now' = now /\ messages' = releaseReservations(messages, HeldBy(p.agent))
          /\ reservations' = deleteReservations(HeldBy(p.agent))
      BY <1>6 DEF RetireAgent, RetireRow
    <2>2. \A b \in Agents \ {p.agent} : agents'[b] = agents[b]
      BY <1>6 DEF RetireAgent, RetireRow, DeliveryTypeOK, RegistryTypeOK
    <2>3. ReservationFencing'
      BY <2>1, <2>2, DeleteHeld DEF ReservationFencing, HeldBy
    <2> QED BY <1>1, <2>1, <2>3, ReleaseStep DEF DeliveryTypeOK
  <1>7. CASE RotateScopeToken
    <2>1. /\ now' = now /\ messages' = releaseReservations(messages, Held)
          /\ reservations' = deleteReservations(Held)
      BY <1>7, Zenon DEF RotateScopeToken, RotateRows
    <2>2. ReservationFencing'
      BY <2>1, DeleteHeld DEF ReservationFencing
    <2> QED BY <1>1, <2>1, <2>2, ReleaseStep DEF DeliveryTypeOK
  <1> HIDE DEF DeliveryInv
  <1> QED BY <1>2, <1>3, <1>4, <1>5, <1>6, <1>7 DEF RegistryNext

-----------------------------------------------------------------------------
(* The inbox operations touch no execution row: what they have to show is  *)
(* about the two tables they write.                                        *)
LEMMA InboxFrame ==
  ASSUME DeliveryInv, agents' = agents, scopeToken' = scopeToken, links' = links,
         now' \in Nat \ {0},
         messages' \in [MessageIds -> Message],
         reservations' \in [ReservationIds -> Reservation],
         \A m \in MessageIds : HeldRow(messages'[m], reservations'),
         \A m \in MessageIds : InTime(messages'[m]) /\ messages'[m].delivered_at <= now',
         ReservationFencing'
  PROVE  DeliveryInv'
  BY DEF DeliveryInv, DeliveryTypeOK, RegistryTypeOK, ReservedIffHeld, RotationRevokes,
         DeliveredInTime

(* Expiry alone preserves the rows.                                        *)
LEMMA ExpiredRows ==
  ASSUME DeliveryInv
  PROVE  LET msgs == expireMessages(messages, now) IN
         /\ msgs \in [MessageIds -> Message]
         /\ \A m \in MessageIds :
              /\ HeldRow(msgs[m], reservations)
              /\ InTime(msgs[m]) /\ msgs[m].delivered_at <= now
              /\ msgs[m].state \in Active => ~Overdue(msgs[m], now)
  <1>1. messages \in [MessageIds -> Message] /\ now \in Nat
    BY DEF DeliveryInv, DeliveryTypeOK, RegistryTypeOK
  <1>2. \A m \in MessageIds : /\ HeldRow(messages[m], reservations)
                              /\ InTime(messages[m]) /\ messages[m].delivered_at <= now
    BY DEF DeliveryInv, ReservedIffHeld, DeliveredInTime
  <1>3. expireMessages(messages, now) \in [MessageIds -> Message]
    BY <1>1, ExpireType
  <1>4. ASSUME NEW m \in MessageIds
        PROVE  HeldRow(expireMessages(messages, now)[m], reservations)
    BY <1>1, <1>2, ExpireHeld
  <1>5. ASSUME NEW m \in MessageIds
        PROVE  LET msg == expireMessages(messages, now)[m] IN
               /\ InTime(msg) /\ msg.delivered_at <= now
               /\ msg.state \in Active => ~Overdue(msg, now)
    BY <1>1, <1>2, ExpireInTime
  <1> QED BY <1>3, <1>4, <1>5

(* Rows that are only expired, inserted, linked to a response or removed.  *)
LEMMA RowsOnly ==
  ASSUME DeliveryInv, UNCHANGED <<registryVars, reservations>>,
         messages' \in [MessageIds -> Message],
         \A m \in MessageIds : HeldRow(messages'[m], reservations),
         \A m \in MessageIds : InTime(messages'[m]) /\ messages'[m].delivered_at <= now
  PROVE  DeliveryInv'
  <1>1. now' = now /\ agents' = agents /\ scopeToken' = scopeToken /\ links' = links
        /\ reservations' = reservations
    BY DEF registryVars
  <1>2. ReservationFencing'
    BY <1>1 DEF DeliveryInv, ReservationFencing, Held
  <1>3. now \in Nat \ {0} /\ reservations \in [ReservationIds -> Reservation]
    BY DEF DeliveryInv, DeliveryTypeOK, RegistryTypeOK
  <1> QED BY <1>1, <1>2, <1>3, InboxFrame

(* A message that is sent starts without a hold and, to an A2A principal,  *)
(* as delivered at this instant.                                           *)
LEMMA SendPreserves ==
  ASSUME DeliveryInv, NEW sender \in Participants, NEW in \in SendInputs,
         sendMessageTx(sender, in), UNCHANGED <<registryVars, reservations>>
  PROVE  DeliveryInv'
  <1> DEFINE msgs == expireMessages(messages, now)
  <1>1. /\ msgs \in [MessageIds -> Message]
        /\ \A m \in MessageIds : /\ HeldRow(msgs[m], reservations)
                                 /\ InTime(msgs[m]) /\ msgs[m].delivered_at <= now
    BY ExpiredRows
  <1>2. now \in Nat \ {0} /\ sender \in Participants
    BY DEF DeliveryInv, DeliveryTypeOK, RegistryTypeOK
  <1>3. CASE messages' = msgs
    BY <1>1, <1>3, RowsOnly
  <1>4. ASSUME NEW id \in MessageIds, messages' = InsertMessage(msgs, id, sender, in, now)
        PROVE  DeliveryInv'
    <2>1. messages' \in [MessageIds -> Message]
      BY <1>1, <1>2, <1>4, InsertType
    <2>2. in.expires_in \in Nat /\ TxTime \in Nat
      BY DeliveryAssumption DEF SendInputs
    <2>3. /\ HeldRow(NewMessage(sender, in, now), reservations)
          /\ InTime(NewMessage(sender, in, now))
          /\ NewMessage(sender, in, now).delivered_at <= now
      BY <1>2, <2>2 DEF NewMessage, HeldRow, InTime
    <2>4. ASSUME NEW m \in MessageIds
          PROVE  /\ HeldRow(messages'[m], reservations)
                 /\ InTime(messages'[m]) /\ messages'[m].delivered_at <= now
      <3>1. \/ messages'[m] = NewMessage(sender, in, now)
            \/ messages'[m] = msgs[m]
            \/ messages'[m] = [msgs[m] EXCEPT !.response_message_id = id]
        BY <1>4 DEF InsertMessage
      <3>2. CASE messages'[m] = [msgs[m] EXCEPT !.response_message_id = id]
        BY <1>1, <3>2 DEF HeldRow, InTime, Message
      <3> QED BY <1>1, <2>3, <3>1, <3>2
    <2> QED BY <2>1, <2>4, RowsOnly
  <1> QED BY <1>3, <1>4 DEF sendMessageTx

(* A reservation is made for the current execution only, after the overdue *)
(* reservations of the scope are gone.                                     *)
LEMMA ReservePreserves ==
  ASSUME DeliveryInv, NEW p \in KnownPrincipals, NEW limit \in InboxLimits,
         ReserveInbox(p, limit)
  PROVE  DeliveryInv'
  <1> DEFINE expired == {r \in Held : reservations[r].expires_at <= now}
             expmsgs == expireMessages(messages, now)
             msgs    == releaseReservations(expmsgs, expired)
             left    == deleteReservations(expired)
  <1>1. /\ expmsgs \in [MessageIds -> Message]
        /\ \A m \in MessageIds : /\ HeldRow(expmsgs[m], reservations)
                                 /\ InTime(expmsgs[m]) /\ expmsgs[m].delivered_at <= now
    BY ExpiredRows
  <1>2. /\ now \in Nat \ {0} /\ p.agent \in Agents /\ p.execution \in Nat
        /\ reservations \in [ReservationIds -> Reservation]
        /\ agents \in [Agents -> Agent]
    BY RegistryAssumption DEF DeliveryInv, DeliveryTypeOK, RegistryTypeOK, KnownPrincipals
  <1>3. left \in [ReservationIds -> Reservation]
    BY <1>2, DeleteType
  <1>4. msgs \in [MessageIds -> Message]
    BY <1>1, ReleaseType
  <1>5. ASSUME NEW m \in MessageIds
        PROVE  HeldRow(msgs[m], left) /\ InTime(msgs[m]) /\ msgs[m].delivered_at <= now
    <2>1. HeldRow(msgs[m], left)
      BY <1>1, <1>2, ReleaseHeld
    <2>2. InTime(msgs[m]) /\ msgs[m].delivered_at <= now
      BY <1>1, ReleaseInTime
    <2> QED BY <2>1, <2>2
  <1>6. \A r \in ReservationIds : left[r].row = "held" =>
          r \in Held /\ left[r] = reservations[r]
    BY <1>2 DEF deleteReservations, NoReservation, Held, Reservation
  <1>7. /\ now' = now /\ agents' = agents /\ scopeToken' = scopeToken /\ links' = links
        /\ agents[p.agent].execution_id = p.execution
        /\ agents[p.agent].lease_expires_at > now
    BY Zenon DEF ReserveInbox, registryVars, requireCurrentExecution
  <1>8. CASE messages' = msgs /\ reservations' = left
    <2>1. ReservationFencing'
      BY <1>6, <1>7, <1>8 DEF DeliveryInv, ReservationFencing, Held
    <2> QED BY <1>2, <1>3, <1>4, <1>5, <1>7, <1>8, <2>1, InboxFrame
  <1>9. ASSUME NEW S, NEW id \in ReservationIds, reservations[id].row = "unused",
               S \subseteq Available(msgs, p.agent),
               messages' = [m \in MessageIds |->
                  IF m \in S
                  THEN [msgs[m] EXCEPT !.state = "reserved", !.reservation_id = id]
                  ELSE msgs[m]],
               reservations' = [left EXCEPT ![id] =
                  [row |-> "held", agent |-> p.agent,
                   expires_at |-> now + ReservationTTL, execution |-> p.execution]]
        PROVE  DeliveryInv'
    <2>1. now + ReservationTTL \in Nat
      BY <1>2, DeliveryAssumption
    <2>2. reservations' \in [ReservationIds -> Reservation]
      BY <1>2, <1>3, <1>9, <2>1 DEF Reservation
    <2>3. ASSUME NEW m \in MessageIds
          PROVE  [msgs[m] EXCEPT !.state = "reserved", !.reservation_id = id] \in Message
      BY <1>4 DEF Message, Active
    <2>4. messages' \in [MessageIds -> Message]
      BY <1>4, <1>9, <2>3
    <2>5. ASSUME NEW m \in MessageIds
          PROVE  /\ HeldRow(messages'[m], reservations')
                 /\ InTime(messages'[m]) /\ messages'[m].delivered_at <= now
      <3>1. CASE m \in S
        <4>1. messages'[m] = [msgs[m] EXCEPT !.state = "reserved", !.reservation_id = id]
          BY <1>9, <3>1
        <4>2. msgs[m].to = p.agent /\ msgs[m].state \in {"queued", "delivered"}
          BY <1>9, <3>1 DEF Available
        <4>3. reservations'[id].row = "held" /\ reservations'[id].agent = p.agent
          BY <1>3, <1>9
        <4>4. HeldRow(messages'[m], reservations')
          BY <1>4, <4>1, <4>2, <4>3 DEF HeldRow, Message
        <4> QED BY <1>4, <1>5, <4>1, <4>2, <4>4 DEF InTime, Message
      <3>2. CASE m \notin S
        <4>1. messages'[m] = msgs[m]
          BY <1>9, <3>2
        <4>2. left[id].row # "held"
          BY <1>6, <1>9 DEF Held
        <4>3. \A r \in ReservationIds \ {id} : reservations'[r] = left[r]
          BY <1>3, <1>9
        <4> QED BY <1>5, <4>1, <4>2, <4>3 DEF HeldRow
      <3> QED BY <3>1, <3>2
    <2>6. ASSUME NEW r \in Held'
          PROVE  /\ reservations'[r].agent \in Agents
                 /\ agents[reservations'[r].agent].execution_id = reservations'[r].execution
                 /\ agents[reservations'[r].agent].lease_expires_at # 0
      <3>1. r \in ReservationIds /\ reservations'[r].row = "held"
        BY DEF Held
      <3>2. CASE r = id
        <4>1. /\ reservations'[r].agent = p.agent
              /\ reservations'[r].execution = p.execution
          BY <1>3, <1>9, <3>2
        <4> QED BY <1>2, <1>7, <4>1 DEF Agent
      <3>3. CASE r # id
        <4>1. reservations'[r] = left[r]
          BY <1>3, <1>9, <3>1, <3>3
        <4>2. r \in Held /\ reservations'[r] = reservations[r]
          BY <1>6, <3>1, <4>1
        <4> QED BY <4>2 DEF DeliveryInv, ReservationFencing
      <3> QED BY <3>2, <3>3
    <2>7. ReservationFencing'
      BY <1>7, <2>6 DEF ReservationFencing
    <2> QED BY <1>2, <1>7, <2>2, <2>4, <2>5, <2>7, InboxFrame
  <1> QED BY <1>8, <1>9, Zenon DEF ReserveInbox, OldestFirst

(* What is left after reservations are deleted is still fenced, whatever   *)
(* the clock does.                                                         *)
LEMMA DeleteFenced ==
  ASSUME DeliveryInv, NEW R, reservations' = deleteReservations(R), agents' = agents
  PROVE  /\ reservations' \in [ReservationIds -> Reservation]
         /\ ReservationFencing'
  <1>1. reservations' \in [ReservationIds -> Reservation]
    BY DeleteType DEF DeliveryInv, DeliveryTypeOK
  <1>2. \A r \in Held' : r \in Held /\ reservations'[r] = reservations[r]
    BY DeleteHeld DEF DeliveryInv
  <1>3. ReservationFencing'
    BY <1>2 DEF DeliveryInv, ReservationFencing
  <1> QED BY <1>1, <1>3

(* A release of R after expiry, as ReleaseInbox does it.                   *)
LEMMA ReleasePreserves ==
  ASSUME DeliveryInv, NEW p \in KnownPrincipals, NEW r \in ReservationIds,
         ReleaseInbox(p, r)
  PROVE  DeliveryInv'
  <1> DEFINE R    == {r} \cap HeldBy(p.agent)
             msgs == expireMessages(messages, now)
  <1>1. /\ msgs \in [MessageIds -> Message]
        /\ \A m \in MessageIds : /\ HeldRow(msgs[m], reservations)
                                 /\ InTime(msgs[m]) /\ msgs[m].delivered_at <= now
    BY ExpiredRows
  <1>2. /\ messages' = releaseReservations(msgs, R)
        /\ reservations' = deleteReservations(R)
        /\ now' = now /\ agents' = agents /\ scopeToken' = scopeToken /\ links' = links
    BY DEF ReleaseInbox, registryVars
  <1>3. now \in Nat \ {0} /\ reservations \in [ReservationIds -> Reservation]
    BY DEF DeliveryInv, DeliveryTypeOK, RegistryTypeOK
  <1>4. messages' \in [MessageIds -> Message]
    BY <1>1, <1>2, ReleaseType
  <1>5. \A m \in MessageIds : HeldRow(messages'[m], reservations')
    BY <1>1, <1>2, <1>3, ReleaseHeld
  <1>6. \A m \in MessageIds : InTime(messages'[m]) /\ messages'[m].delivered_at <= now
    BY <1>1, <1>2, ReleaseInTime
  <1> QED BY <1>2, <1>3, <1>4, <1>5, <1>6, DeleteFenced, InboxFrame

(* A commit hands over the messages of one reservation and deletes its     *)
(* row; the messages that expired while reserved are not among them.       *)
LEMMA CommitPreserves ==
  ASSUME DeliveryInv, NEW p \in KnownPrincipals, NEW r \in ReservationIds,
         NEW t \in LaterInTx, CommitInbox(p, r, t)
  PROVE  DeliveryInv'
  <1> DEFINE msgs == expireMessages(messages, now)
  <1>1. /\ msgs \in [MessageIds -> Message]
        /\ \A m \in MessageIds : /\ HeldRow(msgs[m], reservations)
                                 /\ InTime(msgs[m]) /\ msgs[m].delivered_at <= now
                                 /\ msgs[m].state \in Active => ~Overdue(msgs[m], now)
    BY ExpiredRows
  <1>2. /\ now \in Nat \ {0} /\ reservations \in [ReservationIds -> Reservation]
        /\ messages \in [MessageIds -> Message]
        /\ \A m \in MessageIds : /\ HeldRow(messages[m], reservations)
                                 /\ InTime(messages[m]) /\ messages[m].delivered_at <= now
    BY DEF DeliveryInv, DeliveryTypeOK, RegistryTypeOK, ReservedIffHeld, DeliveredInTime
  <1>3. t \in Nat \ {0} /\ now <= t /\ t <= now + TxTime
    BY <1>2, DeliveryAssumption DEF LaterInTx
  <1>4. /\ reservations' = deleteReservations({r}) /\ r \in HeldBy(p.agent)
        /\ now' = t /\ agents' = agents /\ scopeToken' = scopeToken /\ links' = links
    BY DEF CommitInbox, ClockOnly
  <1>5. CASE messages' = releaseReservations(messages, {r})
    <2>1. messages' \in [MessageIds -> Message]
      BY <1>2, <1>5, ReleaseType
    <2>2. \A m \in MessageIds : HeldRow(messages'[m], reservations')
      BY <1>2, <1>4, <1>5, ReleaseHeld
    <2>3. \A m \in MessageIds : InTime(messages'[m]) /\ messages'[m].delivered_at <= now
      BY <1>2, <1>5, ReleaseInTime
    <2>4. \A m \in MessageIds : InTime(messages'[m]) /\ messages'[m].delivered_at <= t
      BY <1>2, <1>3, <2>1, <2>3 DEF Message
    <2> QED BY <1>3, <1>4, <2>1, <2>2, <2>4, DeleteFenced, InboxFrame
  <1>6. CASE messages' = Committed(msgs, p, r, t)
    <2>1. ASSUME NEW m \in MessageIds
          PROVE  /\ messages'[m] \in Message
                 /\ HeldRow(messages'[m], reservations')
                 /\ InTime(messages'[m]) /\ messages'[m].delivered_at <= t
      <3>1. CASE msgs[m].state = "reserved" /\ msgs[m].reservation_id = r
        <4>1. msgs[m].to = p.agent
          BY <1>1, <1>4, <3>1 DEF HeldRow, HeldBy
        <4>2. PICK d \in Nat : /\ d = IF msgs[m].delivered_at = 0 THEN t
                                                                 ELSE msgs[m].delivered_at
          BY <1>1, <1>3 DEF Message
        <4>3. messages'[m] = [msgs[m] EXCEPT !.state = "delivered", !.reservation_id = None,
                                             !.delivered_at = d]
          BY <1>6, <3>1, <4>1, <4>2 DEF Committed
        <4>4. ~Overdue(msgs[m], now)
          BY <1>1, <3>1 DEF Active
        <4>5. d # 0 /\ d <= t
          BY <1>1, <1>2, <1>3, <4>2 DEF Message
        <4>6. msgs[m].expires_at # 0 => d < msgs[m].expires_at + TxTime
          BY <1>1, <1>2, <1>3, <4>2, <4>4, DeliveryAssumption DEF Message, Overdue, InTime
        <4>7. messages'[m] \in Message
          <5>1. \A e \in Nat : [msgs[m] EXCEPT !.state = "delivered", !.reservation_id = None,
                                               !.delivered_at = e] \in Message
            BY <1>1 DEF Message, Active
          <5> QED BY <4>2, <4>3, <5>1
        <4>8. HeldRow(messages'[m], reservations')
          BY <1>1, <4>3 DEF HeldRow, Message
        <4>9. InTime(messages'[m])
          BY <1>1, <3>1, <4>2, <4>3, <4>5, <4>6 DEF InTime, Message
        <4> QED BY <1>1, <4>3, <4>5, <4>7, <4>8, <4>9 DEF Message
      <3>2. CASE ~(msgs[m].state = "reserved" /\ msgs[m].reservation_id = r)
        <4>1. messages'[m] = msgs[m]
          BY <1>6, <3>2 DEF Committed
        <4>2. HeldRow(msgs[m], deleteReservations({r}))
          BY <1>1, <1>2, <3>2 DEF HeldRow, deleteReservations
        <4> QED BY <1>1, <1>2, <1>3, <1>4, <4>1, <4>2 DEF Message
      <3> QED BY <3>1, <3>2
    <2>2. messages' \in [MessageIds -> Message]
      BY <1>6, <2>1 DEF Committed
    <2> QED BY <1>3, <1>4, <2>1, <2>2, DeleteFenced, InboxFrame
  <1> QED BY <1>5, <1>6 DEF CommitInbox

(* Only a delivered message that has not expired is acknowledged.          *)
LEMMA AcknowledgePreserves ==
  ASSUME DeliveryInv, NEW p \in KnownPrincipals, NEW S \in SUBSET MessageIds,
         NEW t \in LaterInTx, AcknowledgeMessages(p, S, t)
  PROVE  DeliveryInv'
  <1> DEFINE msgs == expireMessages(messages, now)
  <1>1. /\ msgs \in [MessageIds -> Message]
        /\ \A m \in MessageIds : /\ HeldRow(msgs[m], reservations)
                                 /\ InTime(msgs[m]) /\ msgs[m].delivered_at <= now
                                 /\ msgs[m].state \in Active => ~Overdue(msgs[m], now)
    BY ExpiredRows
  <1>2. now \in Nat \ {0} /\ reservations \in [ReservationIds -> Reservation]
    BY DEF DeliveryInv, DeliveryTypeOK, RegistryTypeOK
  <1>3. t \in Nat \ {0} /\ now <= t /\ t <= now + TxTime
    BY <1>2, DeliveryAssumption DEF LaterInTx
  <1>4. /\ reservations' = reservations
        /\ now' = t /\ agents' = agents /\ scopeToken' = scopeToken /\ links' = links
        /\ messages' = [m \in MessageIds |->
             IF m \in S /\ msgs[m].to = p.agent /\ msgs[m].state = "delivered"
             THEN [msgs[m] EXCEPT !.state = "acknowledged", !.acknowledged_at = t]
             ELSE msgs[m]]
    BY DEF AcknowledgeMessages, ClockOnly
  <1>5. ASSUME NEW m \in MessageIds
        PROVE  /\ messages'[m] \in Message
               /\ HeldRow(messages'[m], reservations)
               /\ InTime(messages'[m]) /\ messages'[m].delivered_at <= t
    <2>1. CASE messages'[m] = msgs[m]
      BY <1>1, <1>2, <1>3, <2>1 DEF Message
    <2>2. CASE /\ msgs[m].state = "delivered"
               /\ messages'[m] = [msgs[m] EXCEPT !.state = "acknowledged",
                                                 !.acknowledged_at = t]
      <3>1. messages'[m] \in Message
        BY <1>1, <1>3, <2>2 DEF Message, Terminal
      <3>2. HeldRow(messages'[m], reservations)
        BY <1>1, <2>2 DEF HeldRow, Message
      <3>3. ~Overdue(msgs[m], now)
        BY <1>1, <2>2 DEF Active
      <3>4. InTime(messages'[m])
        BY <1>1, <1>2, <1>3, <2>2, <3>3, DeliveryAssumption DEF InTime, Overdue, Message
      <3>5. messages'[m].delivered_at = msgs[m].delivered_at
        BY <1>1, <2>2 DEF Message
      <3> QED BY <1>1, <1>2, <1>3, <3>1, <3>2, <3>4, <3>5 DEF Message
    <2> QED BY <1>4, <2>1, <2>2
  <1>6. messages' \in [MessageIds -> Message]
    BY <1>4, <1>5
  <1>7. ReservationFencing'
    BY <1>4 DEF DeliveryInv, ReservationFencing, Held
  <1> QED BY <1>2, <1>3, <1>4, <1>5, <1>6, <1>7, InboxFrame

(* What a human reads is delivered and acknowledged at that instant.       *)
LEMMA ReadPreserves ==
  ASSUME DeliveryInv, NEW h \in Humans, NEW S \in SUBSET MessageIds,
         ReadHumanMessages(h, S)
  PROVE  DeliveryInv'
  <1> DEFINE msgs == expireMessages(messages, now)
  <1>1. /\ msgs \in [MessageIds -> Message]
        /\ \A m \in MessageIds : /\ HeldRow(msgs[m], reservations)
                                 /\ InTime(msgs[m]) /\ msgs[m].delivered_at <= now
                                 /\ msgs[m].state \in Active => ~Overdue(msgs[m], now)
    BY ExpiredRows
  <1>2. now \in Nat \ {0}
    BY DEF DeliveryInv, DeliveryTypeOK, RegistryTypeOK
  <1>3. ASSUME NEW m \in MessageIds
        PROVE  /\ messages'[m] \in Message
               /\ HeldRow(messages'[m], reservations)
               /\ InTime(messages'[m]) /\ messages'[m].delivered_at <= now
    <2>1. CASE messages'[m] = msgs[m]
      BY <1>1, <2>1
    <2>2. ASSUME NEW d \in Nat,
                 d = IF msgs[m].delivered_at = 0 THEN now ELSE msgs[m].delivered_at,
                 msgs[m].state \in {"queued", "delivered"},
                 messages'[m] = [msgs[m] EXCEPT !.state = "acknowledged",
                                   !.acknowledged_at = now, !.delivered_at = d]
          PROVE  /\ messages'[m] \in Message
                 /\ HeldRow(messages'[m], reservations)
                 /\ InTime(messages'[m]) /\ messages'[m].delivered_at <= now
      <3>1. \A t, e \in Nat : [msgs[m] EXCEPT !.state = "acknowledged",
                              !.acknowledged_at = t, !.delivered_at = e] \in Message
        <4>1. msgs[m] \in Message
          BY <1>1
        <4> QED BY <4>1 DEF Message, Terminal
      <3>2. messages'[m] \in Message
        <4>1. now \in Nat
          BY <1>2
        <4>2. d \in Nat
          BY <2>2
        <4>3. [msgs[m] EXCEPT !.state = "acknowledged", !.acknowledged_at = now,
                              !.delivered_at = d] \in Message
          BY <3>1, <4>1, <4>2
        <4> QED BY <2>2, <4>3, Zenon
      <3>3. HeldRow(messages'[m], reservations)
        BY <1>1, <2>2 DEF HeldRow, Message
      <3>4. ~Overdue(msgs[m], now)
        BY <1>1, <2>2 DEF Active
      <3>5. d # 0 /\ d <= now
        BY <1>1, <1>2, <2>2 DEF Message
      <3>6. InTime(messages'[m]) /\ messages'[m].delivered_at <= now
        BY <1>1, <1>2, <2>2, <3>4, <3>5, DeliveryAssumption DEF InTime, Overdue, Message
      <3> QED BY <3>2, <3>3, <3>6
    <2>3. (IF msgs[m].delivered_at = 0 THEN now ELSE msgs[m].delivered_at) \in Nat
      BY <1>1, <1>2 DEF Message
    <2> QED BY <2>1, <2>2, <2>3 DEF ReadHumanMessages
  <1>4. messages' \in [MessageIds -> Message]
    <2>1. messages' = [m \in MessageIds |-> messages'[m]]
      BY DEF ReadHumanMessages
    <2> QED BY <1>3, <2>1
  <1> QED BY <1>3, <1>4, RowsOnly DEF ReadHumanMessages

(* Retention empties rows; an empty row is neither held nor delivered.     *)
LEMMA PrunePreserves ==
  ASSUME DeliveryInv, NEW token, NEW before, NEW execute, NEW keep,
         PruneMessages(token, before, execute, keep)
  PROVE  DeliveryInv'
  <1> DEFINE msgs == expireMessages(messages, now)
  <1>1. /\ msgs \in [MessageIds -> Message]
        /\ \A m \in MessageIds : /\ HeldRow(msgs[m], reservations)
                                 /\ InTime(msgs[m]) /\ msgs[m].delivered_at <= now
    BY ExpiredRows
  <1>2. now \in Nat \ {0}
    BY DEF DeliveryInv, DeliveryTypeOK, RegistryTypeOK
  <1>3. /\ NoRow("removed") \in Message
        /\ HeldRow(NoRow("removed"), reservations)
        /\ InTime(NoRow("removed")) /\ NoRow("removed").delivered_at <= now
    BY <1>2 DEF NoRow, Message, Modes, HeldRow, InTime
  <1>4. \A m \in MessageIds : messages'[m] \in {msgs[m], NoRow("removed")}
    BY DEF PruneMessages
  <1>5. messages' \in [MessageIds -> Message]
    <2>1. messages' = [m \in MessageIds |-> messages'[m]]
      BY DEF PruneMessages
    <2> QED BY <1>1, <1>3, <1>4, <2>1
  <1>6. \A m \in MessageIds : /\ HeldRow(messages'[m], reservations)
                              /\ InTime(messages'[m]) /\ messages'[m].delivered_at <= now
    BY <1>1, <1>3, <1>4
  <1> QED BY <1>5, <1>6, RowsOnly DEF PruneMessages

(* Every inbox operation preserves the invariant.                          *)
LEMMA InboxPreserves ==
  ASSUME DeliveryInv, InboxNext
  PROVE  DeliveryInv'
  <1>1. ASSUME NEW p \in KnownPrincipals, NEW m \in MessageIds, Receipt(p, m)
        PROVE  DeliveryInv'
    BY <1>1, ExpiredRows, RowsOnly DEF Receipt
  <1>2. ASSUME NEW p \in KnownPrincipals, NEW in \in SendInputs, SendMessage(p, in)
        PROVE  DeliveryInv'
    <2>1. p.agent \in Participants
      BY DEF KnownPrincipals, Participants
    <2> QED BY <1>2, <2>1, SendPreserves DEF SendMessage
  <1> QED BY <1>1, <1>2, ReservePreserves, CommitPreserves, ReleasePreserves,
             AcknowledgePreserves, PrunePreserves DEF InboxNext

(* So does what humans do.                                                 *)
LEMMA HumanPreserves ==
  ASSUME DeliveryInv, HumanNext
  PROVE  DeliveryInv'
  <1>1. Humans \subseteq Participants
    BY DEF Participants
  <1> QED BY <1>1, SendPreserves, ReadPreserves DEF HumanNext, SendHumanMessage

(* The empty scope satisfies the invariant.                                *)
LEMMA InitInv ==
  ASSUME DeliveryInit
  PROVE  DeliveryInv
  <1> USE DEF DeliveryInit, RegistryInit
  <1>1. RegistryTypeOK /\ RotationRevokes
    BY DEF RegistryTypeOK, RotationRevokes, NoAgent, Agent, Lifecycles
  <1>2. \A m \in MessageIds : /\ messages[m] \in Message
                              /\ HeldRow(messages[m], reservations)
                              /\ InTime(messages[m]) /\ messages[m].delivered_at <= now
    BY DEF NoRow, Message, Modes, HeldRow, InTime
  <1>3. reservations \in [ReservationIds -> Reservation]
    BY DEF NoReservation, Reservation
  <1>4. Held = {}
    BY DEF Held, NoReservation
  <1>5. messages \in [MessageIds -> Message]
    BY <1>2
  <1> QED BY <1>1, <1>2, <1>3, <1>4, <1>5
          DEF DeliveryInv, DeliveryTypeOK, ReservedIffHeld, ReservationFencing, DeliveredInTime

(* The invariant is inductive.                                             *)
LEMMA InvPreserved ==
  ASSUME DeliveryInv, [DeliveryNext]_vars
  PROVE  DeliveryInv'
  <1>1. CASE UNCHANGED vars
    <2>1. /\ now' = now /\ agents' = agents /\ scopeToken' = scopeToken /\ links' = links
          /\ messages' = messages /\ reservations' = reservations
      BY <1>1 DEF vars, registryVars, deliveryVars
    <2> QED BY <2>1 DEF DeliveryInv, DeliveryTypeOK, RegistryTypeOK, ReservedIffHeld, HeldRow,
                        ReservationFencing, Held, RotationRevokes, DeliveredInTime
  <1> QED BY <1>1, RegistryPreserves, InboxPreserves, HumanPreserves DEF DeliveryNext

(* The inductive invariant holds in every reachable state.                 *)
LEMMA InvHolds == DeliverySpec => []DeliveryInv
  BY InitInv, InvPreserved, PTL DEF DeliverySpec

(* Types: every transaction of bus/store.go leaves well-formed tables.     *)
THEOREM TypeCorrectness == DeliverySpec => []DeliveryTypeOK
  BY InvHolds, PTL DEF DeliveryInv

(* A message is reserved exactly while a reservation row of its recipient  *)
(* holds it.                                                               *)
THEOREM ReservationsConsistent == DeliverySpec => []ReservedIffHeld
  BY InvHolds, PTL DEF DeliveryInv

(* Only the execution that made a reservation can commit or release it.    *)
THEOREM Fencing == DeliverySpec => []ReservationFencing
  BY InvHolds, PTL DEF DeliveryInv

(* Every reservation is sound: typed, paired with its messages, fenced.    *)
THEOREM ReservationsAreSound == DeliverySpec => []ReservationsSound
  BY InvHolds, PTL DEF DeliveryInv, ReservationsSound

(* A rotated scope token leaves no execution of the old token alive.       *)
THEOREM RotationIsComplete == DeliverySpec => []RotationRevokes
  BY InvHolds, PTL DEF DeliveryInv

(* Nothing is delivered or acknowledged after it expired.                  *)
THEOREM NoLateDelivery == DeliverySpec => []DeliveredInTime
  BY InvHolds, PTL DEF DeliveryInv

-----------------------------------------------------------------------------
(* A registration makes a new execution, a heartbeat needs a live lease.   *)
LEMMA NoRevival ==
  ASSUME DeliveryInv, DeliveryNext, NEW p \in KnownPrincipals,
         p.execution <= agents[p.agent].execution_id, ~requireCurrentExecution(p)
  PROVE  ~requireCurrentExecution(p)'
  <1> USE DEF requireCurrentExecution
  <1>1. /\ p.agent \in Agents /\ p.execution \in Nat
        /\ agents \in [Agents -> Agent] /\ now \in Nat
    BY RegistryAssumption DEF KnownPrincipals, DeliveryInv, DeliveryTypeOK, RegistryTypeOK
  <1>2. CASE agents' = agents /\ now' \in Nat /\ now' >= now
    BY <1>1, <1>2 DEF Agent
  <1>3. ASSUME NEW token \in 1..MaxTokens, NEW a \in Agents,
               NEW leaseMS \in LeaseTimes, NEW connectTo \in SUBSET Agents,
               NEW workspace \in BOOLEAN,
               RegisterAgent(token, a, leaseMS, connectTo, workspace)
        PROVE  ~requireCurrentExecution(p)'
    <2>1. /\ now' = now
          /\ agents'[a].execution_id = agents[a].execution_id + 1
          /\ \A b \in Agents \ {a} : agents'[b] = agents[b]
      BY <1>1, <1>3 DEF RegisterAgent, RegisterRow, Agent
    <2> QED BY <1>1, <2>1 DEF Agent
  <1>4. ASSUME NEW q \in KnownPrincipals, NEW lifecycle \in ReportedLifecycles,
               NEW leaseMS \in LeaseTimes, Heartbeat(q, lifecycle, leaseMS)
        PROVE  ~requireCurrentExecution(p)'
    <2>1. q.agent \in Agents
      BY DEF KnownPrincipals
    <2>2. /\ now' = now /\ requireCurrentExecution(q)
          /\ agents'[q.agent].execution_id = agents[q.agent].execution_id
          /\ \A b \in Agents \ {q.agent} : agents'[b] = agents[b]
      BY <1>1, <1>4, <2>1 DEF Heartbeat, HeartbeatRow, Agent
    <2> QED BY <1>1, <2>2
  <1>5. ASSUME NEW q \in KnownPrincipals, RetireAgent(q)
        PROVE  ~requireCurrentExecution(p)'
    <2>1. q.agent \in Agents
      BY DEF KnownPrincipals
    <2>2. /\ now' = now /\ agents'[q.agent].lease_expires_at = 0
          /\ \A b \in Agents \ {q.agent} : agents'[b] = agents[b]
      BY <1>1, <1>5, <2>1 DEF RetireAgent, RetireRow, Agent
    <2> QED BY <1>1, <2>2
  <1>6. CASE RotateScopeToken
    <2>1. /\ now' = now
          /\ agents'[p.agent] = [agents[p.agent] EXCEPT !.lifecycle = "offline",
                                                        !.lease_expires_at = 0]
      BY <1>1, <1>6, Zenon DEF RotateScopeToken, RotateRows
    <2>2. agents'[p.agent].lease_expires_at = 0
      BY <1>1, <2>1 DEF Agent
    <2> QED BY <1>1, <2>1, <2>2
  <1>7. CASE Tick
    BY <1>1, <1>2, <1>7 DEF Tick
  <1>8. CASE \E token \in 1..MaxTokens, a, b \in Agents : LinkAgents(token, a, b)
    BY <1>1, <1>2, <1>8 DEF LinkAgents
  <1>9. CASE InboxNext \/ HumanNext
    <2>1. agents' = agents
      BY <1>9, Zenon DEF InboxNext, SendMessage, Receipt, ReserveInbox, CommitInbox,
            ReleaseInbox, AcknowledgeMessages, PruneMessages, registryVars, ClockOnly,
            HumanNext, SendHumanMessage, ReadHumanMessages
    <2>2. now' = now \/ now' \in LaterInTx
      BY <1>9, Zenon DEF InboxNext, SendMessage, Receipt, ReserveInbox, CommitInbox,
            ReleaseInbox, AcknowledgeMessages, PruneMessages, registryVars, ClockOnly,
            HumanNext, SendHumanMessage, ReadHumanMessages
    <2>3. now' \in Nat /\ now' >= now
      BY <1>1, <2>2, DeliveryAssumption DEF LaterInTx
    <2> QED BY <1>2, <2>1, <2>3
  <1> HIDE DEF requireCurrentExecution
  <1> QED BY <1>3, <1>4, <1>5, <1>6, <1>7, <1>8, <1>9 DEF DeliveryNext, RegistryNext

(* An execution that lost its authority, by replacement, retirement,       *)
(* rotation or the end of its lease, never gets it back.                   *)
THEOREM AuthorityIsFinal == DeliverySpec => AuthorityNeverReturns
  <1>1. DeliveryInv /\ [DeliveryNext]_vars
        => [\A p \in KnownPrincipals :
              p.execution <= agents[p.agent].execution_id /\ ~requireCurrentExecution(p)
                => ~requireCurrentExecution(p)']_registryVars
    <2>1. CASE UNCHANGED vars
      BY <2>1 DEF vars
    <2> QED BY <2>1, NoRevival
  <1> QED BY <1>1, InvHolds, PTL DEF DeliverySpec, AuthorityNeverReturns

-----------------------------------------------------------------------------
(* Refinement of the mailbox, row by row.                                  *)

(* The moves a transaction makes with a row, on the tables' own columns.   *)
Expires(x, y) == /\ x.state \in Active /\ y.state = "expired" /\ y.reservation_id = None
                 /\ y.to = x.to
GivenBack(x, y) == /\ x.state = "reserved" /\ y.reservation_id = None
                   /\ y.state = PhaseOf(x) /\ y.to = x.to
AddedRow(x, y) == /\ x.state = "absent"
                  /\ \/ y.state = "queued" /\ y.to \in Agents \cup Humans
                     \/ y.state = "acknowledged" /\ y.to \in RemotePrincipals
Reserved(x, y) == /\ x.state \in Active /\ y.state = "reserved" /\ PhaseOf(y) = PhaseOf(x)
                  /\ y.reservation_id # x.reservation_id /\ y.to = x.to
Finished(x, y) == /\ y.state = "acknowledged" /\ y.to = x.to
                  /\ \/ x.state = "delivered" /\ x.to \in Agents
                     \/ x.state \in {"queued", "delivered"} /\ x.to \in Humans
Kept(x, y) == /\ PhaseOf(y) = PhaseOf(x) /\ y.reservation_id = x.reservation_id
              /\ y.to = x.to

(* expireMessages leaves a row alone or expires it.                        *)
LEMMA ExpireRow ==
  ASSUME NEW msgs \in [MessageIds -> Message], NEW t, NEW m \in MessageIds
  PROVE  \/ expireMessages(msgs, t)[m] = msgs[m]
         \/ Expires(msgs[m], expireMessages(msgs, t)[m])
  BY DEF expireMessages, Expires, Message

(* A release leaves a row alone or gives it back.                          *)
LEMMA ReleaseRow ==
  ASSUME NEW msgs \in [MessageIds -> Message], NEW R, NEW m \in MessageIds
  PROVE  \/ releaseReservations(msgs, R)[m] = msgs[m]
         \/ GivenBack(msgs[m], releaseReservations(msgs, R)[m])
  BY DEF releaseReservations, GivenBack, PhaseOf, Message

(* Each of the moves is one of the mailbox; a reserved row is an agent's,  *)
(* in an open phase, under the hold of its reservation.                    *)
LEMMA RowMoves ==
  ASSUME DeliveryInv, DeliveryInv', NEW m \in MessageIds,
         LET x == messages[m]
             y == messages'[m] IN
         \/ y = x
         \/ Expires(x, y) \/ GivenBack(x, y) \/ AddedRow(x, y) \/ Reserved(x, y)
         \/ x.state = "reserved" /\ y.state = "delivered" /\ y.to = x.to
         \/ Finished(x, y)
         \/ x.state \in Active \cup Terminal /\ y.state = "removed"
         \/ Kept(x, y)
  PROVE  Abstract!Move(m)
  <1>1. /\ messages[m] \in Message /\ messages'[m] \in Message
        /\ HeldRow(messages[m], reservations) /\ HeldRow(messages'[m], reservations')
    BY DEF DeliveryInv, DeliveryTypeOK, ReservedIffHeld
  <1>2. None \notin ReservationIds /\ Agents \cap Humans = {}
        /\ RemotePrincipals \cap (Agents \cup Humans) = {}
    BY DeliveryAssumption
  <1>3. messages[m].state = "reserved" => messages[m].to \in Agents
    BY <1>1 DEF HeldRow, DeliveryInv, ReservationFencing, Held
  <1>4. messages'[m].state = "reserved" => messages'[m].to \in Agents
    BY <1>1 DEF HeldRow, DeliveryInv, ReservationFencing, Held
  <1> USE DEF Abstract!Move, Abstract!Accept, Abstract!StoreRemote, Abstract!Hold,
              Abstract!Deliver, Abstract!GiveBack, Abstract!Acknowledge, Abstract!Expire,
              Abstract!Forget, Abstract!Read, Abstract!Goes, Abstract!Free, Abstract!Open,
              Abstract!Keeps, Abstract!Kinds
  <1>5. \A x : KindOf(x) \in {"none", "agent", "human", "remote"}
    BY DEF KindOf
  <1>6. ASSUME Expires(messages[m], messages'[m]) PROVE Abstract!Move(m)
    BY <1>1, <1>2, <1>5, <1>6 DEF Expires, PhaseOf, HeldRow, Active, Message, KindOf
  <1>7. ASSUME GivenBack(messages[m], messages'[m]) PROVE Abstract!Move(m)
    BY <1>1, <1>2, <1>3, <1>7 DEF GivenBack, PhaseOf, HeldRow, KindOf
  <1>8. ASSUME AddedRow(messages[m], messages'[m]) PROVE Abstract!Move(m)
    BY <1>1, <1>2, <1>8 DEF AddedRow, PhaseOf, HeldRow, KindOf
  <1>9. ASSUME Reserved(messages[m], messages'[m]) PROVE Abstract!Move(m)
    BY <1>1, <1>2, <1>4, <1>9 DEF Reserved, PhaseOf, HeldRow, KindOf, Active
  <1>10. ASSUME messages[m].state = "reserved", messages'[m].state = "delivered",
                messages'[m].to = messages[m].to
         PROVE  Abstract!Move(m)
    BY <1>1, <1>2, <1>3, <1>10 DEF PhaseOf, HeldRow, KindOf
  <1>11. ASSUME Finished(messages[m], messages'[m]) PROVE Abstract!Move(m)
    BY <1>1, <1>2, <1>11 DEF Finished, PhaseOf, HeldRow, KindOf
  <1>12. ASSUME messages[m].state \in Active \cup Terminal, messages'[m].state = "removed"
         PROVE  Abstract!Move(m)
    BY <1>1, <1>2, <1>12 DEF PhaseOf, HeldRow, Active, Terminal
  <1>13. ASSUME Kept(messages[m], messages'[m]) PROVE Abstract!Move(m)
    BY <1>13 DEF Kept, KindOf
  <1>14. ASSUME messages'[m] = messages[m] PROVE Abstract!Move(m)
    BY <1>14
  <1> HIDE DEF Abstract!Move
  <1> QED BY <1>6, <1>7, <1>8, <1>9, <1>10, <1>11, <1>12, <1>13, <1>14

(* Every transaction moves every row along the life cycle.                 *)
LEMMA StepMoves ==
  ASSUME DeliveryInv, DeliveryInv', DeliveryNext, NEW m \in MessageIds
  PROVE  Abstract!Move(m)
  <1> DEFINE msgs == expireMessages(messages, now)
  <1>1. /\ messages \in [MessageIds -> Message] /\ messages' \in [MessageIds -> Message]
        /\ reservations \in [ReservationIds -> Reservation]
        /\ HeldRow(messages[m], reservations)
    BY DEF DeliveryInv, DeliveryTypeOK, ReservedIffHeld
  <1>2. /\ msgs \in [MessageIds -> Message]
        /\ HeldRow(msgs[m], reservations)
        /\ msgs[m] = messages[m] \/ Expires(messages[m], msgs[m])
    BY <1>1, ExpireRow, ExpiredRows
  <1>3. CASE messages' = messages
    BY <1>3, RowMoves
  <1>4. CASE \E R : messages' = releaseReservations(messages, R)
    BY <1>1, <1>4, ReleaseRow, RowMoves
  <1>5. CASE messages' = msgs
    BY <1>2, <1>5, RowMoves
  <1>6. CASE \E R : messages' = releaseReservations(msgs, R)
    <2>1. PICK R : messages' = releaseReservations(msgs, R)
      BY <1>6
    <2>2. messages'[m] = msgs[m] \/ GivenBack(msgs[m], messages'[m])
      BY <1>2, <2>1, ReleaseRow
    <2>3. CASE msgs[m] = messages[m]
      BY <2>2, <2>3, RowMoves
    <2>4. CASE Expires(messages[m], msgs[m])
      BY <2>2, <2>4, RowMoves DEF GivenBack, Expires
    <2> QED BY <1>2, <2>3, <2>4
  <1>7. CASE RegistryNext
    BY <1>3, <1>4, <1>7, Zenon DEF RegistryNext, RegisterAgent, Heartbeat, RetireAgent, RotateScopeToken,
          deliveryVars
  <1>8. ASSUME NEW sender \in Participants, NEW in \in SendInputs, sendMessageTx(sender, in)
        PROVE  Abstract!Move(m)
    <2>1. ASSUME NEW id \in MessageIds, messages[id].state = "absent",
                 messages' = InsertMessage(msgs, id, sender, in, now)
          PROVE  Abstract!Move(m)
      <3>1. CASE m = id
        <4>1. messages'[m] = NewMessage(sender, in, now) /\ in.to \in Participants
          BY <2>1, <3>1 DEF InsertMessage, SendInputs
        <4>2. AddedRow(messages[m], messages'[m])
          BY <2>1, <3>1, <4>1 DEF NewMessage, AddedRow, Participants
        <4> QED BY <4>2, RowMoves
      <3>2. CASE m # id
        <4>1. \/ messages'[m] = msgs[m]
              \/ messages'[m] = [msgs[m] EXCEPT !.response_message_id = id]
          BY <2>1, <3>2 DEF InsertMessage
        <4>2. /\ messages'[m].state = msgs[m].state
              /\ messages'[m].reservation_id = msgs[m].reservation_id
              /\ messages'[m].delivered_at = msgs[m].delivered_at
              /\ messages'[m].to = msgs[m].to
          BY <1>2, <4>1 DEF Message
        <4> QED BY <1>2, <4>2, RowMoves DEF PhaseOf, Expires, Kept
      <3> QED BY <3>1, <3>2
    <2> QED BY <1>5, <1>8, <2>1 DEF sendMessageTx
  <1>9. ASSUME NEW p \in KnownPrincipals, NEW limit \in InboxLimits, ReserveInbox(p, limit)
        PROVE  Abstract!Move(m)
    <2> DEFINE expired  == {r \in Held : reservations[r].expires_at <= now}
               released == releaseReservations(msgs, expired)
    <2>1. ASSUME NEW S \in SUBSET Available(released, p.agent), NEW id \in ReservationIds,
                 reservations[id].row = "unused",
                 messages' = [n \in MessageIds |->
                   IF n \in S
                   THEN [released[n] EXCEPT !.state = "reserved", !.reservation_id = id]
                   ELSE released[n]]
          PROVE  Abstract!Move(m)
      <3>1. /\ released[m] \in Message
            /\ released[m] = msgs[m] \/ GivenBack(msgs[m], released[m])
        BY <1>2, ReleaseType, ReleaseRow
      <3>2. released[m] = messages[m] \/ GivenBack(messages[m], released[m])
              \/ Expires(messages[m], released[m])
        BY <1>2, <3>1 DEF Expires, GivenBack
      <3>3. CASE m \in S
        <4>1. /\ released[m].state \in {"queued", "delivered"}
              /\ messages'[m] = [released[m] EXCEPT !.state = "reserved", !.reservation_id = id]
          BY <2>1, <3>3 DEF Available
        <4>2. /\ messages'[m].state = "reserved" /\ messages'[m].reservation_id = id
              /\ messages'[m].delivered_at = released[m].delivered_at
              /\ messages'[m].to = messages[m].to
          BY <3>1, <3>2, <4>1 DEF Message, Expires, GivenBack
        <4>3. messages[m].reservation_id # id
          BY <1>1, <2>1, DeliveryAssumption DEF HeldRow
        <4>4. released[m].delivered_at = messages[m].delivered_at
          BY <1>1, <1>2 DEF releaseReservations, expireMessages, Message
        <4>5. InTime(released[m]) /\ InTime(messages[m])
          <5>1. \A n \in MessageIds : InTime(messages[n])
            BY DEF DeliveryInv, DeliveredInTime
          <5>2. InTime(msgs[m])
            BY ExpiredRows
          <5> QED BY <1>2, <5>1, <5>2, ReleaseInTime
        <4>6. messages[m].state \in Active /\ PhaseOf(messages'[m]) = PhaseOf(messages[m])
          <5>1. CASE released[m] = messages[m]
            BY <4>1, <4>2, <4>4, <4>5, <5>1 DEF PhaseOf, Active, InTime
          <5>2. CASE GivenBack(messages[m], released[m])
            BY <4>1, <4>2, <4>4, <4>5, <5>2 DEF PhaseOf, Active, GivenBack
          <5>3. CASE Expires(messages[m], released[m])
            BY <4>1, <5>3 DEF Expires
          <5> QED BY <3>2, <5>1, <5>2, <5>3
        <4> QED BY <4>2, <4>3, <4>6, RowMoves DEF Reserved
      <3>4. CASE m \notin S
        BY <2>1, <3>2, <3>4, RowMoves
      <3> QED BY <3>3, <3>4
    <2> QED BY <1>6, <1>9, <2>1, Zenon DEF ReserveInbox, OldestFirst
  <1>10. ASSUME NEW p \in KnownPrincipals, NEW r \in ReservationIds, NEW t \in LaterInTx,
                CommitInbox(p, r, t)
         PROVE  Abstract!Move(m)
    <2>1. CASE messages' = Committed(msgs, p, r, t)
      <3>1. CASE messages'[m] = msgs[m]
        BY <1>2, <3>1, RowMoves
      <3>2. CASE messages'[m] # msgs[m]
        <4>1. msgs[m].state = "reserved"
          BY <2>1, <3>2 DEF Committed
        <4>2. messages'[m].state = "delivered" /\ messages'[m].to = msgs[m].to
          BY <1>2, <2>1, <3>2 DEF Committed, Message
        <4>3. msgs[m] = messages[m]
          BY <1>2, <4>1 DEF Expires
        <4> QED BY <4>1, <4>2, <4>3, RowMoves
      <3> QED BY <3>1, <3>2
    <2> QED BY <1>4, <1>10, <2>1 DEF CommitInbox
  <1>11. ASSUME NEW p \in KnownPrincipals, NEW S \in SUBSET MessageIds, NEW t \in LaterInTx,
                AcknowledgeMessages(p, S, t)
         PROVE  Abstract!Move(m)
    <2>1. CASE messages'[m] = msgs[m]
      BY <1>2, <2>1, RowMoves
    <2>2. CASE messages'[m] # msgs[m]
      <3>1. msgs[m].state = "delivered" /\ msgs[m].to \in Agents
        <4>1. p.agent \in Agents
          BY <1>11 DEF KnownPrincipals
        <4> QED BY <1>11, <2>2, <4>1 DEF AcknowledgeMessages
      <3>2. messages'[m].state = "acknowledged" /\ messages'[m].to = msgs[m].to
        BY <1>2, <1>11, <2>2 DEF AcknowledgeMessages, Message
      <3>3. msgs[m] = messages[m]
        BY <1>2, <3>1 DEF Expires
      <3> QED BY <3>1, <3>2, <3>3, RowMoves DEF Finished
    <2> QED BY <2>1, <2>2
  <1>12. ASSUME NEW token, NEW before, NEW execute,
                PruneMessages(token, before, execute, {})
         PROVE  Abstract!Move(m)
    <2>1. CASE messages'[m] = msgs[m]
      BY <1>2, <2>1, RowMoves
    <2>2. CASE messages'[m] # msgs[m]
      <3>1. m \in retentionMessageCandidates(msgs, before) /\ messages'[m] = NoRow("removed")
        BY <1>12, <2>2 DEF PruneMessages
      <3>2. msgs[m].state \in Terminal
        BY <3>1 DEF retentionMessageCandidates, terminalBefore, RetiredPair, Terminal
      <3>3. messages[m].state \in Active \cup Terminal
        BY <1>2, <3>2 DEF Expires
      <3> QED BY <3>1, <3>3, RowMoves DEF NoRow
    <2> QED BY <2>1, <2>2
  <1>13. ASSUME NEW p, NEW n \in MessageIds, Receipt(p, n)
         PROVE  Abstract!Move(m)
    BY <1>5, <1>13 DEF Receipt
  <1>14. ASSUME NEW p, NEW r \in ReservationIds, ReleaseInbox(p, r)
         PROVE  Abstract!Move(m)
    BY <1>6, <1>14 DEF ReleaseInbox
  <1>15. ASSUME NEW h \in Humans, NEW S \in SUBSET MessageIds, ReadHumanMessages(h, S)
         PROVE  Abstract!Move(m)
    <2>1. CASE messages'[m] = msgs[m]
      BY <1>2, <2>1, RowMoves
    <2>2. CASE messages'[m] # msgs[m]
      <3>1. msgs[m].state \in {"queued", "delivered"} /\ msgs[m].to \in Humans
        BY <1>15, <2>2 DEF ReadHumanMessages
      <3>2. messages'[m].state = "acknowledged" /\ messages'[m].to = msgs[m].to
        BY <1>2, <1>15, <2>2 DEF ReadHumanMessages, Message
      <3>3. msgs[m] = messages[m]
        BY <1>2, <3>1 DEF Expires
      <3> QED BY <3>1, <3>2, <3>3, RowMoves DEF Finished
    <2> QED BY <2>1, <2>2
  <1>16. CASE InboxNext
    <2>1. \A p \in KnownPrincipals : p.agent \in Participants
      BY DEF KnownPrincipals, Participants
    <2> QED BY <1>8, <1>9, <1>10, <1>11, <1>12, <1>13, <1>14, <1>16, <2>1
            DEF InboxNext, SendMessage
  <1>17. CASE HumanNext
    BY <1>8, <1>15, <1>17 DEF HumanNext, SendHumanMessage, Participants
  <1> QED BY <1>7, <1>16, <1>17 DEF DeliveryNext

(* Delivery implements the mailbox: what one message goes through is the   *)
(* abstract life cycle, whatever the executions, leases, reservations and  *)
(* the clock do.                                                           *)
THEOREM DeliveryImplementsMailbox == DeliverySpec => ImplementsMailbox
  <1> DEFINE phase  == [m \in MessageIds |-> PhaseOf(messages[m])]
             holder == [m \in MessageIds |-> messages[m].reservation_id]
             kind   == [m \in MessageIds |-> KindOf(messages[m])]
  <1>1. DeliveryInit => Abstract!MailboxInit
    BY DeliveryAssumption DEF DeliveryInit, NoRow, Abstract!MailboxInit, PhaseOf, KindOf
  <1>2. ASSUME DeliveryInv, DeliveryInv', [DeliveryNext]_vars
        PROVE  [Abstract!MailboxNext]_<<phase, holder, kind>>
    <2>1. CASE DeliveryNext
      <3>1. \A m \in MessageIds : Abstract!Move(m)
        BY <1>2, <2>1, StepMoves
      <3>2. messages' \in [MessageIds -> Message]
        BY <1>2 DEF DeliveryInv, DeliveryTypeOK
      <3>3. /\ phase' \in [MessageIds -> Abstract!Phases]
            /\ holder' \in [MessageIds -> ReservationIds \cup {None}]
        BY <3>2 DEF Abstract!Phases, PhaseOf, Message, Active, Terminal
      <3>4. kind' \in [MessageIds -> Abstract!Kinds]
        BY DEF Abstract!Kinds, KindOf
      <3> QED BY <3>1, <3>3, <3>4 DEF Abstract!MailboxNext
    <2>2. CASE UNCHANGED vars
      BY <2>2 DEF vars, deliveryVars
    <2> QED BY <1>2, <2>1, <2>2
  <1> QED BY <1>1, <1>2, InvHolds, PTL
          DEF DeliverySpec, ImplementsMailbox, Abstract!MailboxSpec, Abstract!mailboxVars

-----------------------------------------------------------------------------
(* What the operations keep of a message row.                              *)

(* The row stays: what was sent does not change, nor its response, the     *)
(* first instant of delivery is never written over or set in the past, and *)
(* only what has an expiry expires.                                        *)
Carried(x, y) ==
  /\ y.from = x.from /\ y.to = x.to /\ y.mode = x.mode
  /\ y.response_to = x.response_to /\ y.idempotency_key = x.idempotency_key
  /\ y.created_at = x.created_at /\ y.expires_at = x.expires_at
  /\ y.response_message_id = x.response_message_id
  /\ \/ y.delivered_at = x.delivered_at
     \/ x.delivered_at = 0 /\ now <= y.delivered_at
  /\ y.state = "expired" => x.state = "expired" \/ x.expires_at # 0
  /\ y.state = "absent" <=> x.state = "absent"
  /\ Present(y) <=> Present(x)
  /\ y.state \in Active => x.state \in Active
  /\ y.state = "removed" <=> x.state = "removed"

AllCarried(msgs) == \A m \in MessageIds : Carried(messages[m], msgs[m])

(* The senders of DeliveryNext: remote principals send in another module.  *)
Sends  == \E sender \in Agents \cup Humans, in \in SendInputs : sendMessageTx(sender, in)
Prunes == \E token \in 1..MaxTokens, before \in 1..MaxTime, execute \in BOOLEAN :
            PruneMessages(token, before, execute, {})

(* Expiry keeps every row.                                                 *)
LEMMA ExpireCarries ==
  ASSUME messages \in [MessageIds -> Message]
  PROVE  AllCarried(expireMessages(messages, now))
  BY DEF AllCarried, Carried, expireMessages, Overdue, Message, Present, Active, Terminal

(* So does a release, which only touches reserved rows.                    *)
LEMMA ReleaseCarries ==
  ASSUME messages \in [MessageIds -> Message],
         NEW msgs \in [MessageIds -> Message], AllCarried(msgs), NEW R
  PROVE  AllCarried(releaseReservations(msgs, R))
  <1> SUFFICES ASSUME NEW m \in MessageIds
               PROVE  Carried(messages[m], releaseReservations(msgs, R)[m])
    BY DEF AllCarried
  <1>1. Carried(messages[m], msgs[m])
    BY DEF AllCarried
  <1>2. Carried(msgs[m], releaseReservations(msgs, R)[m])
    BY DEF Carried, releaseReservations, Message, Present, Active, Terminal
  <1> QED BY <1>1, <1>2 DEF Carried

(* Every other step than a send and a retention pass keeps every row.      *)
LEMMA StepCarries ==
  ASSUME DeliveryInv, DeliveryNext
  PROVE  AllCarried(messages') \/ Sends \/ Prunes
  <1> DEFINE msgs == expireMessages(messages, now)
             Goal == AllCarried(messages') \/ Sends \/ Prunes
  <1>1. messages \in [MessageIds -> Message] /\ now \in Nat
    BY DEF DeliveryInv, DeliveryTypeOK, RegistryTypeOK
  <1>2. msgs \in [MessageIds -> Message] /\ AllCarried(msgs)
    BY <1>1, ExpireType, ExpireCarries
  <1>3. AllCarried(messages)
    BY <1>1 DEF AllCarried, Carried
  <1>4. ASSUME NEW R, messages' = releaseReservations(messages, R) \/
                      messages' = releaseReservations(msgs, R)
        PROVE  Goal
    BY <1>1, <1>2, <1>3, <1>4, ReleaseCarries
  <1>5. ASSUME messages' = messages \/ messages' = msgs PROVE Goal
    BY <1>2, <1>3, <1>5
  <1>6. ASSUME RegistryNext PROVE Goal
    <2> HIDE DEF Goal
    <2> QED BY <1>4, <1>5, <1>6, Zenon
            DEF RegistryNext, RegisterAgent, Heartbeat, RetireAgent, RotateScopeToken,
                deliveryVars
  <1>7. ASSUME NEW p, NEW limit, ReserveInbox(p, limit) PROVE Goal
    <2> DEFINE expired  == {r \in Held : reservations[r].expires_at <= now}
               released == releaseReservations(msgs, expired)
    <2>1. released \in [MessageIds -> Message] /\ AllCarried(released)
      BY <1>1, <1>2, ReleaseType, ReleaseCarries
    <2>2. ASSUME NEW S \in SUBSET Available(released, p.agent), NEW id \in ReservationIds,
                 messages' = [n \in MessageIds |->
                   IF n \in S
                   THEN [released[n] EXCEPT !.state = "reserved", !.reservation_id = id]
                   ELSE released[n]]
          PROVE  Goal
      <3> SUFFICES ASSUME NEW m \in MessageIds PROVE Carried(messages[m], messages'[m])
        BY DEF AllCarried
      <3>1. Carried(messages[m], released[m]) /\ released[m] \in Message
        BY <2>1 DEF AllCarried
      <3>2. m \in S => released[m].state \in {"queued", "delivered"}
        BY DEF Available
      <3>3. Carried(released[m], messages'[m])
        <4> HIDE DEF released
        <4> QED BY <2>2, <3>1, <3>2 DEF Carried, Message, Present, Active, Terminal
      <3> QED BY <3>1, <3>3 DEF Carried
    <2> HIDE DEF Goal
    <2> QED BY <1>4, <1>7, <2>2, Zenon DEF ReserveInbox, OldestFirst
  <1>8. ASSUME NEW p, NEW r, NEW t \in LaterInTx, CommitInbox(p, r, t) PROVE Goal
    <2>2. t \in Nat /\ now <= t
      BY <1>1, DeliveryAssumption DEF LaterInTx
    <2>1. CASE messages' = Committed(msgs, p, r, t)
      <3> SUFFICES ASSUME NEW m \in MessageIds PROVE Carried(messages[m], messages'[m])
        BY DEF AllCarried
      <3>1. Carried(messages[m], msgs[m]) /\ msgs[m] \in Message
        BY <1>2 DEF AllCarried
      <3>2. Carried(msgs[m], messages'[m])
        <4> HIDE DEF msgs
        <4> QED BY <2>1, <2>2, <3>1 DEF Committed, Carried, Message, Present, Active, Terminal
      <3> QED BY <3>1, <3>2 DEF Carried
    <2> HIDE DEF Goal
    <2> QED BY <1>4, <1>8, <2>1 DEF CommitInbox
  <1>9. ASSUME NEW p, NEW r, ReleaseInbox(p, r) PROVE Goal
    BY <1>4, <1>9 DEF ReleaseInbox
  <1>10. ASSUME NEW p, NEW S, NEW t, AcknowledgeMessages(p, S, t) PROVE Goal
    <2> SUFFICES ASSUME NEW m \in MessageIds PROVE Carried(messages[m], messages'[m])
      BY DEF AllCarried
    <2>1. Carried(messages[m], msgs[m]) /\ msgs[m] \in Message
      BY <1>2 DEF AllCarried
    <2>2. \/ messages'[m] = msgs[m]
          \/ /\ msgs[m].state = "delivered"
             /\ messages'[m] = [msgs[m] EXCEPT !.state = "acknowledged", !.acknowledged_at = t]
      BY <1>10 DEF AcknowledgeMessages
    <2>3. Carried(msgs[m], messages'[m])
      <3> HIDE DEF msgs
      <3> QED BY <2>1, <2>2 DEF Carried, Message, Present, Active, Terminal
    <2> QED BY <2>1, <2>3 DEF Carried
  <1>11. ASSUME NEW h, NEW S, ReadHumanMessages(h, S) PROVE Goal
    <2> SUFFICES ASSUME NEW m \in MessageIds PROVE Carried(messages[m], messages'[m])
      BY DEF AllCarried
    <2>1. Carried(messages[m], msgs[m]) /\ msgs[m] \in Message
      BY <1>2 DEF AllCarried
    <2>2. \/ messages'[m] = msgs[m]
          \/ /\ msgs[m].state \in {"queued", "delivered"}
             /\ messages'[m] = [msgs[m] EXCEPT !.state = "acknowledged", !.acknowledged_at = now,
                                  !.delivered_at = IF msgs[m].delivered_at = 0 THEN now
                                                   ELSE msgs[m].delivered_at]
      BY <1>11 DEF ReadHumanMessages
    <2>3. Carried(msgs[m], messages'[m])
      <3>1. PICK x : x = msgs[m]
        OBVIOUS
      <3>2. CASE messages'[m] = x
        BY <2>1, <3>1, <3>2 DEF Carried, Message
      <3>3. CASE /\ x.state \in {"queued", "delivered"}
                 /\ messages'[m] = [x EXCEPT !.state = "acknowledged", !.acknowledged_at = now,
                                       !.delivered_at = IF x.delivered_at = 0 THEN now
                                                        ELSE x.delivered_at]
        <4>1. PICK y : y = messages'[m]
          OBVIOUS
        <4>2. /\ y.from = x.from /\ y.to = x.to /\ y.mode = x.mode
              /\ y.response_to = x.response_to /\ y.idempotency_key = x.idempotency_key
              /\ y.created_at = x.created_at /\ y.expires_at = x.expires_at
              /\ y.response_message_id = x.response_message_id
              /\ y.state = "acknowledged"
              /\ y.delivered_at = IF x.delivered_at = 0 THEN now ELSE x.delivered_at
          BY <2>1, <3>1, <3>3, <4>1 DEF Message
        <4>3. Carried(x, y)
          BY <1>1, <3>3, <4>2 DEF Carried, Present, Active, Terminal
        <4> QED BY <3>1, <4>1, <4>3
      <3> QED BY <2>2, <3>1, <3>2, <3>3
    <2> QED BY <2>1, <2>3 DEF Carried
  <1>12. ASSUME NEW p, NEW m, Receipt(p, m) PROVE Goal
    BY <1>5, <1>12 DEF Receipt
  <1>13. ASSUME NEW sender \in Agents \cup Humans, NEW in \in SendInputs, sendMessageTx(sender, in)
         PROVE  Goal
    BY <1>13 DEF Sends
  <1>14. ASSUME InboxNext PROVE Goal
    <2>1. \A p \in KnownPrincipals : p.agent \in Agents \cup Humans
      BY DEF KnownPrincipals
    <2>2. Prunes => Goal
      OBVIOUS
    <2> HIDE DEF Goal
    <2> QED BY <1>7, <1>8, <1>9, <1>10, <1>12, <1>13, <1>14, <2>1, <2>2
            DEF InboxNext, SendMessage, Prunes
  <1>15. ASSUME HumanNext PROVE Goal
    <2> HIDE DEF Goal
    <2> QED BY <1>11, <1>13, <1>15 DEF HumanNext, SendHumanMessage
  <1> QED BY <1>6, <1>14, <1>15 DEF DeliveryNext

-----------------------------------------------------------------------------
(* Sends that are retried, answered or too many, and what retention takes. *)

(* A send that stores a new message, in the rows expiry has left.          *)
Stores(sender, in, id) ==
  LET msgs == expireMessages(messages, now) IN
  /\ messages[id].state = "absent"
  /\ PriorSends(msgs, sender, in) = {}
  /\ ResponseLinkOK(msgs, sender, in) /\ RouteOK(sender, in)
  /\ Backlog(msgs) < MessageBacklogCap
  /\ messages' = InsertMessage(msgs, id, sender, in, now)

StoredBy(S) == \E sender \in S, in \in SendInputs, id \in MessageIds :
                 Stores(sender, in, id)
Stored      == StoredBy(Participants)

(* A send that stores nothing has answered with an earlier message.        *)
LEMMA SendStores ==
  ASSUME DeliveryInv, NEW sender \in Participants, NEW in \in SendInputs,
         sendMessageTx(sender, in)
  PROVE  AllCarried(messages') \/ \E id \in MessageIds : Stores(sender, in, id)
  <1>1. messages \in [MessageIds -> Message]
    BY DEF DeliveryInv, DeliveryTypeOK
  <1>2. ASSUME messages' = expireMessages(messages, now) PROVE AllCarried(messages')
    BY <1>1, <1>2, ExpireCarries
  <1> QED BY <1>2, Zenon DEF sendMessageTx, Stores

(* The messages table, whatever the operation: the rows are carried, one   *)
(* is new, or retention takes some.                                        *)
LEMMA StepStores ==
  ASSUME DeliveryInv, DeliveryNext
  PROVE  AllCarried(messages') \/ StoredBy(Agents \cup Humans) \/ Prunes
  BY StepCarries, SendStores DEF Sends, StoredBy, Participants

(* The same for every sender.                                              *)
LEMMA StepRows ==
  ASSUME DeliveryInv, DeliveryNext
  PROVE  AllCarried(messages') \/ Stored \/ Prunes
  BY StepStores DEF Stored, StoredBy, Participants

(* The rows after a new message was stored: that message, and the others   *)
(* as they were but for the link from a request to its response.           *)
LEMMA StoredRows ==
  ASSUME DeliveryInv, NEW sender \in Participants, NEW in \in SendInputs,
         NEW id \in MessageIds, Stores(sender, in, id)
  PROVE  /\ messages'[id] = NewMessage(sender, in, now)
         /\ \A m \in MessageIds : m # id =>
              LET x == messages[m]
                  e == expireMessages(messages, now)[m]
                  y == messages'[m] IN
              /\ Carried(x, e) /\ e \in Message
              /\ y = IF in.mode = "response" /\ m = in.response_to
                     THEN [e EXCEPT !.response_message_id = id] ELSE e
  <1>1. messages \in [MessageIds -> Message] /\ now \in Nat
    BY DEF DeliveryInv, DeliveryTypeOK, RegistryTypeOK
  <1>2. /\ expireMessages(messages, now) \in [MessageIds -> Message]
        /\ AllCarried(expireMessages(messages, now))
    BY <1>1, ExpireType, ExpireCarries
  <1>3. messages' = InsertMessage(expireMessages(messages, now), id, sender, in, now)
    BY DEF Stores
  <1> QED BY <1>2, <1>3 DEF InsertMessage, AllCarried

(* The columns of the other rows.                                          *)
LEMMA StoredOthers ==
  ASSUME DeliveryInv, NEW sender \in Participants, NEW in \in SendInputs,
         NEW id \in MessageIds, Stores(sender, in, id), NEW m \in MessageIds, m # id
  PROVE  LET x == messages[m]
             e == expireMessages(messages, now)[m]
             y == messages'[m] IN
         /\ y.from = x.from /\ y.to = x.to /\ y.mode = x.mode
         /\ y.response_to = x.response_to /\ y.idempotency_key = x.idempotency_key
         /\ y.created_at = x.created_at /\ y.expires_at = x.expires_at
         /\ y.delivered_at = e.delivered_at /\ y.state = e.state
         /\ y.response_message_id = IF in.mode = "response" /\ m = in.response_to
                                    THEN id ELSE x.response_message_id
         /\ Carried(x, e) /\ e \in Message
  <1> DEFINE e == expireMessages(messages, now)[m]
  <1>1. /\ Carried(messages[m], e) /\ e \in Message
        /\ messages'[m] = IF in.mode = "response" /\ m = in.response_to
                          THEN [e EXCEPT !.response_message_id = id] ELSE e
    BY StoredRows
  <1>2. CASE in.mode = "response" /\ m = in.response_to
    <2>1. messages'[m] = [e EXCEPT !.response_message_id = id]
      BY <1>1, <1>2
    <2> HIDE DEF e
    <2> DEFINE y == messages'[m]
               x == messages[m]
    <2>2. /\ y.from = x.from /\ y.to = x.to /\ y.mode = x.mode
          /\ y.response_to = x.response_to /\ y.idempotency_key = x.idempotency_key
          /\ y.created_at = x.created_at /\ y.expires_at = x.expires_at
          /\ y.delivered_at = e.delivered_at /\ y.state = e.state
          /\ y.response_message_id = id
      BY <1>1, <2>1 DEF Carried, Message
    <2> QED BY <1>1, <1>2, <2>2 DEF e
  <1>3. CASE ~(in.mode = "response" /\ m = in.response_to)
    <2>1. messages'[m] = e
      BY <1>1, <1>3
    <2> QED BY <1>1, <1>3, <2>1 DEF Carried
  <1> QED BY <1>2, <1>3

(* The columns of the new message.                                         *)
LEMMA StoredNew ==
  ASSUME DeliveryInv, NEW sender \in Participants, NEW in \in SendInputs,
         NEW id \in MessageIds, Stores(sender, in, id)
  PROVE  LET y == messages'[id] IN
         /\ y.from = sender /\ y.to = in.to /\ y.mode = in.mode
         /\ y.response_to = in.response_to /\ y.idempotency_key = in.idempotency_key
         /\ y.created_at = now /\ y.response_message_id = None
         /\ y.state \in {"queued", "acknowledged"} /\ Present(y)
  <1>1. messages'[id] = NewMessage(sender, in, now)
    BY StoredRows
  <1> QED BY <1>1 DEF NewMessage, Present, Active, Terminal

(* A retention pass keeps a row or takes it away as a whole.               *)
LEMMA PrunedRows ==
  ASSUME DeliveryInv, NEW token, NEW before, NEW execute, NEW keep,
         PruneMessages(token, before, execute, keep), NEW m \in MessageIds
  PROVE  LET msgs == expireMessages(messages, now) IN
         /\ Carried(messages[m], msgs[m]) /\ msgs[m] \in Message
         /\ \/ messages'[m] = msgs[m]
            \/ /\ messages'[m] = NoRow("removed") /\ execute
               /\ m \in retentionMessageCandidates(msgs, before) \ keep
  <1>1. messages \in [MessageIds -> Message] /\ now \in Nat
    BY DEF DeliveryInv, DeliveryTypeOK, RegistryTypeOK
  <1>2. /\ expireMessages(messages, now) \in [MessageIds -> Message]
        /\ AllCarried(expireMessages(messages, now))
    BY <1>1, ExpireType, ExpireCarries
  <1> QED BY <1>2 DEF PruneMessages, AllCarried

(* A candidate is terminal, and is not a request whose answer is awaited.  *)
LEMMA CandidateRow ==
  ASSUME NEW msgs \in [MessageIds -> Message], NEW before, NEW m \in MessageIds,
         m \in retentionMessageCandidates(msgs, before)
  PROVE  /\ msgs[m].state \in Terminal
         /\ ~ /\ msgs[m].mode = "request" /\ msgs[m].delivered_at # 0
              /\ msgs[m].response_message_id = None
  <1>1. None \notin MessageIds
    BY DeliveryAssumption
  <1> QED BY <1>1 DEF retentionMessageCandidates, terminalBefore, RetiredPair, Terminal

(* A key names one message, and no operation lends it to another.          *)
LEMMA KeysKept ==
  ASSUME DeliveryInv, IdempotentSends,
         \/ AllCarried(messages') \/ Stored
         \/ \E token, before, execute, keep : PruneMessages(token, before, execute, keep)
  PROVE  IdempotentSends'
  <1>1. ASSUME AllCarried(messages') PROVE IdempotentSends'
    BY <1>1 DEF AllCarried, Carried, IdempotentSends, Present
  <1>2. ASSUME Stored PROVE IdempotentSends'
    <2>1. PICK sender \in Participants, in \in SendInputs, id \in MessageIds :
            Stores(sender, in, id)
      BY <1>2 DEF Stored, StoredBy
    <2> DEFINE msgs == expireMessages(messages, now)
    <2>2. /\ messages'[id].from = sender
          /\ messages'[id].idempotency_key = in.idempotency_key
      BY <2>1, StoredNew
    <2>3. \A m \in MessageIds \ {id} :
            /\ messages'[m].from = messages[m].from
            /\ messages'[m].idempotency_key = messages[m].idempotency_key
            /\ Present(messages'[m]) <=> Present(messages[m])
      BY <2>1, StoredOthers DEF Carried, Present
    <2>4. \A m \in MessageIds \ {id} :
            Present(messages[m]) /\ messages[m].from = sender =>
              in.idempotency_key = None \/ messages[m].idempotency_key # in.idempotency_key
      <3>1. \A m \in MessageIds \ {id} :
              Present(messages[m]) /\ messages[m].from = sender
                /\ messages[m].idempotency_key = in.idempotency_key
                /\ in.idempotency_key # None
              => m \in PriorSends(msgs, sender, in)
        BY <2>1, StoredOthers DEF Carried, PriorSends
      <3>2. PriorSends(msgs, sender, in) = {}
        BY <2>1 DEF Stores
      <3> QED BY <3>1, <3>2
    <2> QED BY <2>2, <2>3, <2>4 DEF IdempotentSends
  <1>3. ASSUME NEW token, NEW before, NEW execute, NEW keep,
               PruneMessages(token, before, execute, keep)
        PROVE  IdempotentSends'
    <2>1. \A m \in MessageIds : Present(messages'[m]) =>
            /\ Present(messages[m]) /\ messages'[m].from = messages[m].from
            /\ messages'[m].idempotency_key = messages[m].idempotency_key
      BY <1>3, PrunedRows DEF Carried, NoRow, Present, Active, Terminal
    <2> QED BY <2>1 DEF IdempotentSends
  <1> QED BY <1>1, <1>2, <1>3

(* A retried send is answered with the message its key names, whatever     *)
(* became of that message (sendMessageTx); a key is free again only when   *)
(* retention has removed its message.                                      *)
THEOREM SendsAreIdempotent == DeliverySpec => []IdempotentSends
  <1>1. DeliveryInit => IdempotentSends
    BY DEF DeliveryInit, IdempotentSends, NoRow, Present, Active, Terminal
  <1>2. ASSUME DeliveryInv, IdempotentSends, [DeliveryNext]_vars
        PROVE  IdempotentSends'
    <2>1. CASE UNCHANGED vars
      BY <1>2, <2>1 DEF vars, deliveryVars, IdempotentSends, Present
    <2> QED BY <1>2, <2>1, StepRows, KeysKept DEF Prunes
  <1> QED BY <1>1, <1>2, InvHolds, PTL DEF DeliverySpec

(* Retention never takes an unfinished message, nor a delivered request    *)
(* that still may be answered (retentionMessageCandidates, PruneScope);    *)
(* no other operation removes a row.                                       *)
THEOREM RetentionIsSafe == DeliverySpec => RetentionKeepsObligations
  <1>1. ASSUME DeliveryInv, [DeliveryNext]_vars, NEW m \in MessageIds,
               Present(messages[m]), messages'[m].state = "removed"
        PROVE  /\ messages[m].state \in Terminal \/ Overdue(messages[m], now)
               /\ ~ /\ messages[m].mode = "request"
                    /\ messages[m].delivered_at # 0
                    /\ messages[m].response_message_id = None
    <2> DEFINE msgs == expireMessages(messages, now)
    <2>1. messages \in [MessageIds -> Message] /\ now \in Nat
      BY <1>1 DEF DeliveryInv, DeliveryTypeOK, RegistryTypeOK
    <2>2. messages[m].state # "removed"
      BY <1>1 DEF Present, Active, Terminal
    <2>3. ~AllCarried(messages') /\ ~UNCHANGED vars
      BY <1>1, <2>2 DEF AllCarried, Carried, vars, deliveryVars
    <2>4. ~Stored
      <3> SUFFICES ASSUME NEW sender \in Participants, NEW in \in SendInputs,
                          NEW id \in MessageIds, Stores(sender, in, id)
                   PROVE  FALSE
        BY DEF Stored, StoredBy
      <3>1. CASE m = id
        BY <1>1, <3>1, StoredNew
      <3>2. CASE m # id
        BY <1>1, <2>2, <3>2, StoredOthers DEF Carried
      <3> QED BY <3>1, <3>2
    <2>5. PICK token, before, execute : PruneMessages(token, before, execute, {})
      BY <1>1, <2>3, <2>4, StepRows DEF Prunes
    <2>6. /\ Carried(messages[m], msgs[m])
          /\ m \in retentionMessageCandidates(msgs, before)
      BY <1>1, <2>2, <2>5, PrunedRows DEF Carried
    <2>7. msgs \in [MessageIds -> Message]
      BY <2>1, ExpireType
    <2>8. /\ msgs[m].state \in Terminal
          /\ ~ /\ msgs[m].mode = "request" /\ msgs[m].delivered_at # 0
               /\ msgs[m].response_message_id = None
      BY <2>6, <2>7, CandidateRow
    <2>9. /\ msgs[m].mode = messages[m].mode
          /\ msgs[m].delivered_at = messages[m].delivered_at
          /\ msgs[m].response_message_id = messages[m].response_message_id
          /\ messages[m].state = msgs[m].state \/ Overdue(messages[m], now)
      BY <2>1 DEF expireMessages, Message
    <2> QED BY <2>8, <2>9
  <1>2. DeliveryInv /\ [DeliveryNext]_vars =>
          [\A m \in MessageIds :
             Present(messages[m]) /\ messages'[m].state = "removed" =>
               /\ messages[m].state \in Terminal \/ Overdue(messages[m], now)
               /\ ~ /\ messages[m].mode = "request"
                    /\ messages[m].delivered_at # 0
                    /\ messages[m].response_message_id = None]_vars
    BY <1>1
  <1> QED BY <1>2, InvHolds, PTL DEF DeliverySpec, RetentionKeepsObligations

-----------------------------------------------------------------------------
(* Requests and responses.                                                 *)

(* What ReplyPairing says of one response and of one answered request.     *)
HasRequest(r) ==
  Present(messages[r]) /\ messages[r].mode = "response" =>
    /\ messages[r].response_to \in MessageIds
    /\ LET request == messages[messages[r].response_to] IN
       /\ Present(request) /\ request.mode = "request"
       /\ request.response_message_id = r
       /\ request.from = messages[r].to /\ request.to = messages[r].from
       /\ request.delivered_at \in 1..messages[r].created_at

HasResponse(q) ==
  messages[q].response_message_id # None =>
    /\ messages[q].response_message_id \in MessageIds
    /\ LET response == messages[messages[q].response_message_id] IN
       /\ messages[q].mode = "request" /\ Present(messages[q])
       /\ Present(response) /\ response.mode = "response" /\ response.response_to = q

(* The pairing is these two, of every row.                                 *)
LEMMA PairingOfAll ==
  ASSUME messages \in [MessageIds -> Message]
  PROVE  ReplyPairing <=> /\ \A r \in MessageIds : HasRequest(r)
                          /\ \A q \in MessageIds : HasResponse(q)
  <1>1. \A q \in MessageIds : messages[q].response_message_id \in MessageIds \cup {None}
    BY DEF Message
  <1> QED BY <1>1 DEF ReplyPairing, HasRequest, HasResponse

(* Rows that are carried stay paired.                                      *)
LEMMA CarriedPairs ==
  ASSUME DeliveryInv, DeliveryInv', ReplyPairing, AllCarried(messages')
  PROVE  ReplyPairing'
  <1>1. /\ messages \in [MessageIds -> Message]
        /\ messages' \in [MessageIds -> Message]
    BY DEF DeliveryInv, DeliveryTypeOK
  <1>2. /\ \A r \in MessageIds : HasRequest(r)
        /\ \A q \in MessageIds : HasResponse(q)
    BY <1>1, PairingOfAll
  <1>3. ASSUME NEW r \in MessageIds PROVE HasRequest(r)'
    <2>1. HasRequest(r) /\ Carried(messages[r], messages'[r])
      BY <1>2 DEF AllCarried
    <2>2. messages[r].response_to \in MessageIds =>
            Carried(messages[messages[r].response_to], messages'[messages[r].response_to])
      BY DEF AllCarried
    <2> QED BY <2>1, <2>2 DEF HasRequest, Carried
  <1>4. ASSUME NEW q \in MessageIds PROVE HasResponse(q)'
    <2>1. HasResponse(q) /\ Carried(messages[q], messages'[q])
      BY <1>2 DEF AllCarried
    <2>2. messages[q].response_message_id \in MessageIds =>
            Carried(messages[messages[q].response_message_id],
                    messages'[messages[q].response_message_id])
      BY DEF AllCarried
    <2> QED BY <2>1, <2>2 DEF HasResponse, Carried
  <1> QED BY <1>3, <1>4 DEF ReplyPairing, HasRequest, HasResponse

(* A response that is stored names a request that had none, and no other   *)
(* send touches a pair.                                                    *)
LEMMA StoredPairs ==
  ASSUME DeliveryInv, DeliveryInv', ReplyPairing, Stored
  PROVE  ReplyPairing'
  <1>1. /\ messages \in [MessageIds -> Message]
        /\ messages' \in [MessageIds -> Message]
        /\ None \notin MessageIds
    BY DeliveryAssumption DEF DeliveryInv, DeliveryTypeOK
  <1>2. /\ \A r \in MessageIds : HasRequest(r)
        /\ \A q \in MessageIds : HasResponse(q)
    BY <1>1, PairingOfAll
  <1>3. PICK sender \in Participants, in \in SendInputs, id \in MessageIds :
          Stores(sender, in, id)
    BY DEF Stored, StoredBy
  <1> DEFINE msgs == expireMessages(messages, now)
  <1>4. /\ messages[id].state = "absent" /\ ~Present(messages[id])
        /\ ResponseLinkOK(msgs, sender, in)
        /\ in.response_to \in MessageIds \cup {None}
    BY <1>3 DEF Stores, Present, Active, Terminal, SendInputs
  <1>5. \A m \in MessageIds : /\ Carried(messages[m], msgs[m]) /\ msgs[m] \in Message
                              /\ msgs[m].delivered_at <= now
    <2>1. AllCarried(msgs)
      BY <1>1, ExpireCarries
    <2> QED BY <2>1, ExpiredRows DEF AllCarried
  <1>6. \A m \in MessageIds : m # id =>
          LET x == messages[m]
              y == messages'[m] IN
          /\ y.from = x.from /\ y.to = x.to /\ y.mode = x.mode
          /\ y.response_to = x.response_to /\ y.created_at = x.created_at
          /\ y.delivered_at = msgs[m].delivered_at
          /\ y.response_message_id = IF in.mode = "response" /\ m = in.response_to
                                     THEN id ELSE x.response_message_id
          /\ Present(y) <=> Present(x)
    BY <1>3, StoredOthers DEF Carried, Present
  <1>7. LET y == messages'[id] IN
        /\ y.from = sender /\ y.to = in.to /\ y.mode = in.mode
        /\ y.response_to = in.response_to /\ y.created_at = now
        /\ y.response_message_id = None /\ Present(y)
    BY <1>3, StoredNew
  (* The request a new response is for.                                    *)
  <1>8. in.mode = "response" =>
          LET q == in.response_to IN
          /\ q \in MessageIds /\ q # id
          /\ Present(messages[q]) /\ messages[q].mode = "request"
          /\ messages[q].to = sender /\ messages[q].from = in.to
          /\ messages[q].response_message_id = None
          /\ msgs[q].delivered_at \in 1..now
    <2> SUFFICES ASSUME in.mode = "response"
                 PROVE  LET q == in.response_to IN
                        /\ q \in MessageIds /\ q # id
                        /\ Present(messages[q]) /\ messages[q].mode = "request"
                        /\ messages[q].to = sender /\ messages[q].from = in.to
                        /\ messages[q].response_message_id = None
                        /\ msgs[q].delivered_at \in 1..now
      OBVIOUS
    <2>1. PICK q \in MessageIds : q = in.response_to
      BY <1>4 DEF ResponseLinkOK
    <2>2. /\ Present(msgs[q]) /\ msgs[q].mode = "request"
          /\ msgs[q].to = sender /\ msgs[q].from = in.to
          /\ msgs[q].delivered_at # 0 /\ msgs[q].response_message_id = None
      BY <1>4, <2>1 DEF ResponseLinkOK
    <2>3. Carried(messages[q], msgs[q]) /\ msgs[q] \in Message /\ msgs[q].delivered_at <= now
      BY <1>5
    <2>4. now \in Nat
      BY DEF DeliveryInv, DeliveryTypeOK, RegistryTypeOK
    <2>5. msgs[q].delivered_at \in 1..now
      BY <2>2, <2>3, <2>4 DEF Message
    <2> QED BY <1>4, <2>1, <2>2, <2>3, <2>5 DEF Carried
  <1> HIDE DEF msgs
  <1>9. ASSUME NEW r \in MessageIds PROVE HasRequest(r)'
    <2>1. CASE r = id
      BY <1>6, <1>7, <1>8, <2>1 DEF HasRequest
    <2>2. CASE r # id
      <3> SUFFICES ASSUME Present(messages'[r]), messages'[r].mode = "response"
                   PROVE  HasRequest(r)'
        BY DEF HasRequest
      <3>1. PICK q : q = messages[r].response_to
        OBVIOUS
      <3>2. /\ q \in MessageIds /\ Present(messages[q]) /\ messages[q].mode = "request"
            /\ messages[q].response_message_id = r
            /\ messages[q].from = messages[r].to /\ messages[q].to = messages[r].from
            /\ messages[q].delivered_at \in 1..messages[r].created_at
        BY <1>2, <1>6, <2>2, <3>1 DEF HasRequest
      <3>3. q # id /\ ~(in.mode = "response" /\ q = in.response_to)
        BY <1>1, <1>4, <1>8, <3>2
      <3>4. msgs[q].delivered_at = messages[q].delivered_at
        BY <1>5, <3>2 DEF Carried
      <3> QED BY <1>6, <2>2, <3>1, <3>2, <3>3, <3>4 DEF HasRequest
    <2> QED BY <2>1, <2>2
  <1>10. ASSUME NEW q \in MessageIds PROVE HasResponse(q)'
    <2>1. CASE q = id
      BY <1>7, <2>1 DEF HasResponse
    <2>2. CASE q # id /\ in.mode = "response" /\ q = in.response_to
      BY <1>6, <1>7, <1>8, <2>2 DEF HasResponse
    <2>3. CASE q # id /\ ~(in.mode = "response" /\ q = in.response_to)
      <3> SUFFICES ASSUME messages'[q].response_message_id # None PROVE HasResponse(q)'
        BY DEF HasResponse
      <3>1. PICK r : r = messages[q].response_message_id
        OBVIOUS
      <3>2. /\ r \in MessageIds /\ messages[q].mode = "request" /\ Present(messages[q])
            /\ Present(messages[r]) /\ messages[r].mode = "response"
            /\ messages[r].response_to = q
        BY <1>2, <1>6, <2>3, <3>1 DEF HasResponse
      <3>3. r # id
        BY <1>4, <3>2
      <3> QED BY <1>6, <2>3, <3>1, <3>2, <3>3 DEF HasResponse
    <2> QED BY <2>1, <2>2, <2>3
  <1> QED BY <1>9, <1>10 DEF ReplyPairing, HasRequest, HasResponse

(* Retention takes both rows of a pair or neither.                         *)
LEMMA PrunedPairs ==
  ASSUME DeliveryInv, DeliveryInv', ReplyPairing,
         NEW token, NEW before, NEW execute, NEW keep,
         PruneMessages(token, before, execute, keep),
         \A q, r \in MessageIds :
           messages[q].response_message_id = r /\ messages[r].response_to = q
             => (q \in keep <=> r \in keep)
  PROVE  ReplyPairing'
  <1>1. /\ messages \in [MessageIds -> Message]
        /\ messages' \in [MessageIds -> Message]
        /\ None \notin MessageIds
    BY DeliveryAssumption DEF DeliveryInv, DeliveryTypeOK
  <1>2. /\ \A r \in MessageIds : HasRequest(r)
        /\ \A q \in MessageIds : HasResponse(q)
    BY <1>1, PairingOfAll
  <1> DEFINE msgs    == expireMessages(messages, now)
             goes(m) == execute /\ m \in retentionMessageCandidates(msgs, before) \ keep
  <1>4. \A m \in MessageIds : Carried(messages[m], msgs[m])
    BY <1>1, ExpireCarries DEF AllCarried
  <1>5. \A m \in MessageIds : messages'[m] = IF goes(m) THEN NoRow("removed") ELSE msgs[m]
    BY DEF PruneMessages
  <1>6. \A q, r \in MessageIds :
          /\ msgs[q].mode = "request" /\ msgs[q].response_message_id = r
          /\ msgs[r].mode = "response" /\ msgs[r].response_to = q
          => (goes(q) <=> goes(r))
    BY <1>1, <1>4 DEF Carried, retentionMessageCandidates, RetiredPair
  <1> HIDE DEF msgs, goes
  <1>7. \A m \in MessageIds :
          /\ goes(m) => ~Present(messages'[m]) /\ messages'[m].response_message_id = None
          /\ ~goes(m) => Carried(messages[m], messages'[m])
    BY <1>4, <1>5 DEF NoRow, Present, Active, Terminal
  <1>8. \A q, r \in MessageIds :
          /\ messages[q].mode = "request" /\ messages[q].response_message_id = r
          /\ messages[r].mode = "response" /\ messages[r].response_to = q
          => (goes(q) <=> goes(r))
    BY <1>4, <1>6 DEF Carried
  <1>9. ASSUME NEW r \in MessageIds PROVE HasRequest(r)'
    <2> SUFFICES ASSUME Present(messages'[r]), messages'[r].mode = "response"
                 PROVE  HasRequest(r)'
      BY DEF HasRequest
    <2>1. ~goes(r) /\ Carried(messages[r], messages'[r])
      BY <1>7
    <2>2. PICK q : q = messages[r].response_to
      OBVIOUS
    <2>3. /\ q \in MessageIds /\ Present(messages[q]) /\ messages[q].mode = "request"
          /\ messages[q].response_message_id = r
          /\ messages[q].from = messages[r].to /\ messages[q].to = messages[r].from
          /\ messages[q].delivered_at \in 1..messages[r].created_at
      BY <1>2, <2>1, <2>2 DEF HasRequest, Carried
    <2>4. Carried(messages[q], messages'[q])
      BY <1>7, <1>8, <2>1, <2>2, <2>3 DEF Carried
    <2> QED BY <2>1, <2>2, <2>3, <2>4 DEF HasRequest, Carried
  <1>10. ASSUME NEW q \in MessageIds PROVE HasResponse(q)'
    <2> SUFFICES ASSUME messages'[q].response_message_id # None PROVE HasResponse(q)'
      BY DEF HasResponse
    <2>1. ~goes(q) /\ Carried(messages[q], messages'[q])
      BY <1>7
    <2>2. PICK r : r = messages[q].response_message_id
      OBVIOUS
    <2>3. /\ r \in MessageIds /\ messages[q].mode = "request" /\ Present(messages[q])
          /\ Present(messages[r]) /\ messages[r].mode = "response"
          /\ messages[r].response_to = q
      BY <1>2, <2>1, <2>2 DEF HasResponse, Carried
    <2>4. Carried(messages[r], messages'[r])
      BY <1>7, <1>8, <2>1, <2>2, <2>3
    <2> QED BY <2>1, <2>2, <2>3, <2>4 DEF HasResponse, Carried
  <1> QED BY <1>9, <1>10 DEF ReplyPairing, HasRequest, HasResponse

(* A request has one response at most, a response has its request, and     *)
(* neither outlives the other (sendMessageTx, PruneScope).                 *)
THEOREM RepliesArePaired == DeliverySpec => []ReplyPairing
  <1>1. DeliveryInit => ReplyPairing
    BY DEF DeliveryInit, ReplyPairing, NoRow, Present, Active, Terminal
  <1>2. ASSUME DeliveryInv, DeliveryInv', ReplyPairing, [DeliveryNext]_vars
        PROVE  ReplyPairing'
    <2>1. CASE UNCHANGED vars
      BY <1>2, <2>1 DEF vars, deliveryVars, ReplyPairing, Present
    <2>2. Prunes => ReplyPairing'
      BY <1>2, PrunedPairs DEF Prunes
    <2> QED BY <1>2, <2>1, <2>2, StepRows, CarriedPairs, StoredPairs
  <1> QED BY <1>1, <1>2, InvHolds, PTL DEF DeliverySpec

-----------------------------------------------------------------------------
(* The backlog.                                                            *)

Unfinished == {m \in MessageIds : messages[m].state \in Active}

(* The message identifiers need not be finite: the unfinished ones are.    *)
BacklogInv == IsFiniteSet(Unfinished) /\ Cardinality(Unfinished) <= MessageBacklogCap

(* No set of unfinished messages that shrinks breaks the bound.            *)
LEMMA BacklogShrinks ==
  ASSUME BacklogInv, Unfinished' \subseteq Unfinished
  PROVE  BacklogInv'
  <1>1. /\ IsFiniteSet(Unfinished') /\ Cardinality(Unfinished') <= Cardinality(Unfinished)
        /\ Cardinality(Unfinished') \in Nat /\ Cardinality(Unfinished) \in Nat
    BY FS_Subset, FS_CardinalityType DEF BacklogInv
  <1> QED BY <1>1, DeliveryAssumption DEF BacklogInv

(* A new message is counted with what expiry has left.                     *)
LEMMA BacklogStored ==
  ASSUME DeliveryInv, BacklogInv, Stored
  PROVE  BacklogInv'
  <1>1. PICK sender \in Participants, in \in SendInputs, id \in MessageIds :
          Stores(sender, in, id)
    BY DEF Stored, StoredBy
  <1> DEFINE msgs == expireMessages(messages, now)
             left == {m \in MessageIds : msgs[m].state \in Active}
  <1>2. left \subseteq Unfinished /\ id \notin left
    <2>1. messages \in [MessageIds -> Message]
      BY DEF DeliveryInv, DeliveryTypeOK
    <2>2. \A m \in left : messages[m].state \in Active
      BY <2>1, ExpireCarries DEF AllCarried, Carried
    <2> QED BY <1>1, <2>2 DEF Unfinished, Stores, Active
  <1>3. IsFiniteSet(left) /\ Cardinality(left) \in Nat
    BY <1>2, FS_Subset, FS_CardinalityType DEF BacklogInv
  <1>4. Cardinality(left) < MessageBacklogCap
    BY <1>1 DEF Stores, Backlog
  <1>5. Unfinished' \subseteq left \cup {id}
    BY <1>1, StoredOthers DEF Unfinished
  <1> HIDE DEF left
  <1>6. /\ IsFiniteSet(left \cup {id})
        /\ Cardinality(left \cup {id}) = Cardinality(left) + 1
    BY <1>2, <1>3, FS_AddElement
  <1>7. /\ IsFiniteSet(Unfinished')
        /\ Cardinality(Unfinished') <= Cardinality(left \cup {id})
        /\ Cardinality(Unfinished') \in Nat
    BY <1>5, <1>6, FS_Subset, FS_CardinalityType
  <1> QED BY <1>3, <1>4, <1>6, <1>7, DeliveryAssumption DEF BacklogInv

(* A retention pass adds nothing.                                          *)
LEMMA BacklogPruned ==
  ASSUME DeliveryInv, BacklogInv, NEW token, NEW before, NEW execute, NEW keep,
         PruneMessages(token, before, execute, keep)
  PROVE  BacklogInv'
  <1>1. Unfinished' \subseteq Unfinished
    BY PrunedRows DEF Unfinished, Carried, NoRow, Active
  <1> QED BY <1>1, BacklogShrinks

(* Nor does a step that carries the rows.                                  *)
LEMMA BacklogCarried ==
  ASSUME BacklogInv, AllCarried(messages')
  PROVE  BacklogInv'
  BY BacklogShrinks DEF AllCarried, Carried, Unfinished

(* The scope never holds more unfinished messages than messageBacklogCap:  *)
(* the count is taken after expiry and in the transaction that inserts     *)
(* (sendMessageTx), and nothing makes a finished message count again.      *)
THEOREM BacklogIsBounded == DeliverySpec => []BacklogBounded
  <1>1. DeliveryInit => BacklogInv
    <2> SUFFICES ASSUME DeliveryInit PROVE BacklogInv
      OBVIOUS
    <2>1. Unfinished = {}
      BY DEF DeliveryInit, Unfinished, NoRow, Active
    <2> QED BY <2>1, FS_EmptySet, DeliveryAssumption DEF BacklogInv
  <1>2. ASSUME DeliveryInv, BacklogInv, [DeliveryNext]_vars
        PROVE  BacklogInv'
    <2>1. Prunes => BacklogInv'
      BY <1>2, BacklogPruned DEF Prunes
    <2>2. CASE UNCHANGED vars
      BY <1>2, <2>2 DEF vars, deliveryVars, BacklogInv, Unfinished
    <2> QED BY <1>2, <2>1, <2>2, StepRows, BacklogStored, BacklogCarried
  <1>3. BacklogInv => BacklogBounded
    BY DEF BacklogInv, BacklogBounded, Backlog, Unfinished
  <1> QED BY <1>1, <1>2, <1>3, InvHolds, PTL DEF DeliverySpec
-----------------------------------------------------------------------------
(* The instants of a row are in order, and only what has an expiry is      *)
(* expired.                                                                *)
DatedRow(msg, t) ==
  /\ msg.created_at <= t
  /\ msg.delivered_at # 0 => msg.created_at <= msg.delivered_at
  /\ msg.state = "expired" => msg.expires_at # 0

Dated == \A m \in MessageIds : DatedRow(messages[m], now)

(* The clock does not go back.                                             *)
LEMMA ClockRuns ==
  ASSUME DeliveryInv, DeliveryNext
  PROVE  now <= now'
  <1> DEFINE Goal == now <= now'
  <1>1. now \in Nat
    BY DEF DeliveryInv, DeliveryTypeOK, RegistryTypeOK
  <1>2. now' = now => Goal
    BY <1>1
  <1>3. Tick => Goal
    BY <1>1 DEF Tick
  <1>4. \A t \in LaterInTx : now' = t => Goal
    BY <1>1, DeliveryAssumption DEF LaterInTx
  <1> HIDE DEF Goal
  <1>5. ASSUME RegistryNext PROVE Goal
    BY <1>2, <1>3, <1>5, Zenon
       DEF RegistryNext, RegisterAgent, RegisterRow, LinkAgents, Heartbeat, HeartbeatRow,
           RetireAgent, RetireRow, RotateScopeToken, RotateRows
  <1>6. UNCHANGED registryVars => Goal
    BY <1>2 DEF registryVars
  <1>7. ASSUME InboxNext PROVE Goal
    BY <1>4, <1>6, <1>7, Zenon
       DEF InboxNext, SendMessage, Receipt, ReserveInbox, CommitInbox, ReleaseInbox,
           AcknowledgeMessages, PruneMessages, ClockOnly
  <1>8. ASSUME HumanNext PROVE Goal
    BY <1>6, <1>8, Zenon DEF HumanNext, SendHumanMessage, ReadHumanMessages
  <1>9. Goal
    BY <1>5, <1>7, <1>8 DEF DeliveryNext
  <1> QED BY <1>9 DEF Goal

(* Rows that are carried stay dated.                                       *)
LEMMA CarriedDates ==
  ASSUME DeliveryInv, DeliveryInv', Dated, AllCarried(messages'), now <= now'
  PROVE  Dated'
  <1> SUFFICES ASSUME NEW m \in MessageIds PROVE DatedRow(messages'[m], now')
    BY DEF Dated
  <1>1. /\ messages[m] \in Message /\ messages'[m] \in Message
        /\ now \in Nat /\ now' \in Nat
    BY DEF DeliveryInv, DeliveryTypeOK, RegistryTypeOK
  <1>2. DatedRow(messages[m], now) /\ Carried(messages[m], messages'[m])
    BY DEF Dated, AllCarried
  <1> QED BY <1>1, <1>2 DEF DatedRow, Carried, Message

(* A message is created at this instant.                                   *)
LEMMA StoredDates ==
  ASSUME DeliveryInv, Dated, Stored, now' \in Nat, now <= now'
  PROVE  Dated'
  <1>1. PICK sender \in Participants, in \in SendInputs, id \in MessageIds :
          Stores(sender, in, id)
    BY DEF Stored, StoredBy
  <1> SUFFICES ASSUME NEW m \in MessageIds PROVE DatedRow(messages'[m], now')
    BY DEF Dated
  <1>2. now \in Nat \ {0} /\ messages[m] \in Message /\ DatedRow(messages[m], now)
    BY DEF DeliveryInv, DeliveryTypeOK, RegistryTypeOK, Dated
  <1>3. CASE m = id
    <2>1. messages'[m] = NewMessage(sender, in, now)
      BY <1>1, <1>3, StoredRows
    <2> QED BY <1>2, <2>1 DEF NewMessage, DatedRow
  <1>4. CASE m # id
    <2>1. PICK e : e = expireMessages(messages, now)[m]
      OBVIOUS
    <2>2. /\ Carried(messages[m], e) /\ e \in Message
          /\ messages'[m].created_at = messages[m].created_at
          /\ messages'[m].expires_at = messages[m].expires_at
          /\ messages'[m].delivered_at = e.delivered_at
          /\ messages'[m].state = e.state
      BY <1>1, <1>4, <2>1, StoredOthers
    <2> QED BY <1>2, <2>2 DEF DatedRow, Carried, Message
  <1> QED BY <1>3, <1>4

(* What retention leaves is dated.                                         *)
LEMMA PrunedDates ==
  ASSUME DeliveryInv, Dated, now' = now, NEW token, NEW before, NEW execute, NEW keep,
         PruneMessages(token, before, execute, keep)
  PROVE  Dated'
  <1> SUFFICES ASSUME NEW m \in MessageIds PROVE DatedRow(messages'[m], now)
    BY DEF Dated
  <1>1. now \in Nat \ {0} /\ messages[m] \in Message /\ DatedRow(messages[m], now)
    BY DEF DeliveryInv, DeliveryTypeOK, RegistryTypeOK, Dated
  <1>2. PICK e : e = expireMessages(messages, now)[m]
    OBVIOUS
  <1>3. /\ Carried(messages[m], e) /\ e \in Message
        /\ messages'[m] = e \/ messages'[m] = NoRow("removed")
    BY <1>2, PrunedRows
  <1> QED BY <1>1, <1>3 DEF DatedRow, Carried, NoRow, Message

-----------------------------------------------------------------------------
(* A transaction that expires messages and reads.                          *)
LEMMA ReadKeeps ==
  ASSUME DeliveryInv, messages' = expireMessages(messages, now),
         UNCHANGED <<registryVars, reservations>>
  PROVE  DeliveryInv' /\ AllCarried(messages') /\ now' = now
  <1>1. messages \in [MessageIds -> Message]
    BY DEF DeliveryInv, DeliveryTypeOK
  <1>2. now' = now
    BY DEF registryVars
  <1> QED BY <1>1, <1>2, ExpiredRows, RowsOnly, ExpireCarries

(* A retention pass that removes no row carries them all.                  *)
LEMMA NothingPruned ==
  ASSUME DeliveryInv, Prunes,
         \A m \in MessageIds : messages'[m].state = "removed" => messages[m].state = "removed"
  PROVE  AllCarried(messages')
  <1>1. PICK token, before, execute : PruneMessages(token, before, execute, {})
    BY DEF Prunes
  <1> SUFFICES ASSUME NEW m \in MessageIds PROVE Carried(messages[m], messages'[m])
    BY DEF AllCarried
  <1>2. PICK e : e = expireMessages(messages, now)[m]
    OBVIOUS
  <1>3. /\ Carried(messages[m], e) /\ e \in Message
        /\ \/ messages'[m] = e
           \/ /\ messages'[m] = NoRow("removed")
              /\ m \in retentionMessageCandidates(expireMessages(messages, now), before)
    BY <1>1, <1>2, PrunedRows
  <1>4. expireMessages(messages, now) \in [MessageIds -> Message]
    BY ExpiredRows
  <1>5. CASE messages'[m] = NoRow("removed") /\ e.state \in Terminal
    BY <1>3, <1>5 DEF NoRow, Carried, Terminal
  <1> QED BY <1>2, <1>3, <1>4, <1>5, CandidateRow

-----------------------------------------------------------------------------
(* No step of the scope deletes the row of an agent.                       *)
LEMMA ScopeRegistered ==
  ASSUME DeliveryInv, [DeliveryNext]_vars, NEW a \in Agents, Registered(a)
  PROVE  Registered(a)'
  <1>1. CASE RegistryNext
    <2>1. RegistryTypeOK
      BY DEF DeliveryInv, DeliveryTypeOK
    <2> QED BY <1>1, <2>1, RegisteredStays, Zenon DEF RegistryNext, RegisterAgent, Heartbeat,
               RetireAgent, RotateScopeToken
  <1>2. CASE InboxNext \/ HumanNext \/ UNCHANGED vars
    <2>1. agents' = agents
      BY <1>2, Zenon DEF InboxNext, SendMessage, Receipt, ReserveInbox, CommitInbox,
            ReleaseInbox, AcknowledgeMessages, PruneMessages, registryVars, ClockOnly,
            HumanNext, SendHumanMessage, ReadHumanMessages, vars
    <2> QED BY <2>1 DEF Registered
  <1> QED BY <1>1, <1>2 DEF DeliveryNext
=============================================================================
