------------------------------ MODULE Delivery ------------------------------
(***************************************************************************)
(* Message delivery in one scope: the messages and reservations tables and *)
(* the operations of bus/store.go that change them, with the parts of      *)
(* registration, retirement, token rotation and retention that do.         *)
(*                                                                         *)
(*   queued -> reserved -> delivered -> acknowledged                       *)
(*   reserved -> queued or delivered (release), delivered -> reserved      *)
(*   queued, reserved, delivered -> expired                                *)
(*                                                                         *)
(* Bodies and context are left out: only request_hash looks at them, and   *)
(* the fields kept here already make two sends differ.  Instants are       *)
(* positive, 0 is the SQL NULL.  replied_at and response_message_id are    *)
(* written together and are one field.                                     *)
(***************************************************************************)
EXTENDS AgentRegistry

CONSTANTS
  MessageIds, ReservationIds,  \* random IDs: a used one never comes back
  RemotePrincipals,            \* A2A principals, senders of kind a2aPrincipal
  Humans,                      \* members of a hosted workspace
  Keys,                        \* idempotency keys
  ExpiryTimes,                 \* the expiresInMs values, 0 for no expiry
  InboxLimits,                 \* the limit values of a reserve request
  ReservationTTL,              \* reservationTTL
  TxTime,                      \* the clock may advance this much in a transaction
  MessageBacklogCap,           \* messageBacklogCap
  None                         \* SQL NULL for identifiers

ASSUME DeliveryAssumption ==
  /\ ExpiryTimes \subseteq Nat
  /\ InboxLimits \subseteq Nat \ {0}
  /\ ReservationTTL \in Nat \ {0}
  /\ TxTime \in Nat
  /\ MessageBacklogCap \in Nat
  /\ RemotePrincipals \cap Agents = {}
  /\ Humans \cap (Agents \cup RemotePrincipals) = {}
  /\ None \notin MessageIds \cup ReservationIds \cup Keys \cup Agents
                 \cup RemotePrincipals \cup Humans

VARIABLES
  messages,      \* the messages table; "absent" and "removed" are no row
  reservations   \* the reservations table; row tells whether there is one

deliveryVars == <<messages, reservations>>

Participants == Agents \cup RemotePrincipals \cup Humans
Modes        == {"notify", "request", "response"}
Active       == {"queued", "reserved", "delivered"}
Terminal     == {"acknowledged", "expired"}

Message ==
  [state : Active \cup Terminal \cup {"absent", "removed"},
   from : Participants \cup {None}, to : Participants \cup {None},
   mode : Modes, response_to : MessageIds \cup {None},
   idempotency_key : Keys \cup {None}, created_at : Nat, expires_at : Nat,
   delivered_at : Nat, acknowledged_at : Nat,
   response_message_id : MessageIds \cup {None},
   reservation_id : ReservationIds \cup {None}]

NoRow(state) ==
  [state |-> state, from |-> None, to |-> None, mode |-> "notify",
   response_to |-> None, idempotency_key |-> None, created_at |-> 0,
   expires_at |-> 0, delivered_at |-> 0, acknowledged_at |-> 0,
   response_message_id |-> None, reservation_id |-> None]

(* execution is history: the execution that made the reservation.  The     *)
(* table records the agent only.                                           *)
Reservation ==
  [row : {"unused", "held", "deleted"}, agent : Agents \cup {None},
   expires_at : Nat, execution : Nat]

NoReservation(row) ==
  [row |-> row, agent |-> None, expires_at |-> 0, execution |-> 0]

Present(msg)    == msg.state \in Active \cup Terminal
Held            == {r \in ReservationIds : reservations[r].row = "held"}
HeldBy(a)       == {r \in Held : reservations[r].agent = a}
Overdue(msg, t) == msg.expires_at # 0 /\ msg.expires_at <= t

-----------------------------------------------------------------------------
(* Helpers that run inside a transaction, as functions on the table.       *)

(* Fault: expiry leaves reservation_id behind.                             *)
expireMessages_KeepsReservation(msgs, t) ==
  [m \in MessageIds |->
     IF msgs[m].state \in Active /\ Overdue(msgs[m], t)
     THEN [msgs[m] EXCEPT !.state = "expired"]
     ELSE msgs[m]]

expireMessages(msgs, t) ==
  [m \in MessageIds |->
     IF msgs[m].state \in Active /\ Overdue(msgs[m], t)
     THEN [msgs[m] EXCEPT !.state = "expired", !.reservation_id = None]
     ELSE msgs[m]]

(* Fault: a release forgets that the message was delivered before.         *)
releaseReservations_AlwaysQueued(msgs, R) ==
  [m \in MessageIds |->
     IF msgs[m].state = "reserved" /\ msgs[m].reservation_id \in R
     THEN [msgs[m] EXCEPT !.state = "queued", !.reservation_id = None]
     ELSE msgs[m]]

(* Fault: a release writes a state the life cycle does not have.           *)
releaseReservations_OtherState(msgs, R) ==
  [m \in MessageIds |->
     IF msgs[m].state = "reserved" /\ msgs[m].reservation_id \in R
     THEN [msgs[m] EXCEPT !.state = "released", !.reservation_id = None]
     ELSE msgs[m]]

(* What releasing the reservations R leaves of the messages: each goes     *)
(* back to the state it had before it was reserved.                        *)
releaseReservations(msgs, R) ==
  [m \in MessageIds |->
     IF /\ msgs[m].state = "reserved"
        /\ msgs[m].reservation_id \in R
        /\ msgs[m].to = reservations[msgs[m].reservation_id].agent
     THEN [msgs[m] EXCEPT
             !.state = IF msgs[m].delivered_at = 0 THEN "queued" ELSE "delivered",
             !.reservation_id = None]
     ELSE msgs[m]]

deleteReservations(R) ==
  [r \in ReservationIds |->
     IF r \in R THEN NoReservation("deleted") ELSE reservations[r]]

SendInputs ==
  [to : Participants, mode : Modes, response_to : MessageIds \cup {None},
   idempotency_key : Keys \cup {None}, expires_in : ExpiryTimes]

(* The message is the outcome of the same request: equal request_hash.     *)
SameRequest(msg, in) ==
  /\ msg.to = in.to /\ msg.mode = in.mode /\ msg.response_to = in.response_to
  /\ msg.expires_at = IF in.expires_in = 0 THEN 0 ELSE msg.created_at + in.expires_in

(* Fault: the lookup skips finished messages.                              *)
PriorSends_ActiveOnly(msgs, sender, in) ==
  {m \in MessageIds : /\ in.idempotency_key # None
                      /\ msgs[m].state \in Active
                      /\ msgs[m].from = sender
                      /\ msgs[m].idempotency_key = in.idempotency_key}

(* The earlier messages an idempotency key of this sender names.           *)
PriorSends(msgs, sender, in) ==
  {m \in MessageIds : /\ in.idempotency_key # None
                      /\ Present(msgs[m])
                      /\ msgs[m].from = sender
                      /\ msgs[m].idempotency_key = in.idempotency_key}

(* Fault: replied_at is not looked at.                                     *)
ResponseLinkOK_ManyReplies(msgs, sender, in) ==
  IF in.mode = "response"
  THEN /\ in.response_to # None
       /\ LET request == msgs[in.response_to] IN
          /\ Present(request) /\ request.mode = "request"
          /\ request.to = sender /\ request.from = in.to
          /\ request.delivered_at # 0
  ELSE in.response_to = None /\ in.to \in Agents

(* A response names a delivered request between the same two participants  *)
(* that has no response yet; it may come after the request has expired.    *)
ResponseLinkOK(msgs, sender, in) ==
  IF in.mode = "response"
  THEN /\ in.response_to # None
       /\ LET request == msgs[in.response_to] IN
          /\ Present(request) /\ request.mode = "request"
          /\ request.to = sender /\ request.from = in.to
          /\ request.delivered_at # 0
          /\ request.response_message_id = None
  ELSE in.response_to = None /\ in.to \in Agents

(* Two agents need a link; any other sender needs the agent to exist.      *)
RouteOK(sender, in) ==
  in.to \in Agents => IF sender \in Agents THEN linkedAgents(sender, in.to)
                                           ELSE Registered(in.to)

(* Fault: only the queued messages count.                                  *)
Backlog_QueuedOnly(msgs) == Cardinality({m \in MessageIds : msgs[m].state = "queued"})

Backlog(msgs) == Cardinality({m \in MessageIds : msgs[m].state \in Active})

(* A message to an A2A principal has no inbox: it is stored as received.   *)
(* One to a human, the answer to a request of theirs, waits to be read.    *)
NewMessage(sender, in, t) ==
  LET stored == in.to \in RemotePrincipals IN
  [state |-> IF stored THEN "acknowledged" ELSE "queued",
   from |-> sender, to |-> in.to, mode |-> in.mode,
   response_to |-> in.response_to, idempotency_key |-> in.idempotency_key,
   created_at |-> t, expires_at |-> IF in.expires_in = 0 THEN 0 ELSE t + in.expires_in,
   delivered_at |-> IF stored THEN t ELSE 0,
   acknowledged_at |-> IF stored THEN t ELSE 0,
   response_message_id |-> None, reservation_id |-> None]

InsertMessage(msgs, id, sender, in, t) ==
  [m \in MessageIds |->
     IF m = id THEN NewMessage(sender, in, t)
     ELSE IF in.mode = "response" /\ m = in.response_to
          THEN [msgs[m] EXCEPT !.response_message_id = id]
          ELSE msgs[m]]

(* sendMessageTx: a repeated key returns the first message when the        *)
(* content is the same and is a CONFLICT otherwise; every refusal rolls    *)
(* the transaction back, the expiry it began with included.                *)
sendMessageTx(sender, in) ==
  LET msgs  == expireMessages(messages, now)
      prior == PriorSends(msgs, sender, in) IN
  \/ /\ prior # {}
     /\ \A m \in prior : SameRequest(msgs[m], in)
     /\ messages' = msgs
  \/ /\ prior = {}
     /\ ResponseLinkOK(msgs, sender, in)
     /\ RouteOK(sender, in)
     /\ Backlog(msgs) < MessageBacklogCap
     /\ \E id \in MessageIds :
          /\ messages[id].state = "absent"
          /\ messages' = InsertMessage(msgs, id, sender, in, now)

-----------------------------------------------------------------------------
(* Operations on executions that also touch the inbox.                     *)

(* Fault: a new execution inherits the reservations of the old one.        *)
RegisterAgent_KeepsReservations(token, a, leaseMS, connectTo, workspace) ==
  RegisterRow(token, a, leaseMS, connectTo, workspace) /\ UNCHANGED deliveryVars

RegisterAgent(token, a, leaseMS, connectTo, workspace) ==
  /\ RegisterRow(token, a, leaseMS, connectTo, workspace)
  /\ messages' = releaseReservations(messages, HeldBy(a))
  /\ reservations' = deleteReservations(HeldBy(a))

Heartbeat(p, lifecycle, leaseMS) ==
  HeartbeatRow(p, lifecycle, leaseMS) /\ UNCHANGED deliveryVars

RetireAgent(p) ==
  /\ RetireRow(p)
  /\ messages' = releaseReservations(messages, HeldBy(p.agent))
  /\ reservations' = deleteReservations(HeldBy(p.agent))

RotateScopeToken ==
  /\ RotateRows
  /\ messages' = releaseReservations(messages, Held)
  /\ reservations' = deleteReservations(Held)

-----------------------------------------------------------------------------
(* Operations of the inbox.                                                *)

SendMessage(p, in) ==
  /\ requireCurrentExecution(p)
  /\ sendMessageTx(p.agent, in)
  /\ UNCHANGED <<registryVars, reservations>>

(* A receipt is a read, after the expiry of the whole scope.               *)
Receipt(p, m) ==
  /\ requireCurrentExecution(p)
  /\ Present(messages[m])
  /\ p.agent \in {messages[m].from, messages[m].to}
  /\ messages' = expireMessages(messages, now)
  /\ UNCHANGED <<registryVars, reservations>>

(* ORDER BY created_at LIMIT n: the oldest, ties in any order.             *)
OldestFirst(msgs, S, n) ==
  {T \in SUBSET S : /\ Cardinality(T) = IF Cardinality(S) <= n THEN Cardinality(S) ELSE n
                    /\ \A t \in T, s \in S \ T : msgs[t].created_at <= msgs[s].created_at}

Available(msgs, a) ==
  {m \in MessageIds : /\ msgs[m].to = a
                      /\ msgs[m].state \in {"queued", "delivered"}
                      /\ ~Overdue(msgs[m], now)}

(* ReserveInbox releases the expired reservations of every agent of the    *)
(* scope before it looks at this agent's inbox.                            *)
ReserveInbox(p, limit) ==
  LET expired   == {r \in Held : reservations[r].expires_at <= now}
      msgs      == releaseReservations(expireMessages(messages, now), expired)
      available == Available(msgs, p.agent) IN
  /\ requireCurrentExecution(p)
  /\ \/ /\ available = {}
        /\ messages' = msgs
        /\ reservations' = deleteReservations(expired)
     \/ /\ available # {}
        /\ \E S \in OldestFirst(msgs, available, limit), id \in ReservationIds :
             /\ reservations[id].row = "unused"
             /\ messages' = [m \in MessageIds |->
                  IF m \in S
                  THEN [msgs[m] EXCEPT !.state = "reserved", !.reservation_id = id]
                  ELSE msgs[m]]
             /\ reservations' = [deleteReservations(expired) EXCEPT ![id] =
                  [row |-> "held", agent |-> p.agent,
                   expires_at |-> now + ReservationTTL, execution |-> p.execution]]
  /\ UNCHANGED registryVars

(* Transactions that read the clock again before they write: the checks    *)
(* hold at now, what is written carries a later instant.                   *)
LaterInTx == {t \in now..(now + TxTime) : t = now \/ t <= MaxTime}

ClockOnly(t) == now' = t /\ UNCHANGED <<scopeToken, agents, links>>

(* The messages a commit hands over, and the first delivery time kept.     *)
Committed(msgs, p, r, deliveredAt) ==
  [m \in MessageIds |->
     IF /\ msgs[m].state = "reserved"
        /\ msgs[m].reservation_id = r
        /\ msgs[m].to = p.agent
     THEN [msgs[m] EXCEPT
             !.state = "delivered", !.reservation_id = None,
             !.delivered_at = IF msgs[m].delivered_at = 0 THEN deliveredAt
                                                          ELSE msgs[m].delivered_at]
     ELSE msgs[m]]

(* Fault: the commit does not expire messages first.                       *)
CommitInbox_WithoutExpiry(p, r, deliveredAt) ==
  /\ requireCurrentExecution(p)
  /\ r \in HeldBy(p.agent)
  /\ messages' = IF reservations[r].expires_at <= now
                 THEN releaseReservations(messages, {r})
                 ELSE Committed(messages, p, r, deliveredAt)
  /\ reservations' = deleteReservations({r})
  /\ ClockOnly(deliveredAt)

(* A commit after the reservation ran out answers CONFLICT, and its        *)
(* transaction still commits the release.                                  *)
CommitInbox(p, r, deliveredAt) ==
  /\ requireCurrentExecution(p)
  /\ r \in HeldBy(p.agent)
  /\ messages' = IF reservations[r].expires_at <= now
                 THEN releaseReservations(messages, {r})
                 ELSE Committed(expireMessages(messages, now), p, r, deliveredAt)
  /\ reservations' = deleteReservations({r})
  /\ ClockOnly(deliveredAt)

(* Releasing an unknown reservation succeeds, and still expires messages.  *)
ReleaseInbox(p, r) ==
  /\ requireCurrentExecution(p)
  /\ messages' = releaseReservations(expireMessages(messages, now),
                                     {r} \cap HeldBy(p.agent))
  /\ reservations' = deleteReservations({r} \cap HeldBy(p.agent))
  /\ UNCHANGED registryVars

(* Only messages in state delivered are acknowledged; the others of the    *)
(* request are not counted.                                                *)
AcknowledgeMessages(p, S, acknowledgedAt) ==
  LET msgs == expireMessages(messages, now) IN
  /\ requireCurrentExecution(p)
  /\ messages' = [m \in MessageIds |->
       IF m \in S /\ msgs[m].to = p.agent /\ msgs[m].state = "delivered"
       THEN [msgs[m] EXCEPT !.state = "acknowledged", !.acknowledged_at = acknowledgedAt]
       ELSE msgs[m]]
  /\ ClockOnly(acknowledgedAt)
  /\ UNCHANGED reservations

-----------------------------------------------------------------------------
(* Members of a hosted workspace.  Their membership is checked elsewhere.  *)

SendHumanMessage(h, in) ==
  /\ sendMessageTx(h, in)
  /\ UNCHANGED <<registryVars, reservations>>

(* Reading is delivery and acknowledgement in one.                         *)
ReadHumanMessages(h, S) ==
  LET msgs == expireMessages(messages, now) IN
  /\ messages' = [m \in MessageIds |->
       IF m \in S /\ msgs[m].to = h /\ msgs[m].state \in {"queued", "delivered"}
       THEN [msgs[m] EXCEPT !.state = "acknowledged", !.acknowledged_at = now,
                            !.delivered_at = IF msgs[m].delivered_at = 0 THEN now
                                             ELSE msgs[m].delivered_at]
       ELSE msgs[m]]
  /\ UNCHANGED <<registryVars, reservations>>

-----------------------------------------------------------------------------
(* Retention.                                                              *)

terminalBefore(msg, before) ==
  \/ msg.state = "acknowledged" /\ msg.acknowledged_at < before
  \/ msg.state = "expired" /\ msg.expires_at < before

(* The response of a request that may go together with it.                 *)
RetiredPair(msgs, q, r, before) ==
  /\ msgs[q].mode = "request" /\ terminalBefore(msgs[q], before)
  /\ msgs[q].response_message_id = r
  /\ msgs[r].mode = "response" /\ msgs[r].response_to = q
  /\ terminalBefore(msgs[r], before)

(* Fault: a request without a response goes once it is terminal.           *)
retentionMessageCandidates_Unanswered(msgs, before) ==
  {m \in MessageIds :
     \/ msgs[m].mode = "notify" /\ terminalBefore(msgs[m], before)
     \/ /\ msgs[m].mode = "request" /\ msgs[m].response_message_id = None
        /\ terminalBefore(msgs[m], before)
     \/ \E r \in MessageIds : RetiredPair(msgs, m, r, before)
     \/ \E q \in MessageIds : RetiredPair(msgs, q, m, before)}

retentionMessageCandidates(msgs, before) ==
  {m \in MessageIds :
     \/ msgs[m].mode = "notify" /\ terminalBefore(msgs[m], before)
     \/ /\ msgs[m].mode = "request" /\ msgs[m].response_message_id = None
        /\ terminalBefore(msgs[m], before)
        /\ msgs[m].state = "expired" /\ msgs[m].delivered_at = 0
     \/ \E r \in MessageIds : RetiredPair(msgs, m, r, before)
     \/ \E q \in MessageIds : RetiredPair(msgs, q, m, before)}

(* PruneScope for the messages, less the ones keep: those of A2A tasks     *)
(* that have to stay.  A dry run expires messages and removes none.        *)
PruneMessages(token, before, execute, keep) ==
  LET msgs       == expireMessages(messages, now)
      candidates == retentionMessageCandidates(msgs, before) \ keep IN
  /\ requireScopeCredential(token)
  /\ messages' = [m \in MessageIds |->
       IF execute /\ m \in candidates THEN NoRow("removed") ELSE msgs[m]]
  /\ UNCHANGED <<registryVars, reservations>>

-----------------------------------------------------------------------------
DeliveryInit ==
  /\ RegistryInit
  /\ messages = [m \in MessageIds |-> NoRow("absent")]
  /\ reservations = [r \in ReservationIds |-> NoReservation("unused")]

vars == <<registryVars, deliveryVars>>

(* The steps that belong to the registry, inbox effects included.          *)
RegistryNext ==
  \/ Tick /\ UNCHANGED deliveryVars
  \/ \E token \in 1..MaxTokens, a \in Agents, leaseMS \in LeaseTimes,
        connectTo \in SUBSET Agents, workspace \in BOOLEAN :
       RegisterAgent(token, a, leaseMS, connectTo, workspace)
  \/ \E token \in 1..MaxTokens, a, b \in Agents :
       LinkAgents(token, a, b) /\ UNCHANGED deliveryVars
  \/ \E p \in KnownPrincipals, lifecycle \in ReportedLifecycles, leaseMS \in LeaseTimes :
       Heartbeat(p, lifecycle, leaseMS)
  \/ \E p \in KnownPrincipals : RetireAgent(p)
  \/ RotateScopeToken

InboxNext ==
  \/ \E p \in KnownPrincipals, in \in SendInputs : SendMessage(p, in)
  \/ \E p \in KnownPrincipals, m \in MessageIds : Receipt(p, m)
  \/ \E p \in KnownPrincipals, limit \in InboxLimits : ReserveInbox(p, limit)
  \/ \E p \in KnownPrincipals, r \in ReservationIds, t \in LaterInTx :
       CommitInbox(p, r, t)
  \/ \E p \in KnownPrincipals, r \in ReservationIds : ReleaseInbox(p, r)
  \/ \E p \in KnownPrincipals, S \in SUBSET MessageIds, t \in LaterInTx :
       AcknowledgeMessages(p, S, t)
  \/ \E token \in 1..MaxTokens, before \in 1..MaxTime, execute \in BOOLEAN :
       PruneMessages(token, before, execute, {})

HumanNext ==
  \/ \E h \in Humans, in \in SendInputs : SendHumanMessage(h, in)
  \/ \E h \in Humans, S \in SUBSET MessageIds : ReadHumanMessages(h, S)

DeliveryNext == RegistryNext \/ InboxNext \/ HumanNext

DeliverySpec == DeliveryInit /\ [][DeliveryNext]_vars

-----------------------------------------------------------------------------
DeliveryTypeOK ==
  /\ RegistryTypeOK
  /\ messages \in [MessageIds -> Message]
  /\ reservations \in [ReservationIds -> Reservation]

(* A reserved row names a reservation of its recipient, any other none.    *)
HeldRow(msg, res) ==
  IF msg.state = "reserved"
  THEN /\ msg.reservation_id \in ReservationIds
       /\ res[msg.reservation_id].row = "held"
       /\ res[msg.reservation_id].agent = msg.to
  ELSE msg.reservation_id = None

(* A message is reserved exactly while a reservation row of its recipient  *)
(* holds it: no inbox operation, expiry, retirement, re-registration or    *)
(* rotation leaves a message reserved under a row that is gone, where no   *)
(* release would ever find it, or under a reservation of someone else.     *)
ReservedIffHeld == \A m \in MessageIds : HeldRow(messages[m], reservations)

(* Fencing without a fence column: the reservations table names the agent  *)
(* only, yet a reservation can be committed or released only by the        *)
(* execution that made it, because none survives the end of its execution  *)
(* by replacement, retirement or rotation.                                 *)
ReservationFencing ==
  \A r \in Held :
    LET a == reservations[r].agent IN
    /\ a \in Agents
    /\ agents[a].execution_id = reservations[r].execution
    /\ agents[a].lease_expires_at # 0

(* Nobody but the execution that holds a message can have it delivered,    *)
(* and no message is held by nobody (ReserveInbox, CommitInbox,            *)
(* releaseReservation, RetireAgent, RegisterAgent, RotateScopeToken).      *)
ReservationsSound == DeliveryTypeOK /\ ReservedIffHeld /\ ReservationFencing

InTime(msg) ==
  /\ msg.expires_at # 0 => /\ msg.delivered_at < msg.expires_at + TxTime
                           /\ msg.acknowledged_at < msg.expires_at + TxTime
  /\ msg.state \in {"delivered", "acknowledged"} => msg.delivered_at # 0
  /\ msg.state = "queued" => msg.delivered_at = 0
  /\ msg.state = "acknowledged" <=> msg.acknowledged_at # 0
  /\ msg.acknowledged_at # 0 => msg.delivered_at <= msg.acknowledged_at

(* A message that has expired is not delivered or acknowledged any more,   *)
(* whatever the order of reserving, the clock and the commit: the recorded *)
(* instants pass the expiry at most by the time the transaction itself     *)
(* took, acknowledgement never precedes delivery, and a release never      *)
(* turns a delivered message into one that was never delivered.            *)
DeliveredInTime ==
  \A m \in MessageIds : InTime(messages[m]) /\ messages[m].delivered_at <= now

(* One request has at most one response and a response has its request:    *)
(* the two rows name each other, between the same participants in reverse, *)
(* the request was delivered before the response was accepted, and         *)
(* retention never separates them.                                         *)
ReplyPairing ==
  /\ \A r \in MessageIds : Present(messages[r]) /\ messages[r].mode = "response" =>
       /\ messages[r].response_to \in MessageIds
       /\ LET request == messages[messages[r].response_to] IN
          /\ Present(request) /\ request.mode = "request"
          /\ request.response_message_id = r
          /\ request.from = messages[r].to /\ request.to = messages[r].from
          /\ request.delivered_at \in 1..messages[r].created_at
  /\ \A q \in MessageIds : messages[q].response_message_id # None =>
       LET response == messages[messages[q].response_message_id] IN
       /\ messages[q].mode = "request" /\ Present(messages[q])
       /\ Present(response) /\ response.mode = "response" /\ response.response_to = q

(* A key names at most one retained message of its sender: a retried send  *)
(* never puts a second message into an inbox.                              *)
IdempotentSends ==
  \A m, n \in MessageIds :
    /\ Present(messages[m]) /\ Present(messages[n])
    /\ messages[m].from = messages[n].from
    /\ messages[m].idempotency_key = messages[n].idempotency_key
    /\ messages[m].idempotency_key # None
    => m = n

(* The scope never holds more unfinished messages than its cap: no release *)
(* or redelivery makes a finished message count again.                     *)
BacklogBounded == Backlog(messages) <= MessageBacklogCap

(* Retention removes terminal messages only, and never a delivered request *)
(* that still may be answered.                                             *)
RetentionKeepsObligations ==
  [][\A m \in MessageIds :
       Present(messages[m]) /\ messages'[m].state = "removed" =>
         /\ messages[m].state \in Terminal \/ Overdue(messages[m], now)
         /\ ~ /\ messages[m].mode = "request"
              /\ messages[m].delivered_at # 0
              /\ messages[m].response_message_id = None]_vars

(* spec/0.1/README.md: "Expiry is materialized before delivery,            *)
(* reservation release, reservation commit, and receipt reads."            *)
ExpiryMaterializedBeforeRelease ==
  [][\A m \in MessageIds :
       /\ messages[m].state = "reserved"
       /\ messages'[m].state \in {"queued", "delivered"}
       => ~Overdue(messages[m], now)]_vars

(* The mailbox this module implements: a reserved message is in the phase  *)
(* it returns to, held under its reservation.                              *)
PhaseOf(msg) ==
  IF msg.state = "reserved"
  THEN IF msg.delivered_at = 0 THEN "queued" ELSE "delivered"
  ELSE msg.state

KindOf(msg) == IF msg.to \in Agents THEN "agent"
               ELSE IF msg.to \in Humans THEN "human"
               ELSE IF msg.to \in RemotePrincipals THEN "remote" ELSE "none"

Abstract == INSTANCE Mailbox WITH
  Holds  <- ReservationIds, Nobody <- None,
  phase  <- [m \in MessageIds |-> PhaseOf(messages[m])],
  holder <- [m \in MessageIds |-> messages[m].reservation_id],
  kind   <- [m \in MessageIds |-> KindOf(messages[m])]

(* Every transaction of the scope moves each message along the life cycle  *)
(* that the mailbox promises: no re-registration, release, expiry, retry   *)
(* or retention pass takes a message back to an earlier phase, revives a   *)
(* finished one, or loses an unfinished one.                               *)
ImplementsMailbox == Abstract!MailboxSpec
=============================================================================
