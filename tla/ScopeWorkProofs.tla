-------------------------- MODULE ScopeWorkProofs --------------------------
(***************************************************************************)
(* Theorems about the work that rides on messages: the questions to humans *)
(* (Escalations), the tasks of remote principals (RemoteTasks), and a      *)
(* scope with both that is exported, deleted and imported (Archive).  What *)
(* the operations do to the rows of the messages is taken from             *)
(* DeliveryProofs.                                                         *)
(***************************************************************************)
EXTENDS Archive, DeliveryProofs

-----------------------------------------------------------------------------
(* The rows alone: what every kind of step on the messages keeps.          *)

(* No identifier that is not in use carries a sender or a key.             *)
BlankRow(msg) == ~Present(msg) => msg.from = None /\ msg.idempotency_key = None

Blank == \A m \in MessageIds : BlankRow(messages[m])

RowsInv == DeliveryInv /\ ReplyPairing /\ Dated /\ Blank

(* Rows that are carried.                                                  *)
LEMMA CarriedRowsInv ==
  ASSUME RowsInv, DeliveryInv', AllCarried(messages'), now <= now'
  PROVE  RowsInv'
  <1>1. Blank'
    BY DEF RowsInv, Blank, BlankRow, AllCarried, Carried
  <1> QED BY <1>1, CarriedPairs, CarriedDates DEF RowsInv

(* A row more.                                                             *)
LEMMA StoredRowsInv ==
  ASSUME RowsInv, DeliveryInv', Stored, now <= now'
  PROVE  RowsInv'
  <1>1. now' \in Nat
    BY DEF DeliveryInv, DeliveryTypeOK, RegistryTypeOK
  <1>2. PICK sender \in Participants, in \in SendInputs, id \in MessageIds :
          Stores(sender, in, id)
    BY DEF Stored, StoredBy
  <1>3. ASSUME NEW m \in MessageIds PROVE BlankRow(messages'[m])
    <2>1. CASE m = id
      BY <1>2, <2>1, StoredNew DEF RowsInv, BlankRow
    <2>2. CASE m # id
      BY <1>2, <2>2, StoredOthers DEF RowsInv, Blank, BlankRow, Carried, Present
    <2> QED BY <2>1, <2>2
  <1> QED BY <1>1, <1>3, StoredPairs, StoredDates DEF RowsInv, Blank

(* A send, in the transaction of which the clock stands.                   *)
LEMMA SentRowsInv ==
  ASSUME RowsInv, NEW sender \in Participants, NEW in \in SendInputs,
         sendMessageTx(sender, in), UNCHANGED <<registryVars, reservations>>
  PROVE  RowsInv' /\ now' = now
  <1>1. now' = now /\ now \in Nat
    BY DEF registryVars, RowsInv, DeliveryInv, DeliveryTypeOK, RegistryTypeOK
  <1>2. DeliveryInv'
    BY SendPreserves DEF RowsInv
  <1>3. AllCarried(messages') \/ Stored
    BY SendStores DEF RowsInv, Stored, StoredBy
  <1> QED BY <1>1, <1>2, <1>3, CarriedRowsInv, StoredRowsInv

(* A retention pass that keeps requests and responses together.            *)
LEMMA PrunedRowsInv ==
  ASSUME RowsInv, NEW token, NEW before, NEW execute, NEW keep,
         PruneMessages(token, before, execute, keep),
         \A q, r \in MessageIds :
           messages[q].response_message_id = r /\ messages[r].response_to = q
             => (q \in keep <=> r \in keep)
  PROVE  RowsInv' /\ now' = now
  <1>1. now' = now
    BY DEF PruneMessages, registryVars
  <1>2. DeliveryInv'
    BY PrunePreserves DEF RowsInv
  <1>3. ReplyPairing'
    BY <1>2, PrunedPairs DEF RowsInv
  <1>4. Dated'
    BY <1>1, PrunedDates DEF RowsInv
  <1>5. ASSUME NEW m \in MessageIds PROVE BlankRow(messages'[m])
    <2>1. PICK e : e = expireMessages(messages, now)[m]
      OBVIOUS
    <2>2. Carried(messages[m], e) /\ (messages'[m] = e \/ messages'[m] = NoRow("removed"))
      BY <2>1, PrunedRows DEF RowsInv
    <2> QED BY <2>2 DEF RowsInv, Blank, BlankRow, Carried, NoRow
  <1> QED BY <1>1, <1>2, <1>3, <1>4, <1>5 DEF RowsInv, Blank

(* A step of the scope itself, which removes nothing.                      *)
LEMMA StepRowsInv ==
  ASSUME RowsInv, DeliveryNext,
         \A m \in MessageIds : messages'[m].state = "removed" => messages[m].state = "removed"
  PROVE  RowsInv' /\ (AllCarried(messages') \/ StoredBy(Agents \cup Humans))
  <1>1. DeliveryInv' /\ now <= now'
    BY InvPreserved, ClockRuns DEF RowsInv
  <1>2. AllCarried(messages') \/ StoredBy(Agents \cup Humans)
    BY StepStores, NothingPruned DEF RowsInv
  <1>3. StoredBy(Agents \cup Humans) => Stored
    BY DEF Stored, StoredBy, Participants
  <1> QED BY <1>1, <1>2, <1>3, CarriedRowsInv, StoredRowsInv

(* No step on the rows.                                                    *)
LEMMA SameRowsInv ==
  ASSUME RowsInv, UNCHANGED vars
  PROVE  RowsInv'
  <1>1. DeliveryInv' /\ messages' = messages /\ now' = now
    BY InvPreserved DEF RowsInv, vars, registryVars, deliveryVars
  <1> QED BY <1>1 DEF RowsInv, ReplyPairing, Present, Dated, Blank

(* The tables of the empty scope.                                          *)
LEMMA InitRowsInv ==
  ASSUME DeliveryInit
  PROVE  RowsInv
  <1>1. messages = [m \in MessageIds |-> NoRow("absent")] /\ now = 1
    BY DEF DeliveryInit, RegistryInit
  <1>2. ReplyPairing /\ Dated /\ Blank
    BY <1>1 DEF ReplyPairing, Dated, DatedRow, Blank, BlankRow, NoRow, Present, Active, Terminal
  <1> QED BY <1>2, InitInv DEF RowsInv

-----------------------------------------------------------------------------
(* Questions to humans.                                                    *)

Escalation == [status : {"absent", "pending", "resolved", "removed"},
               agent : Agents \cup {None}, resolved_at : Nat]

(* A pending question has somebody to answer to.                           *)
QuestionRow(row) ==
  row \in Escalation /\ (row.status = "pending" => row.agent \in Agents)

Answers(e) == {m \in MessageIds : Present(messages[m]) /\ messages[m].idempotency_key = e}

(* The message is the answer of the question: a notification that never    *)
(* expires, created with the resolution.                                   *)
AnswerOf(msg, row) ==
  /\ msg.to = row.agent /\ msg.created_at = row.resolved_at
  /\ msg.mode = "notify" /\ msg.expires_at = 0

AnswerOK(e) ==
  /\ escalations[e].status \in {"absent", "pending"} => Answers(e) = {}
  /\ escalations[e].status = "resolved" =>
       \E m \in MessageIds : Answers(e) = {m} /\ AnswerOf(messages[m], escalations[e])

(* An answer is kept as long as its question because the two were written  *)
(* at the same instant, and what is finished later goes later.             *)
AnswersInv ==
  /\ RowsInv
  /\ escalations \in [EscalationIds -> Escalation]
  /\ \A e \in EscalationIds : QuestionRow(escalations[e]) /\ AnswerOK(e)

(* Rows that are carried.                                                  *)
LEMMA CarriedAnswers ==
  ASSUME AnswersInv, RowsInv', AllCarried(messages'), escalations' = escalations
  PROVE  AnswersInv'
  <1>1. ASSUME NEW e \in EscalationIds PROVE AnswerOK(e)'
    <2>1. Answers(e)' = Answers(e)
      BY DEF Answers, AllCarried, Carried
    <2>2. \A m \in MessageIds : AnswerOf(messages[m], escalations[e])
                                  => AnswerOf(messages'[m], escalations'[e])
      BY DEF AnswerOf, AllCarried, Carried
    <2> QED BY <2>1, <2>2 DEF AnswersInv, AnswerOK
  <1> QED BY <1>1 DEF AnswersInv

(* The key of the new message decides which answers there are.             *)
LEMMA StoredKeys ==
  ASSUME AnswersInv, NEW sender \in Participants, NEW in \in SendInputs,
         NEW id \in MessageIds, Stores(sender, in, id)
  PROVE  /\ messages[id].idempotency_key = None /\ ~Present(messages[id])
         /\ messages'[id].idempotency_key = in.idempotency_key
         /\ \A e \in EscalationIds :
              Answers(e)' = Answers(e) \cup (IF in.idempotency_key = e THEN {id} ELSE {})
         /\ \A m \in MessageIds, row \in Escalation : m # id /\ AnswerOf(messages[m], row)
              => AnswerOf(messages'[m], row)
  <1>1. DeliveryInv /\ Blank
    BY DEF AnswersInv, RowsInv
  <1>2. messages[id].idempotency_key = None /\ ~Present(messages[id])
    BY <1>1 DEF Stores, Blank, BlankRow, Present, Active, Terminal
  <1>3. /\ messages'[id].idempotency_key = in.idempotency_key
        /\ Present(messages'[id])
    BY <1>1, StoredNew
  <1>4. ASSUME NEW m \in MessageIds, m # id
        PROVE  /\ messages'[m].idempotency_key = messages[m].idempotency_key
               /\ Present(messages'[m]) <=> Present(messages[m])
               /\ messages'[m].to = messages[m].to /\ messages'[m].mode = messages[m].mode
               /\ messages'[m].created_at = messages[m].created_at
               /\ messages'[m].expires_at = messages[m].expires_at
    BY <1>1, <1>4, StoredOthers DEF Carried, Present
  <1>6. ASSUME NEW e \in EscalationIds
        PROVE  Answers(e)' = Answers(e) \cup (IF in.idempotency_key = e THEN {id} ELSE {})
    BY <1>2, <1>3, <1>4 DEF Answers
  <1>7. \A m \in MessageIds, row \in Escalation : m # id /\ AnswerOf(messages[m], row)
              => AnswerOf(messages'[m], row)
    BY <1>4 DEF AnswerOf
  <1> QED BY <1>2, <1>3, <1>6, <1>7

(* A client does not send under the key of an answer.                      *)
LEMMA StoredAnswers ==
  ASSUME AnswersInv, RowsInv', Stored, ClientStep, escalations' = escalations
  PROVE  AnswersInv'
  <1>1. PICK sender \in Participants, in \in SendInputs, id \in MessageIds :
          Stores(sender, in, id)
    BY DEF Stored, StoredBy
  <1>3. None \notin EscalationIds
    BY EscalationAssumption, DeliveryAssumption
  <1>4. in.idempotency_key \notin EscalationIds
    BY <1>1, <1>3, StoredKeys DEF ClientStep
  <1>5. ASSUME NEW e \in EscalationIds PROVE AnswerOK(e)'
    <2>1. Answers(e)' = Answers(e) /\ id \notin Answers(e)
      BY <1>1, <1>4, StoredKeys DEF Answers
    <2>2. escalations[e] \in Escalation
      BY DEF AnswersInv
    <2>3. \A m \in Answers(e) : AnswerOf(messages[m], escalations[e])
                                  => AnswerOf(messages'[m], escalations'[e])
      BY <1>1, <2>1, <2>2, StoredKeys DEF Answers
    <2> QED BY <2>1, <2>3 DEF AnswersInv, AnswerOK
  <1> QED BY <1>5 DEF AnswersInv

(* The resolution and its answer are one transaction.                      *)
LEMMA ResolveKeeps ==
  ASSUME AnswersInv, NEW h \in Humans, NEW e \in EscalationIds, ResolveEscalation(h, e)
  PROVE  AnswersInv'
  <1> DEFINE in == AnswerInput(e)
  <1>1. /\ escalations \in [EscalationIds -> Escalation] /\ RowsInv
        /\ escalations[e].status = "pending" /\ escalations[e].agent \in Agents
        /\ Answers(e) = {} /\ now \in Nat /\ h \in Participants
    BY DEF AnswersInv, RowsInv, ResolveEscalation, QuestionRow, AnswerOK, DeliveryInv,
           DeliveryTypeOK, RegistryTypeOK, Participants
  <1>2. in \in SendInputs /\ in.idempotency_key = e /\ in.to = escalations[e].agent
        /\ in.mode = "notify" /\ in.expires_in = 0
    BY <1>1, EscalationAssumption DEF SendInputs, AnswerInput, Participants, Modes
  <1> HIDE DEF in
  <1>3. /\ sendMessageTx(h, in) /\ UNCHANGED <<registryVars, reservations>>
        /\ escalations' = [escalations EXCEPT ![e].status = "resolved", ![e].resolved_at = now]
    BY DEF ResolveEscalation, in
  <1>4. RowsInv'
    BY <1>1, <1>2, <1>3, SentRowsInv
  <1>5. PriorSends(expireMessages(messages, now), h, in) = {}
    <2>1. messages \in [MessageIds -> Message]
      BY <1>1 DEF RowsInv, DeliveryInv, DeliveryTypeOK
    <2>2. \A m \in MessageIds : Carried(messages[m], expireMessages(messages, now)[m])
      BY <2>1, ExpireCarries DEF AllCarried
    <2> QED BY <1>1, <1>2, <2>2 DEF PriorSends, Carried, Answers
  <1>6. PICK id \in MessageIds : Stores(h, in, id)
    BY <1>3, <1>5, Zenon DEF sendMessageTx, Stores
  <1>8. AnswerOf(messages'[id], escalations'[e])
    <2>1. messages'[id] = NewMessage(h, in, now)
      BY <1>1, <1>2, <1>6, StoredRows DEF RowsInv
    <2>2. escalations'[e].agent = escalations[e].agent /\ escalations'[e].resolved_at = now
      BY <1>1, <1>3 DEF Escalation
    <2> QED BY <1>2, <2>1, <2>2 DEF NewMessage, AnswerOf
  <1>9. /\ QuestionRow(escalations'[e]) /\ escalations'[e].status = "resolved"
        /\ \A f \in EscalationIds \ {e} : escalations'[f] = escalations[f]
        /\ escalations' \in [EscalationIds -> Escalation]
    BY <1>1, <1>3 DEF Escalation, QuestionRow
  <1>10. AnswerOK(e)'
    <2>1. Answers(e)' = {id}
      BY <1>1, <1>2, <1>6, StoredKeys
    <2> QED BY <1>8, <1>9, <2>1 DEF AnswerOK
  <1>11. ASSUME NEW f \in EscalationIds \ {e} PROVE AnswerOK(f)'
    <2>1. Answers(f)' = Answers(f) /\ id \notin Answers(f)
      BY <1>1, <1>2, <1>6, StoredKeys DEF Answers
    <2>2. \A m \in Answers(f) : AnswerOf(messages[m], escalations[f])
                                  => AnswerOf(messages'[m], escalations'[f])
      BY <1>1, <1>2, <1>6, <1>9, <2>1, StoredKeys DEF Answers
    <2> QED BY <1>9, <2>1, <2>2 DEF AnswersInv, AnswerOK
  <1> QED BY <1>4, <1>9, <1>10, <1>11 DEF AnswersInv

(* Retention: an answer that may go finished before the cutoff, so that it *)
(* was created before it, and its question goes with it.  What else has to *)
(* stay makes no difference.                                               *)
LEMMA PruneKeepsAnswers ==
  ASSUME AnswersInv, RowsInv', NEW token, NEW before \in Nat, NEW execute \in BOOLEAN,
         NEW keep, PruneMessages(token, before, execute, keep),
         PruneEscalations(before, execute)
  PROVE  AnswersInv'
  <1> DEFINE msgs == expireMessages(messages, now)
  <1>1. /\ RowsInv /\ escalations \in [EscalationIds -> Escalation]
        /\ \A e \in EscalationIds : QuestionRow(escalations[e]) /\ AnswerOK(e)
    BY DEF AnswersInv
  <1>3. ASSUME NEW m \in MessageIds
        PROVE  /\ Carried(messages[m], msgs[m]) /\ msgs[m] \in Message
               /\ \/ messages'[m] = msgs[m]
                  \/ /\ messages'[m] = NoRow("removed") /\ execute
                     /\ m \in retentionMessageCandidates(msgs, before)
    BY <1>1, PrunedRows DEF RowsInv
  <1>5. \A e \in EscalationIds :
          escalations'[e] = IF execute /\ e \in retentionEscalationCandidates(before)
                            THEN NoEscalation("removed") ELSE escalations[e]
    BY DEF PruneEscalations
  <1>6. escalations' \in [EscalationIds -> Escalation]
    BY <1>1 DEF PruneEscalations, NoEscalation, Escalation
  <1>7. ASSUME NEW e \in EscalationIds PROVE QuestionRow(escalations'[e])
    BY <1>1, <1>5, <1>6 DEF QuestionRow, NoEscalation
  <1>8. ASSUME NEW e \in EscalationIds PROVE Answers(e)' \subseteq Answers(e)
    BY <1>3 DEF Answers, Carried, NoRow, Present, Active, Terminal
  <1>9. ASSUME NEW e \in EscalationIds, escalations'[e] = escalations[e],
               escalations[e].status = "resolved",
               ~(execute /\ e \in retentionEscalationCandidates(before)),
               NEW m \in MessageIds, Answers(e) = {m}, AnswerOf(messages[m], escalations[e])
        PROVE  Answers(e)' = {m} /\ AnswerOf(messages'[m], escalations'[e])
    <2>1. /\ messages[m].to = escalations[e].agent
          /\ messages[m].created_at = escalations[e].resolved_at
          /\ messages[m].mode = "notify" /\ messages[m].expires_at = 0
          /\ escalations[e].resolved_at \in Nat
          /\ Present(messages[m]) /\ messages[m].idempotency_key = e
      BY <1>1, <1>9 DEF AnswerOf, Escalation, Answers
    <2>2. DatedRow(msgs[m], now) /\ InTime(msgs[m])
      <3>1. DatedRow(messages[m], now) /\ messages[m] \in Message /\ now \in Nat
        BY <1>1 DEF RowsInv, Dated, DeliveryInv, DeliveryTypeOK, RegistryTypeOK
      <3>2. DatedRow(msgs[m], now)
        <4> HIDE DEF msgs
        <4> QED BY <1>3, <3>1 DEF DatedRow, Carried, Message
      <3> QED BY <1>1, <3>2, ExpiredRows DEF RowsInv
    <2>3. messages'[m] = msgs[m]
      <3> SUFFICES ASSUME execute, m \in retentionMessageCandidates(msgs, before) PROVE FALSE
        BY <1>3
      <3>1. escalations[e].resolved_at >= before
        BY <1>1, <1>9, <2>1 DEF retentionEscalationCandidates
      <3>2. msgs[m].mode = "notify" /\ msgs[m].expires_at = 0
            /\ msgs[m].created_at = escalations[e].resolved_at /\ msgs[m] \in Message
        BY <1>3, <2>1 DEF Carried
      <3>3. terminalBefore(msgs[m], before)
        BY <3>2 DEF retentionMessageCandidates, RetiredPair
      <3>4. msgs[m].state = "acknowledged" /\ msgs[m].acknowledged_at < before
        BY <2>2, <3>2, <3>3 DEF terminalBefore, DatedRow
      <3> HIDE DEF msgs
      <3>5. /\ msgs[m].acknowledged_at # 0 /\ msgs[m].delivered_at # 0
            /\ msgs[m].delivered_at <= msgs[m].acknowledged_at
            /\ msgs[m].created_at <= msgs[m].delivered_at
        BY <2>2, <3>2, <3>4 DEF InTime, DatedRow
      <3>6. /\ msgs[m].acknowledged_at \in Nat /\ msgs[m].delivered_at \in Nat
            /\ msgs[m].created_at \in Nat
        BY <3>2 DEF Message
      <3> QED BY <2>1, <3>1, <3>2, <3>4, <3>5, <3>6
    <2> HIDE DEF msgs
    <2>4. Carried(messages[m], messages'[m])
      BY <1>3, <2>3
    <2>5. m \in Answers(e)'
      BY <2>1, <2>4 DEF Answers, Carried
    <2>6. AnswerOf(messages'[m], escalations'[e])
      BY <1>9, <2>4 DEF AnswerOf, Carried
    <2> QED BY <1>8, <1>9, <2>5, <2>6
  <1>10. ASSUME NEW e \in EscalationIds PROVE AnswerOK(e)'
    <2>1. CASE execute /\ e \in retentionEscalationCandidates(before)
      BY <1>5, <2>1 DEF AnswerOK, NoEscalation
    <2>2. CASE ~(execute /\ e \in retentionEscalationCandidates(before))
      <3>1. escalations'[e] = escalations[e]
        BY <1>5, <2>2
      <3>2. CASE escalations[e].status = "resolved"
        <4>1. PICK m \in MessageIds : Answers(e) = {m} /\ AnswerOf(messages[m], escalations[e])
          BY <1>1, <3>2 DEF AnswerOK
        <4>2. Answers(e)' = {m} /\ AnswerOf(messages'[m], escalations'[e])
          BY <1>9, <2>2, <3>1, <3>2, <4>1
        <4> QED BY <3>1, <3>2, <4>2 DEF AnswerOK
      <3>3. CASE escalations[e].status # "resolved"
        BY <1>1, <1>8, <3>1, <3>3 DEF AnswerOK
      <3> QED BY <3>2, <3>3
    <2> QED BY <2>1, <2>2
  <1> QED BY <1>6, <1>7, <1>10 DEF AnswersInv

(* A question is new: its identifier has no answer yet.                    *)
LEMMA AskKeeps ==
  ASSUME AnswersInv, NEW p \in KnownPrincipals, AskHuman(p)
  PROVE  AnswersInv'
  <1>1. /\ p.agent \in Agents /\ messages' = messages /\ now' = now
        /\ UNCHANGED <<registryVars, reservations>>
    BY DEF KnownPrincipals, AskHuman, registryVars, deliveryVars
  <1>2. PICK e \in EscalationIds :
          /\ escalations[e].status = "absent"
          /\ escalations' = [escalations EXCEPT ![e] =
               [status |-> "pending", agent |-> p.agent, resolved_at |-> 0]]
    BY DEF AskHuman
  <1>3. RowsInv'
    <2>1. UNCHANGED vars
      BY <1>1 DEF vars, registryVars, deliveryVars
    <2> QED BY <2>1, SameRowsInv DEF AnswersInv
  <1>4. \A f \in EscalationIds : Answers(f)' = Answers(f)
    BY <1>1 DEF Answers, Present
  <1>5. ASSUME NEW f \in EscalationIds PROVE QuestionRow(escalations'[f]) /\ AnswerOK(f)'
    <2>1. /\ escalations \in [EscalationIds -> Escalation]
          /\ QuestionRow(escalations[f]) /\ AnswerOK(f)
      BY DEF AnswersInv
    <2>2. CASE f = e
      BY <1>1, <1>2, <1>4, <2>1, <2>2 DEF QuestionRow, AnswerOK, Escalation
    <2>3. CASE f # e
      BY <1>1, <1>2, <1>4, <2>1, <2>3 DEF AnswerOK
    <2> QED BY <2>2, <2>3
  <1>6. escalations' \in [EscalationIds -> Escalation]
    BY <1>1, <1>2 DEF AnswersInv, Escalation
  <1> QED BY <1>3, <1>5, <1>6 DEF AnswersInv

(* Every step of a scope with questions.                                   *)
LEMMA AnswersPreserved ==
  ASSUME AnswersInv, [EscalationsNext]_<<vars, escalations>>
  PROVE  AnswersInv'
  <1>1. CASE UNCHANGED <<vars, escalations>>
    <2>1. UNCHANGED vars /\ messages' = messages /\ escalations' = escalations
      BY <1>1 DEF vars, deliveryVars
    <2> QED BY <2>1, SameRowsInv DEF AnswersInv, AnswerOK, Answers, Present
  <1>2. ASSUME Messages PROVE AnswersInv'
    <2>1. /\ DeliveryInv' /\ AllCarried(messages') /\ now' = now /\ escalations' = escalations
          /\ now \in Nat
      BY <1>2, ReadKeeps DEF Messages, AnswersInv, RowsInv, DeliveryInv, DeliveryTypeOK,
                             RegistryTypeOK
    <2>2. RowsInv'
      BY <2>1, CarriedRowsInv DEF AnswersInv
    <2> QED BY <2>1, <2>2, CarriedAnswers
  <1>3. ASSUME DeliveryNext, ClientStep, escalations' = escalations PROVE AnswersInv'
    <2>1. \A m \in MessageIds : messages'[m].state = "removed" => messages[m].state = "removed"
      BY <1>3 DEF ClientStep
    <2>2. RowsInv' /\ (AllCarried(messages') \/ Stored)
      BY <1>3, <2>1, StepRowsInv DEF AnswersInv, Stored, StoredBy, Participants
    <2> QED BY <1>3, <2>2, CarriedAnswers, StoredAnswers
  <1>4. \A before \in 1..MaxTime : before \in Nat
    BY RegistryAssumption
  <1>5. ASSUME NEW token, NEW before \in Nat, NEW execute \in BOOLEAN,
               PruneAnswered(token, before, execute)
        PROVE  AnswersInv'
    <2>1. PruneMessages(token, before, execute, {}) /\ PruneEscalations(before, execute)
      BY <1>5 DEF PruneAnswered
    <2>2. RowsInv'
      BY <2>1, PrunedRowsInv DEF AnswersInv
    <2> QED BY <2>1, <2>2, PruneKeepsAnswers
  <1> QED BY <1>1, <1>2, <1>3, <1>4, <1>5, AskKeeps, ResolveKeeps, Zenon
          DEF EscalationsNext

(* A new scope has no question.                                            *)
LEMMA InitAnswers ==
  ASSUME DeliveryInit, EscalationsInit
  PROVE  AnswersInv
  <1>1. RowsInv
    BY InitRowsInv
  <1>2. /\ messages = [m \in MessageIds |-> NoRow("absent")] /\ now = 1
        /\ escalations = [e \in EscalationIds |-> NoEscalation("absent")]
    BY DEF DeliveryInit, RegistryInit, EscalationsInit
  <1>3. \A e \in EscalationIds : QuestionRow(escalations[e]) /\ AnswerOK(e)
    BY <1>2 DEF QuestionRow, Escalation, AnswerOK, Answers, NoRow, NoEscalation, Present,
                Active, Terminal
  <1> QED BY <1>1, <1>2, <1>3 DEF AnswersInv, QuestionRow

(* The invariant is stronger than what is promised.                        *)
LEMMA AnswersShown == AnswersInv => AnswersKept
  <1> SUFFICES ASSUME AnswersInv PROVE AnswerStaysWithQuestion
    BY DEF AnswersKept, AnswersInv, RowsInv
  <1> SUFFICES ASSUME NEW e \in EscalationIds
               PROVE  /\ escalations[e].status = "pending" => Answers(e) = {}
                      /\ escalations[e].status = "resolved" =>
                           \E m \in Answers(e) :
                             /\ Answers(e) = {m}
                             /\ messages[m].to = escalations[e].agent
                             /\ messages[m].created_at = escalations[e].resolved_at
    BY DEF AnswerStaysWithQuestion, Answers
  <1> QED BY DEF AnswersInv, AnswerOK, AnswerOf

(* A question that an agent put to a human has its one answer from the     *)
(* moment it is resolved until both go, and a request of an agent its one  *)
(* response (ResolveEscalation, sendMessageTx, PruneScope).                *)
THEOREM AnswersAreKept == EscalationsSpec => []AnswersKept
  BY InitAnswers, AnswersShown, AnswersPreserved, PTL DEF EscalationsSpec

-----------------------------------------------------------------------------
(* Work of remote principals.                                              *)

Publication == [agent : Agents \cup {None}, enabled : BOOLEAN]
Credential  == [publication : PublicationIds \cup {None}, version : Nat, enabled : BOOLEAN]
RemoteTask  == [state : RemoteTaskState \cup {"absent", "removed"},
                principal : RemotePrincipals \cup {None}, agent : Agents \cup {None},
                updated_at : Nat]
Correlation == [task : RemoteTaskIds \cup {None}, asked : RemoteTaskIds \cup {None},
                request : MessageIds \cup {None}, response : MessageIds \cup {None}]

RemoteTypeOK ==
  /\ publications \in [PublicationIds -> Publication]
  /\ credentials \in [RemotePrincipals -> Credential]
  /\ a2aTasks \in [RemoteTaskIds -> RemoteTask]
  /\ correlations \in [CorrelationKeys -> Correlation]

(* A credential is one for a publication, and that one of an agent; a      *)
(* principal without a secret has neither.                                 *)
CredentialOK(c) ==
  /\ credentials[c].version = 0 => credentials[c].publication = None
  /\ credentials[c].enabled => credentials[c].publication \in PublicationIds
  /\ credentials[c].publication \in PublicationIds
       => publications[credentials[c].publication].agent \in Agents

(* The request of a correlation: sent by the principal under the client's  *)
(* ID to the agent of the task, without expiry, and answered as the        *)
(* correlation says.                                                       *)
RequestRow(c, response, msg) ==
  /\ Present(msg) /\ msg.from = c[1] /\ msg.idempotency_key = c[2]
  /\ msg.mode = "request" /\ msg.expires_at = 0
  /\ msg.response_message_id = response

CorrelationOK(c) ==
  /\ correlations[c].task = None => correlations[c] = NoCorrelation
  /\ correlations[c].task # None =>
       /\ correlations[c].task \in RemoteTaskIds
       /\ TaskPresent(correlations[c].task)
       /\ a2aTasks[correlations[c].task].principal = c[1]
       /\ correlations[c].request \in MessageIds
       /\ RequestRow(c, correlations[c].response, messages[correlations[c].request])
       /\ messages[correlations[c].request].to = a2aTasks[correlations[c].task].agent

(* No message of a remote principal is without its correlation, so that a  *)
(* client's ID that has none is new to the messages too.                   *)
CorrelatedOK(m) ==
  Present(messages[m]) /\ messages[m].from \in RemotePrincipals =>
    LET c == <<messages[m].from, messages[m].idempotency_key>> IN
    c \in CorrelationKeys /\ correlations[c].request = m

SubmittedOK(k) ==
  a2aTasks[k].state = "submitted" =>
    \E q \in MessageIds :
      /\ RequestsOf(k) = {q}
      /\ messages[q].state \in {"queued", "reserved"} /\ messages[q].delivered_at = 0
      /\ messages[q].to = a2aTasks[k].agent

(* The counts of AcceptA2AMessage are of finite sets.                      *)
ShareOK ==
  /\ IsFiniteSet(RemoteActive(messages))
  /\ Cardinality(RemoteActive(messages)) <= MaxRemoteBacklog
  /\ \A c \in RemotePrincipals : /\ IsFiniteSet(UnfinishedOf(c))
                                 /\ Cardinality(UnfinishedOf(c)) <= PrincipalMessageLimit

RemoteInv ==
  /\ RowsInv /\ RemoteTypeOK
  /\ \A c \in RemotePrincipals : CredentialOK(c)
  /\ \A c \in CorrelationKeys : CorrelationOK(c)
  /\ \A m \in MessageIds : CorrelatedOK(m)
  /\ \A k \in RemoteTaskIds : SubmittedOK(k)

(* What a step that removes nothing and sends nothing of a principal does  *)
(* to the row of a message that is there, or of one that is new.           *)
RowKept(x, y) ==
  /\ y.from = x.from /\ y.to = x.to /\ y.mode = x.mode
  /\ y.idempotency_key = x.idempotency_key /\ y.expires_at = x.expires_at
  /\ y.delivered_at = x.delivered_at \/ x.delivered_at = 0
  /\ y.response_message_id = x.response_message_id \/ x.response_message_id = None
  /\ Present(y) <=> Present(x)
  /\ y.state \in Active => x.state \in Active

RowNew(x, y) == ~Present(x) /\ y.from \notin RemotePrincipals

RowsKept == \A m \in MessageIds : \/ RowKept(messages[m], messages'[m])
                                  \/ RowNew(messages[m], messages'[m])

(* A step of the scope that removes nothing keeps the rows.                *)
LEMMA StepKeepsRows ==
  ASSUME DeliveryInv, AllCarried(messages') \/ StoredBy(Agents \cup Humans)
  PROVE  RowsKept
  <1>1. ASSUME AllCarried(messages') PROVE RowsKept
    BY <1>1 DEF RowsKept, AllCarried, Carried, RowKept
  <1>2. ASSUME NEW sender \in Agents \cup Humans, NEW in \in SendInputs, NEW id \in MessageIds,
               Stores(sender, in, id), NEW m \in MessageIds
        PROVE  RowKept(messages[m], messages'[m]) \/ RowNew(messages[m], messages'[m])
    <2>1. sender \in Participants /\ sender \notin RemotePrincipals
      BY DeliveryAssumption DEF Participants
    <2>2. CASE m = id
      BY <1>2, <2>1, <2>2, StoredNew DEF RowNew, Stores, Present, Active, Terminal
    <2>3. CASE m # id
      <3>1. PICK e : e = expireMessages(messages, now)[m]
        OBVIOUS
      <3>2. /\ messages'[m].from = messages[m].from /\ messages'[m].to = messages[m].to
            /\ messages'[m].mode = messages[m].mode
            /\ messages'[m].idempotency_key = messages[m].idempotency_key
            /\ messages'[m].expires_at = messages[m].expires_at
            /\ messages'[m].delivered_at = e.delivered_at /\ messages'[m].state = e.state
            /\ messages'[m].response_message_id =
                 IF in.mode = "response" /\ m = in.response_to
                 THEN id ELSE messages[m].response_message_id
            /\ Carried(messages[m], e)
        BY <1>2, <2>1, <2>3, <3>1, StoredOthers
      <3>3. in.mode = "response" /\ m = in.response_to => e.response_message_id = None
        BY <1>2, <3>1 DEF Stores, ResponseLinkOK
      <3> QED BY <3>2, <3>3 DEF RowKept, Carried, Present
    <2> QED BY <2>2, <2>3
  <1> QED BY <1>1, <1>2 DEF StoredBy, RowsKept

(* What becomes of a task: it stays as it was, or moves on to a state that *)
(* is not the first one and keeps whose it is.                             *)
TaskMoves(x, y) ==
  \/ y = x
  \/ /\ x.state \in RemoteTaskState \ TaskTerminal
     /\ y.state \in {"failed", "completed", "working"}
     /\ validA2ATaskTransition(x.state, y.state)
     /\ y.principal = x.principal /\ y.agent = x.agent /\ y \in RemoteTask

(* The synchronisation of the tasks: each moves as its messages say.       *)
LEMMA FollowTasks ==
  ASSUME RemoteTypeOK, now' \in Nat, FollowMessages, NEW k \in RemoteTaskIds
  PROVE  /\ TaskMoves(a2aTasks[k], a2aTasks'[k])
         /\ a2aTasks'[k].state = "submitted" =>
              /\ a2aTasks[k].state = "submitted"
              /\ \A q \in RequestsOf(k) : ~Failed(q) /\ ~FirstSeen(q)
  <1> DEFINE failed == \E q \in RequestsOf(k) : Failed(q)
             answered == \E q \in RequestsOf(k) : Answered(q)
             delivered == \E q \in RequestsOf(k) : FirstSeen(q)
  <1>1. PICK x : x = a2aTasks[k]
    OBVIOUS
  <1>2. x \in RemoteTask
    BY <1>1 DEF RemoteTypeOK
  <1>3. a2aTasks'[k] = IF TaskPresent(k)
                       THEN transitionA2ATaskForMessage(x, failed, answered, delivered) ELSE x
    BY <1>1 DEF FollowMessages
  <1> HIDE DEF failed, answered, delivered
  <1>4. \A s \in {"failed", "completed", "working"} :
          LET y == [x EXCEPT !.state = s, !.updated_at = now'] IN
          /\ y \in RemoteTask /\ y.state = s
          /\ y.principal = x.principal /\ y.agent = x.agent
    BY <1>2 DEF RemoteTask, RemoteTaskState, TaskTerminal
  <1>5. CASE ~TaskPresent(k)
    BY <1>1, <1>3, <1>5 DEF TaskMoves, TaskPresent, RemoteTaskState
  <1>6. CASE TaskPresent(k) /\ failed /\ x.state \notin TaskTerminal
    <2>1. a2aTasks'[k] = [x EXCEPT !.state = "failed", !.updated_at = now']
      BY <1>3, <1>6 DEF transitionA2ATaskForMessage
    <2> QED BY <1>1, <1>4, <1>6, <2>1
            DEF TaskMoves, TaskPresent, validA2ATaskTransition, RemoteTaskState, TaskTerminal
  <1>7. CASE /\ TaskPresent(k) /\ ~(failed /\ x.state \notin TaskTerminal)
             /\ answered /\ x.state \notin TaskTerminal \cup {"input-required"}
    <2>1. a2aTasks'[k] = [x EXCEPT !.state = "completed", !.updated_at = now']
      BY <1>3, <1>7 DEF transitionA2ATaskForMessage
    <2> QED BY <1>1, <1>4, <1>7, <2>1
            DEF TaskMoves, TaskPresent, validA2ATaskTransition, RemoteTaskState, TaskTerminal
  <1>8. CASE /\ TaskPresent(k) /\ ~(failed /\ x.state \notin TaskTerminal)
             /\ ~(answered /\ x.state \notin TaskTerminal \cup {"input-required"})
             /\ delivered /\ x.state = "submitted"
    <2>1. a2aTasks'[k] = [x EXCEPT !.state = "working", !.updated_at = now']
      BY <1>3, <1>8 DEF transitionA2ATaskForMessage
    <2> QED BY <1>1, <1>4, <1>8, <2>1
            DEF TaskMoves, TaskPresent, validA2ATaskTransition, RemoteTaskState, TaskTerminal
  <1>9. CASE /\ TaskPresent(k) /\ ~(failed /\ x.state \notin TaskTerminal)
             /\ ~(answered /\ x.state \notin TaskTerminal \cup {"input-required"})
             /\ ~(delivered /\ x.state = "submitted")
    <2>1. a2aTasks'[k] = x
      BY <1>3, <1>9 DEF transitionA2ATaskForMessage
    <2>2. x.state = "submitted" => ~failed /\ ~delivered
      BY <1>9 DEF TaskTerminal
    <2> QED BY <1>1, <2>1, <2>2 DEF TaskMoves, failed, delivered
  <1> QED BY <1>5, <1>6, <1>7, <1>8, <1>9

(* The correlations learn of the response when the request does.           *)
LEMMA FollowCorrelations ==
  ASSUME RemoteTypeOK, messages' \in [MessageIds -> Message], FollowMessages,
         NEW c \in CorrelationKeys
  PROVE  LET x == correlations[c]
             y == correlations'[c] IN
         /\ y \in Correlation /\ y.task = x.task /\ y.request = x.request
         /\ x.request = None => y = x
         /\ x.request # None =>
              y.response = IF Answered(x.request) THEN messages'[x.request].response_message_id
                                                  ELSE x.response
  <1>1. PICK x : x = correlations[c]
    OBVIOUS
  <1>2. x \in Correlation
    BY <1>1 DEF RemoteTypeOK
  <1>3. correlations'[c] =
          IF x.request # None /\ Answered(x.request)
          THEN [x EXCEPT !.response = messages'[x.request].response_message_id] ELSE x
    BY <1>1 DEF FollowMessages
  <1>4. CASE x.request # None /\ Answered(x.request)
    <2>1. x.request \in MessageIds
      BY <1>2, <1>4 DEF Correlation
    <2>2. messages'[x.request].response_message_id \in MessageIds \cup {None}
      BY <2>1 DEF Message
    <2> QED BY <1>1, <1>2, <1>3, <1>4, <2>2 DEF Correlation
  <1>5. CASE ~(x.request # None /\ Answered(x.request))
    BY <1>1, <1>2, <1>3, <1>5
  <1> QED BY <1>4, <1>5

(* The tasks of a principal follow what happens to its messages.           *)
LEMMA FollowKeeps ==
  ASSUME RemoteInv, RowsInv', RowsKept, FollowMessages, publications' = publications,
         credentials' \in [RemotePrincipals -> Credential],
         \A c \in RemotePrincipals : CredentialOK(c)'
  PROVE  RemoteInv'
  <1>1. /\ RowsInv /\ RemoteTypeOK /\ now' \in Nat
        /\ messages \in [MessageIds -> Message] /\ messages' \in [MessageIds -> Message]
        /\ None \notin MessageIds /\ None \notin RemoteTaskIds
    BY DeliveryAssumption, RemoteAssumption
       DEF RemoteInv, RowsInv, DeliveryInv, DeliveryTypeOK, RegistryTypeOK
  <1>2. \A k \in RemoteTaskIds : /\ TaskMoves(a2aTasks[k], a2aTasks'[k])
                                 /\ TaskPresent(k) => TaskPresent(k)'
                                 /\ a2aTasks'[k].principal = a2aTasks[k].principal
                                 /\ a2aTasks'[k].agent = a2aTasks[k].agent
                                 /\ a2aTasks'[k] \in RemoteTask
    BY <1>1, FollowTasks DEF TaskMoves, TaskPresent, RemoteTaskState, TaskTerminal, RemoteTypeOK
  <1>3. RemoteTypeOK'
    <2>1. correlations' \in [CorrelationKeys -> Correlation]
      <3>1. \A c \in CorrelationKeys : correlations'[c] \in Correlation
        BY <1>1, FollowCorrelations
      <3> QED BY <3>1 DEF FollowMessages
    <2>2. a2aTasks' \in [RemoteTaskIds -> RemoteTask]
      BY <1>2 DEF FollowMessages
    <2> QED BY <1>1, <2>1, <2>2 DEF RemoteTypeOK
  <1>4. ASSUME NEW c \in CorrelationKeys PROVE CorrelationOK(c)'
    <2>1. CorrelationOK(c)
      BY DEF RemoteInv
    <2>2. CASE correlations[c].task = None
      <3>1. correlations'[c] = correlations[c]
        BY <1>1, <2>1, <2>2, FollowCorrelations DEF CorrelationOK, NoCorrelation
      <3> QED BY <2>1, <2>2, <3>1 DEF CorrelationOK
    <2>3. CASE correlations[c].task # None
      <3>1. PICK q : q = correlations[c].request
        OBVIOUS
      <3>2. /\ q \in MessageIds /\ RequestRow(c, correlations[c].response, messages[q])
            /\ correlations[c].task \in RemoteTaskIds /\ TaskPresent(correlations[c].task)
            /\ a2aTasks[correlations[c].task].principal = c[1]
            /\ messages[q].to = a2aTasks[correlations[c].task].agent
        BY <2>1, <2>3, <3>1 DEF CorrelationOK
      <3>3. /\ correlations'[c].task = correlations[c].task /\ correlations'[c].request = q
            /\ correlations'[c].response =
                 IF Answered(q) THEN messages'[q].response_message_id ELSE correlations[c].response
        BY <1>1, <3>1, <3>2, FollowCorrelations
      <3>4. RowKept(messages[q], messages'[q])
        BY <3>2 DEF RowsKept, RowNew, RequestRow
      <3>5. messages'[q].response_message_id = correlations'[c].response
        BY <3>2, <3>3, <3>4 DEF Answered, RowKept, RequestRow
      <3>6. /\ RequestRow(c, correlations'[c].response, messages'[q])
            /\ messages'[q].to = messages[q].to
        BY <3>2, <3>4, <3>5 DEF RequestRow, RowKept
      <3> QED BY <1>2, <2>3, <3>2, <3>3, <3>6 DEF CorrelationOK
    <2> QED BY <2>2, <2>3
  <1>5. ASSUME NEW m \in MessageIds PROVE CorrelatedOK(m)'
    <2> SUFFICES ASSUME Present(messages'[m]), messages'[m].from \in RemotePrincipals
                 PROVE  LET c == <<messages'[m].from, messages'[m].idempotency_key>> IN
                        c \in CorrelationKeys /\ correlations'[c].request = m
      BY DEF CorrelatedOK
    <2>1. RowKept(messages[m], messages'[m])
      BY DEF RowsKept, RowNew
    <2>2. PICK c : c = <<messages[m].from, messages[m].idempotency_key>>
      OBVIOUS
    <2>3. /\ Present(messages[m]) /\ messages[m].from \in RemotePrincipals
          /\ c = <<messages'[m].from, messages'[m].idempotency_key>>
      BY <2>1, <2>2 DEF RowKept
    <2>4. c \in CorrelationKeys /\ correlations[c].request = m
      BY <2>2, <2>3 DEF RemoteInv, CorrelatedOK
    <2> QED BY <1>1, <2>3, <2>4, FollowCorrelations
  <1>6. ASSUME NEW k \in RemoteTaskIds PROVE SubmittedOK(k)'
    <2> SUFFICES ASSUME a2aTasks'[k].state = "submitted" PROVE SubmittedOK(k)'
      BY DEF SubmittedOK
    <2>1. /\ a2aTasks[k].state = "submitted"
          /\ \A q \in RequestsOf(k) : ~Failed(q) /\ ~FirstSeen(q)
      BY <1>1, FollowTasks
    <2>2. PICK q \in MessageIds :
            /\ RequestsOf(k) = {q}
            /\ messages[q].state \in {"queued", "reserved"} /\ messages[q].delivered_at = 0
            /\ messages[q].to = a2aTasks[k].agent
      BY <2>1 DEF RemoteInv, SubmittedOK
    <2>3. RequestsOf(k)' = RequestsOf(k)
      <3>1. \A c \in CorrelationKeys : /\ correlations'[c].task = correlations[c].task
                                       /\ correlations'[c].request = correlations[c].request
        BY <1>1, FollowCorrelations
      <3> QED BY <3>1 DEF RequestsOf, CorrelationsOf
    <2>4. RowKept(messages[q], messages'[q]) /\ Present(messages'[q])
      BY <2>2 DEF RowsKept, RowNew, RowKept, Present, Active
    <2>5. messages'[q].delivered_at = 0 /\ messages'[q].state # "expired"
      BY <2>1, <2>2 DEF Failed, FirstSeen, Active
    <2>6. InTime(messages'[q])
      BY DEF RowsInv, DeliveryInv, DeliveredInTime
    <2>7. messages'[q].state \in {"queued", "reserved"}
      BY <2>4, <2>5, <2>6 DEF InTime, Present, Active, Terminal
    <2> QED BY <1>2, <2>2, <2>3, <2>4, <2>5, <2>7 DEF SubmittedOK, RowKept
  <1> QED BY <1>3, <1>4, <1>5, <1>6 DEF RemoteInv

(* The owner's operations on publications and credentials.                 *)
LEMMA OwnerKeeps ==
  ASSUME RemoteInv, UNCHANGED <<vars, a2aTasks, correlations>>,
         publications' \in [PublicationIds -> Publication],
         credentials' \in [RemotePrincipals -> Credential],
         \A c \in RemotePrincipals : CredentialOK(c)'
  PROVE  RemoteInv'
  <1>1. /\ UNCHANGED vars /\ messages' = messages
        /\ a2aTasks' = a2aTasks /\ correlations' = correlations
    BY DEF vars, deliveryVars
  <1>2. RowsInv'
    BY <1>1, SameRowsInv DEF RemoteInv
  <1>3. \A k \in RemoteTaskIds : RequestsOf(k)' = RequestsOf(k)
    BY <1>1 DEF RequestsOf, CorrelationsOf
  <1> QED BY <1>1, <1>2, <1>3
          DEF RemoteInv, RemoteTypeOK, CorrelationOK, TaskPresent, CorrelatedOK, SubmittedOK, Present

(* What an accepted message stores, and that its identifier was free.      *)
LEMMA AcceptStores ==
  ASSUME RemoteInv, NEW c \in RemotePrincipals, NEW version, NEW key \in Keys,
         requireCurrentA2APrincipal(c, version), correlations[<<c, key>>].task = None,
         NEW agent, agent = publications[credentials[c].publication].agent,
         sendMessageTx(c, RequestInput(agent, key)), UNCHANGED <<registryVars, reservations>>
  PROVE  /\ RowsInv' /\ agent \in Agents /\ RequestInput(agent, key) \in SendInputs
         /\ \E id \in MessageIds :
              /\ Stores(c, RequestInput(agent, key), id)
              /\ ~Present(messages[id])
              /\ messages'[id] = NewMessage(c, RequestInput(agent, key), now)
              /\ \A m \in MessageIds \ {id} :
                   /\ RowKept(messages[m], messages'[m])
                   /\ messages'[m].response_message_id = messages[m].response_message_id
                   /\ messages[m].expires_at = 0 => messages'[m].state = messages[m].state
                                                   /\ messages'[m].delivered_at = messages[m].delivered_at
                   /\ ~(messages'[m].from = c /\ messages'[m].idempotency_key = key)
                   /\ messages'[m].state = expireMessages(messages, now)[m].state
                   /\ messages'[m].from = expireMessages(messages, now)[m].from
  <1> DEFINE in == RequestInput(agent, key)
  <1>1. /\ RowsInv /\ RemoteTypeOK /\ now \in Nat /\ messages \in [MessageIds -> Message]
        /\ None \notin MessageIds /\ c # None
    BY DeliveryAssumption DEF RemoteInv, RowsInv, DeliveryInv, DeliveryTypeOK, RegistryTypeOK
  <1>2. agent \in Agents
    BY DEF RemoteInv, CredentialOK, requireCurrentA2APrincipal
  <1>3. in \in SendInputs /\ in.mode = "request" /\ in.idempotency_key = key
    BY <1>2, RemoteAssumption DEF SendInputs, RequestInput, Participants, Modes
  <1>4. c \in Participants
    BY DEF Participants
  <1> HIDE DEF in
  <1>5. sendMessageTx(c, in)
    BY DEF in
  <1>6. RowsInv'
    BY <1>1, <1>3, <1>4, <1>5, SentRowsInv
  <1>7. \A m \in MessageIds : Carried(messages[m], expireMessages(messages, now)[m])
    BY <1>1, ExpireCarries DEF AllCarried
  <1>8. correlations[<<c, key>>].request = None
    BY <1>1 DEF RemoteInv, CorrelationOK, NoCorrelation, CorrelationKeys
  <1>9. ASSUME NEW m \in MessageIds
        PROVE  ~(messages[m].from = c /\ messages[m].idempotency_key = key)
    BY <1>1, <1>8, <1>9 DEF RemoteInv, RowsInv, Blank, BlankRow, CorrelatedOK
  <1>10. PriorSends(expireMessages(messages, now), c, in) = {}
    BY <1>3, <1>7, <1>9 DEF PriorSends, Carried
  <1>11. PICK id \in MessageIds : Stores(c, in, id)
    BY <1>5, <1>10, Zenon DEF sendMessageTx, Stores
  <1>12. ~Present(messages[id]) /\ messages'[id] = NewMessage(c, in, now)
    BY <1>1, <1>3, <1>4, <1>11, StoredRows
       DEF RowsInv, Stores, Present, Active, Terminal
  <1>13. ASSUME NEW m \in MessageIds \ {id}
         PROVE  /\ RowKept(messages[m], messages'[m])
                /\ messages'[m].response_message_id = messages[m].response_message_id
                /\ messages[m].expires_at = 0 => messages'[m].state = messages[m].state
                                                /\ messages'[m].delivered_at = messages[m].delivered_at
                /\ ~(messages'[m].from = c /\ messages'[m].idempotency_key = key)
                /\ messages'[m].state = expireMessages(messages, now)[m].state
                /\ messages'[m].from = expireMessages(messages, now)[m].from
    <2>1. PICK e : e = expireMessages(messages, now)[m]
      OBVIOUS
    <2>2. /\ messages'[m].from = messages[m].from /\ messages'[m].to = messages[m].to
          /\ messages'[m].mode = messages[m].mode
          /\ messages'[m].idempotency_key = messages[m].idempotency_key
          /\ messages'[m].expires_at = messages[m].expires_at
          /\ messages'[m].delivered_at = e.delivered_at /\ messages'[m].state = e.state
          /\ messages'[m].response_message_id = messages[m].response_message_id
          /\ Carried(messages[m], e)
      BY <1>1, <1>3, <1>4, <1>11, <2>1, StoredOthers DEF RowsInv
    <2>3. messages[m].expires_at = 0 => e = messages[m]
      BY <1>1, <2>1 DEF expireMessages, Overdue
    <2> QED BY <1>9, <2>1, <2>2, <2>3 DEF RowKept, Carried, Present
  <1> QED BY <1>2, <1>3, <1>6, <1>11, <1>12, <1>13 DEF in

(* The part of AcceptA2AMessage that opens a task or continues one.        *)
Opens(c, version, key, asked) ==
  LET agent == publications[credentials[c].publication].agent IN
  /\ requireCurrentA2APrincipal(c, version)
  /\ correlations[<<c, key>>].task = None
  /\ Cardinality(UnfinishedOf(c)) < PrincipalMessageLimit
  /\ Cardinality(RemoteActive(expireMessages(messages, now))) < MaxRemoteBacklog
  /\ sendMessageTx(c, RequestInput(agent, key))
  /\ \E k \in TaskFor(c, agent, asked), m \in MessageIds :
       /\ messages'[m].from = c /\ messages'[m].idempotency_key = key
       /\ a2aTasks' = [a2aTasks EXCEPT ![k] =
            [state |-> IF asked = None THEN "submitted" ELSE "working",
             principal |-> c, agent |-> agent, updated_at |-> now]]
       /\ correlations' = [correlations EXCEPT ![<<c, key>>] =
            [task |-> k, asked |-> asked, request |-> m, response |-> None]]
  /\ UNCHANGED <<registryVars, reservations, publications, credentials>>

(* A principal's message is new to its task, its correlation and the       *)
(* messages at once.                                                       *)
LEMMA OpensKeeps ==
  ASSUME RemoteInv, NEW c \in RemotePrincipals, NEW version, NEW key \in Keys,
         NEW asked \in RemoteTaskIds \cup {None}, Opens(c, version, key, asked)
  PROVE  RemoteInv'
  <1>1. PICK agent : agent = publications[credentials[c].publication].agent
    OBVIOUS
  <1>2. /\ requireCurrentA2APrincipal(c, version) /\ correlations[<<c, key>>].task = None
        /\ sendMessageTx(c, RequestInput(agent, key))
        /\ UNCHANGED <<registryVars, reservations>>
        /\ publications' = publications /\ credentials' = credentials
    BY <1>1 DEF Opens
  <1>3. PICK k \in TaskFor(c, agent, asked), m \in MessageIds :
          /\ messages'[m].from = c /\ messages'[m].idempotency_key = key
          /\ a2aTasks' = [a2aTasks EXCEPT ![k] =
               [state |-> IF asked = None THEN "submitted" ELSE "working",
                principal |-> c, agent |-> agent, updated_at |-> now]]
          /\ correlations' = [correlations EXCEPT ![<<c, key>>] =
               [task |-> k, asked |-> asked, request |-> m, response |-> None]]
    BY <1>1 DEF Opens
  <1>4. RowsInv' /\ agent \in Agents
    BY <1>1, <1>2, AcceptStores
  <1>5. PICK id \in MessageIds :
          /\ ~Present(messages[id])
          /\ messages'[id] = NewMessage(c, RequestInput(agent, key), now)
          /\ \A n \in MessageIds \ {id} :
               /\ RowKept(messages[n], messages'[n])
               /\ messages'[n].response_message_id = messages[n].response_message_id
               /\ messages[n].expires_at = 0 => messages'[n].state = messages[n].state
                                               /\ messages'[n].delivered_at = messages[n].delivered_at
               /\ ~(messages'[n].from = c /\ messages'[n].idempotency_key = key)
    BY <1>1, <1>2, AcceptStores
  <1>6. m = id
    BY <1>3, <1>5
  <1>7. /\ RowsInv /\ RemoteTypeOK /\ now \in Nat
        /\ None \notin MessageIds /\ None \notin RemoteTaskIds
        /\ agent \notin RemotePrincipals
    BY <1>4, DeliveryAssumption, RemoteAssumption
       DEF RemoteInv, RowsInv, DeliveryInv, DeliveryTypeOK, RegistryTypeOK
  <1>8. PICK d : d = <<c, key>>
    OBVIOUS
  <1>9. d \in CorrelationKeys /\ d[1] = c /\ d[2] = key /\ correlations[d] = NoCorrelation
    BY <1>2, <1>8 DEF CorrelationKeys, RemoteInv, CorrelationOK
  <1>10. /\ k \in RemoteTaskIds
         /\ asked = None => a2aTasks[k].state = "absent"
         /\ asked # None => /\ TaskPresent(k) /\ a2aTasks[k].principal = c
                            /\ a2aTasks[k].agent = agent
    BY <1>7 DEF TaskFor, TaskPresent, RemoteTaskState
  <1>11. PICK t : t = [state |-> IF asked = None THEN "submitted" ELSE "working",
                       principal |-> c, agent |-> agent, updated_at |-> now]
    OBVIOUS
  <1>12. PICK x : x = [task |-> k, asked |-> asked, request |-> id, response |-> None]
    OBVIOUS
  <1>13. /\ t \in RemoteTask /\ x \in Correlation /\ t.principal = c /\ t.agent = agent
         /\ t.state = IF asked = None THEN "submitted" ELSE "working"
         /\ t.state \in RemoteTaskState
         /\ x.task = k /\ x.request = id /\ x.response = None
    BY <1>4, <1>7, <1>10, <1>11, <1>12 DEF RemoteTask, RemoteTaskState, Correlation
  <1>14. /\ a2aTasks' = [a2aTasks EXCEPT ![k] = t]
         /\ correlations' = [correlations EXCEPT ![d] = x]
    BY <1>3, <1>6, <1>8, <1>11, <1>12
  <1>15. /\ a2aTasks'[k] = t /\ correlations'[d] = x
         /\ \A j \in RemoteTaskIds \ {k} : a2aTasks'[j] = a2aTasks[j]
         /\ \A e \in CorrelationKeys \ {d} : correlations'[e] = correlations[e]
    BY <1>7, <1>9, <1>10, <1>14 DEF RemoteTypeOK
  <1>16. RemoteTypeOK' /\ \A b \in RemotePrincipals : CredentialOK(b)'
    BY <1>2, <1>7, <1>13, <1>14 DEF RemoteTypeOK, RemoteInv, CredentialOK
  <1>17. PICK y : y = messages'[id]
    OBVIOUS
  <1>18. /\ y.from = c /\ y.idempotency_key = key /\ y.mode = "request" /\ y.expires_at = 0
         /\ y.response_message_id = None /\ y.state = "queued" /\ y.delivered_at = 0
         /\ y.to = agent /\ Present(y)
    BY <1>5, <1>7, <1>17 DEF NewMessage, RequestInput, Present, Active
  <1>19. ASSUME NEW e \in CorrelationKeys PROVE CorrelationOK(e)'
    <2>1. CASE e = d
      BY <1>7, <1>9, <1>10, <1>13, <1>15, <1>17, <1>18, <2>1
         DEF CorrelationOK, RequestRow, TaskPresent
    <2>2. CASE e # d
      <3>1. CorrelationOK(e) /\ correlations'[e] = correlations[e]
        BY <1>15, <2>2 DEF RemoteInv
      <3>2. CASE correlations[e].task = None
        BY <3>1, <3>2 DEF CorrelationOK
      <3>3. CASE correlations[e].task # None
        <4>1. PICK q, j : q = correlations[e].request /\ j = correlations[e].task
          OBVIOUS
        <4>2. /\ q \in MessageIds \ {id} /\ RequestRow(e, correlations[e].response, messages[q])
              /\ j \in RemoteTaskIds /\ TaskPresent(j) /\ a2aTasks[j].principal = e[1]
              /\ messages[q].to = a2aTasks[j].agent
          BY <1>5, <3>1, <3>3, <4>1 DEF CorrelationOK, RequestRow
        <4>3. /\ RequestRow(e, correlations'[e].response, messages'[q])
              /\ messages'[q].to = messages[q].to
          BY <1>5, <3>1, <4>2 DEF RequestRow, RowKept
        <4>4. /\ TaskPresent(j)' /\ a2aTasks'[j].principal = e[1]
              /\ a2aTasks'[j].agent = a2aTasks[j].agent
          <5>1. CASE j = k
            <6>1. asked # None
              BY <1>10, <4>2, <5>1 DEF TaskPresent, RemoteTaskState, TaskTerminal
            <6> QED BY <1>10, <1>13, <1>15, <4>2, <5>1, <6>1 DEF TaskPresent
          <5>2. CASE j # k
            BY <1>15, <4>2, <5>2 DEF TaskPresent
          <5> QED BY <5>1, <5>2
        <4> QED BY <3>1, <3>3, <4>1, <4>2, <4>3, <4>4 DEF CorrelationOK
      <3> QED BY <3>2, <3>3
    <2> QED BY <2>1, <2>2
  <1>20. ASSUME NEW n \in MessageIds PROVE CorrelatedOK(n)'
    <2>1. CASE n = id
      BY <1>8, <1>9, <1>13, <1>15, <1>17, <1>18, <2>1 DEF CorrelatedOK
    <2>2. CASE n # id
      <3> SUFFICES ASSUME Present(messages'[n]), messages'[n].from \in RemotePrincipals
                   PROVE  LET e == <<messages'[n].from, messages'[n].idempotency_key>> IN
                          e \in CorrelationKeys /\ correlations'[e].request = n
        BY DEF CorrelatedOK
      <3>1. PICK e : e = <<messages[n].from, messages[n].idempotency_key>>
        OBVIOUS
      <3>2. /\ Present(messages[n]) /\ messages[n].from \in RemotePrincipals
            /\ e = <<messages'[n].from, messages'[n].idempotency_key>>
        BY <1>5, <2>2, <3>1 DEF RowKept
      <3>3. e \in CorrelationKeys /\ correlations[e].request = n
        BY <3>1, <3>2 DEF RemoteInv, CorrelatedOK
      <3>4. e # d
        BY <1>7, <1>9, <3>3 DEF NoCorrelation
      <3> QED BY <1>15, <3>2, <3>3, <3>4
    <2> QED BY <2>1, <2>2
  <1>21. ASSUME NEW j \in RemoteTaskIds PROVE SubmittedOK(j)'
    <2> SUFFICES ASSUME a2aTasks'[j].state = "submitted" PROVE SubmittedOK(j)'
      BY DEF SubmittedOK
    <2>1. CASE j = k
      <3>1. a2aTasks[k].state = "absent"
        BY <1>10, <1>13, <1>15, <2>1
      <3>2. \A e \in CorrelationKeys : correlations[e].task # k
        BY <1>7, <1>10, <3>1 DEF RemoteInv, CorrelationOK, TaskPresent, RemoteTaskState, TaskTerminal
      <3>3. CorrelationsOf(k)' = {d}
        BY <1>9, <1>13, <1>15, <3>2 DEF CorrelationsOf
      <3>4. RequestsOf(k)' = {id}
        BY <1>13, <1>15, <3>3 DEF RequestsOf
      <3> QED BY <1>13, <1>15, <1>17, <1>18, <2>1, <3>4 DEF SubmittedOK
    <2>2. CASE j # k
      <3>1. a2aTasks'[j] = a2aTasks[j]
        BY <1>15, <2>2
      <3>2. PICK q \in MessageIds :
              /\ RequestsOf(j) = {q}
              /\ messages[q].state \in {"queued", "reserved"} /\ messages[q].delivered_at = 0
              /\ messages[q].to = a2aTasks[j].agent
        BY <3>1 DEF RemoteInv, SubmittedOK
      <3>3. RequestsOf(j)' = RequestsOf(j)
        <4>1. \A e \in CorrelationKeys :
                /\ correlations'[e].task = j <=> correlations[e].task = j
                /\ correlations[e].task = j => correlations'[e].request = correlations[e].request
          BY <1>7, <1>9, <1>13, <1>15, <2>2 DEF NoCorrelation
        <4>2. CorrelationsOf(j)' = CorrelationsOf(j)
          BY <4>1 DEF CorrelationsOf
        <4>3. \A e \in CorrelationsOf(j) : correlations'[e].request = correlations[e].request
          BY <4>1 DEF CorrelationsOf
        <4> QED BY <4>2, <4>3 DEF RequestsOf
      <3>4. q # id /\ messages[q].expires_at = 0
        <4>1. PICK e \in CorrelationKeys : correlations[e].task = j /\ correlations[e].request = q
          BY <3>2 DEF RequestsOf, CorrelationsOf
        <4>2. RequestRow(e, correlations[e].response, messages[q])
          BY <1>7, <4>1 DEF RemoteInv, CorrelationOK
        <4> QED BY <1>5, <4>2 DEF RequestRow
      <3>5. messages'[q].state = messages[q].state /\ messages'[q].delivered_at = 0
            /\ messages'[q].to = messages[q].to
        BY <1>5, <3>2, <3>4 DEF RowKept
      <3> QED BY <3>1, <3>2, <3>3, <3>5 DEF SubmittedOK
    <2> QED BY <2>1, <2>2
  <1> QED BY <1>4, <1>16, <1>19, <1>20, <1>21 DEF RemoteInv

(* An agent moves a task of the principal on; a move never submits.        *)
LEMMA StateKeeps ==
  ASSUME RemoteInv, NEW c \in RemotePrincipals, NEW version, NEW k \in RemoteTaskIds,
         NEW state \in RemoteTaskState, SetA2ATaskState(c, version, k, state)
  PROVE  RemoteInv'
  <1>1. /\ UNCHANGED vars /\ messages' = messages /\ correlations' = correlations
        /\ publications' = publications /\ credentials' = credentials
    BY DEF SetA2ATaskState, vars, deliveryVars
  <1>2. RowsInv' /\ RemoteTypeOK /\ now \in Nat
    BY <1>1, SameRowsInv DEF RemoteInv, RowsInv, DeliveryInv, DeliveryTypeOK, RegistryTypeOK
  <1>3. PICK t : t = [a2aTasks[k] EXCEPT !.state = state, !.updated_at = now]
    OBVIOUS
  <1>4. /\ a2aTasks[k].state \in RemoteTaskState \ TaskTerminal /\ state # "submitted"
        /\ a2aTasks' = [a2aTasks EXCEPT ![k] = t]
    BY <1>3 DEF SetA2ATaskState, validA2ATaskTransition, RemoteTaskState, TaskTerminal
  <1>5. /\ t \in RemoteTask /\ t.state = state
        /\ t.principal = a2aTasks[k].principal /\ t.agent = a2aTasks[k].agent
    BY <1>2, <1>3 DEF RemoteTypeOK, RemoteTask
  <1>6. /\ a2aTasks' \in [RemoteTaskIds -> RemoteTask] /\ a2aTasks'[k] = t
        /\ \A j \in RemoteTaskIds \ {k} : a2aTasks'[j] = a2aTasks[j]
    BY <1>2, <1>4, <1>5 DEF RemoteTypeOK
  <1>7. RemoteTypeOK' /\ \A b \in RemotePrincipals : CredentialOK(b)'
    BY <1>1, <1>6 DEF RemoteInv, RemoteTypeOK, CredentialOK
  <1>8. \A j \in RemoteTaskIds : /\ TaskPresent(j) => TaskPresent(j)'
                                 /\ a2aTasks'[j].principal = a2aTasks[j].principal
                                 /\ a2aTasks'[j].agent = a2aTasks[j].agent
    BY <1>5, <1>6 DEF TaskPresent
  <1>9. \A e \in CorrelationKeys : CorrelationOK(e)'
    BY <1>1, <1>8 DEF RemoteInv, CorrelationOK
  <1>10. \A m \in MessageIds : CorrelatedOK(m)'
    BY <1>1 DEF RemoteInv, CorrelatedOK, Present
  <1>11. ASSUME NEW j \in RemoteTaskIds PROVE SubmittedOK(j)'
    <2>1. RequestsOf(j)' = RequestsOf(j)
      BY <1>1 DEF RequestsOf, CorrelationsOf
    <2> QED BY <1>1, <1>4, <1>5, <1>6, <2>1 DEF RemoteInv, SubmittedOK
  <1> QED BY <1>2, <1>7, <1>9, <1>10, <1>11 DEF RemoteInv

(* Reading a task, or an accepted message again, expires messages only.    *)
LEMMA ReadRemote ==
  ASSUME RemoteInv, messages' = expireMessages(messages, now), FollowMessages,
         UNCHANGED <<registryVars, reservations, publications, credentials>>
  PROVE  RemoteInv' /\ RowsKept /\ AllCarried(messages')
  <1>1. RowsInv /\ DeliveryInv /\ UNCHANGED <<registryVars, reservations>>
        /\ publications' = publications /\ credentials' = credentials
    BY DEF RemoteInv, RowsInv
  <1>2. DeliveryInv' /\ AllCarried(messages') /\ now' = now /\ now \in Nat
    BY <1>1, ReadKeeps DEF DeliveryInv, DeliveryTypeOK, RegistryTypeOK
  <1>3. RowsInv' /\ RowsKept
    BY <1>1, <1>2, CarriedRowsInv, StepKeepsRows
  <1>4. /\ credentials' \in [RemotePrincipals -> Credential]
        /\ \A c \in RemotePrincipals : CredentialOK(c)'
    BY <1>1 DEF RemoteInv, RemoteTypeOK, CredentialOK
  <1> QED BY <1>1, <1>2, <1>3, <1>4, FollowKeeps

-----------------------------------------------------------------------------
(* Retention.                                                              *)

(* Whose message a message of a task is.                                   *)
LEMMA TaskMessageKinds ==
  ASSUME RemoteInv, NEW m \in MessageIds, NEW k \in RemoteTaskIds, m \in TaskMessages(k)
  PROVE  \E d \in CorrelationKeys :
           /\ correlations[d].task = k
           /\ correlations[d].request \in MessageIds
           /\ RequestRow(d, correlations[d].response, messages[correlations[d].request])
           /\ \/ m = correlations[d].request
              \/ /\ m = correlations[d].response
                 /\ messages[m].mode = "response"
                 /\ messages[m].response_to = correlations[d].request
  <1>1. None \notin MessageIds /\ None \notin RemoteTaskIds /\ ReplyPairing
    BY DeliveryAssumption, RemoteAssumption DEF RemoteInv, RowsInv
  <1>2. PICK d \in CorrelationKeys :
          /\ correlations[d].task = k
          /\ m = correlations[d].request \/ m = correlations[d].response
    BY DEF TaskMessages, RequestsOf, CorrelationsOf
  <1>3. PICK q, r : q = correlations[d].request /\ r = correlations[d].response
    OBVIOUS
  <1>4. q \in MessageIds /\ RequestRow(d, r, messages[q])
    BY <1>1, <1>2, <1>3 DEF RemoteInv, CorrelationOK
  <1>5. r # None => messages[r].mode = "response" /\ messages[r].response_to = q
    BY <1>1, <1>4 DEF ReplyPairing, RequestRow
  <1> QED BY <1>1, <1>2, <1>3, <1>4, <1>5

(* What the tasks that stay protect is closed under pairing: the message   *)
(* of a principal is a request, and its answer is the one its task knows.  *)
LEMMA RetainedPairs ==
  ASSUME RemoteInv, NEW tasks, NEW q \in MessageIds, NEW r \in MessageIds,
         messages[q].response_message_id = r, messages[r].response_to = q
  PROVE  q \in RetainedMessages(tasks) <=> r \in RetainedMessages(tasks)
  <1>1. None \notin MessageIds /\ ReplyPairing
    BY DeliveryAssumption DEF RemoteInv, RowsInv
  <1>2. messages[q].mode = "request" /\ messages[r].mode = "response"
    BY <1>1 DEF ReplyPairing
  <1>3. ASSUME NEW k \in RemoteTaskIds, q \in TaskMessages(k) PROVE r \in TaskMessages(k)
    <2>1. PICK d \in CorrelationKeys :
            /\ correlations[d].task = k /\ q = correlations[d].request
            /\ RequestRow(d, correlations[d].response, messages[q])
      BY <1>2, <1>3, TaskMessageKinds
    <2> QED BY <1>1, <2>1 DEF TaskMessages, CorrelationsOf, RequestRow
  <1>4. ASSUME NEW k \in RemoteTaskIds, r \in TaskMessages(k) PROVE q \in TaskMessages(k)
    <2>1. PICK d \in CorrelationKeys :
            /\ correlations[d].task = k /\ correlations[d].request = q
      BY <1>2, <1>4, TaskMessageKinds DEF RequestRow
    <2> QED BY <1>1, <2>1 DEF TaskMessages, RequestsOf, CorrelationsOf
  <1> QED BY <1>3, <1>4 DEF RetainedMessages

(* A pass that removes the tasks gone with the messages that may go.       *)
LEMMA PruneKeeps ==
  ASSUME RemoteInv, NEW token, NEW before, NEW execute, PruneRemote(token, before, execute)
  PROVE  RemoteInv'
  <1>1. PICK candidates, tasks :
          /\ candidates = retentionMessageCandidates(expireMessages(messages, now), before)
          /\ tasks = retentionA2ACandidates(before, candidates)
    OBVIOUS
  <1>2. PICK keep : keep = RetainedMessages(tasks)
    OBVIOUS
  <1>3. PICK gone : gone = IF execute THEN tasks ELSE {}
    OBVIOUS
  <1>4. /\ PruneMessages(token, before, execute, keep)
        /\ publications' = publications /\ credentials' = credentials
    BY <1>1, <1>2 DEF PruneRemote
  <1>5. RowsInv /\ DeliveryInv /\ RemoteTypeOK /\ None \notin RemoteTaskIds
        /\ messages \in [MessageIds -> Message] /\ now \in Nat
    BY RemoteAssumption DEF RemoteInv, RowsInv, DeliveryInv, DeliveryTypeOK, RegistryTypeOK
  <1>6. /\ \A k \in RemoteTaskIds : a2aTasks'[k] = IF k \in gone THEN NoRemoteTask("removed")
                                                                ELSE a2aTasks[k]
        /\ \A c \in CorrelationKeys : correlations'[c] = IF correlations[c].task \in gone
                                                         THEN NoCorrelation ELSE correlations[c]
        /\ a2aTasks' \in [RemoteTaskIds -> RemoteTask]
        /\ correlations' \in [CorrelationKeys -> Correlation]
    <2>1. NoRemoteTask("removed") \in RemoteTask /\ NoCorrelation \in Correlation
      BY DEF NoRemoteTask, NoCorrelation, RemoteTask, Correlation
    <2>2. CASE execute
      BY <1>1, <1>3, <1>5, <2>1, <2>2 DEF PruneRemote, RemoteTypeOK
    <2>3. CASE ~execute
      BY <1>3, <1>5, <2>3 DEF PruneRemote, RemoteTypeOK
    <2> QED BY <2>2, <2>3
  <1>7. \A k \in gone : /\ k \in RemoteTaskIds /\ a2aTasks[k].state \in TaskTerminal
                        /\ TaskMessages(k) \subseteq candidates /\ execute /\ k \in tasks
    BY <1>1, <1>3 DEF retentionA2ACandidates
  <1>8. RowsInv'
    <2>1. \A q, r \in MessageIds :
            messages[q].response_message_id = r /\ messages[r].response_to = q
              => (q \in keep <=> r \in keep)
      BY <1>2, RetainedPairs
    <2> QED BY <1>4, <1>5, <2>1, PrunedRowsInv
  <1>9. ASSUME NEW m \in MessageIds
        PROVE  /\ m \in keep /\ messages[m].expires_at = 0 => messages'[m] = messages[m]
               /\ Present(messages'[m]) =>
                    /\ Present(messages[m]) /\ messages'[m].from = messages[m].from
                    /\ messages'[m].idempotency_key = messages[m].idempotency_key
                    /\ execute /\ m \in candidates => m \in keep
    <2>1. PICK e : e = expireMessages(messages, now)[m]
      OBVIOUS
    <2>2. /\ Carried(messages[m], e)
          /\ \/ messages'[m] = e
             \/ messages'[m] = NoRow("removed") /\ m \notin keep
      BY <1>4, <1>5, <2>1, PrunedRows
    <2>3. execute /\ m \in candidates /\ m \notin keep => messages'[m] = NoRow("removed")
      BY <1>1, <1>4 DEF PruneMessages
    <2>4. messages[m].expires_at = 0 => e = messages[m]
      BY <2>1 DEF expireMessages, Overdue
    <2>5. ~Present(NoRow("removed"))
      BY DEF Present, NoRow, Active, Terminal
    <2> QED BY <2>2, <2>3, <2>4, <2>5 DEF Carried, Present
  <1>10. ASSUME NEW c \in CorrelationKeys, correlations[c].task # None,
                correlations[c].task \notin gone, NEW q, q = correlations[c].request
         PROVE  q \in MessageIds /\ (execute => q \in keep) /\ messages[q].expires_at = 0
    <2>1. PICK j : j = correlations[c].task
      OBVIOUS
    <2>2. /\ j \in RemoteTaskIds /\ TaskPresent(j) /\ q \in MessageIds
          /\ RequestRow(c, correlations[c].response, messages[q])
      BY <1>10, <2>1 DEF RemoteInv, CorrelationOK
    <2>3. q \in TaskMessages(j)
      BY <1>10, <2>1, <2>2, DeliveryAssumption DEF TaskMessages, RequestsOf, CorrelationsOf
    <2>4. execute => q \in keep
      BY <1>2, <1>3, <1>10, <2>1, <2>2, <2>3 DEF RetainedMessages
    <2> QED BY <2>2, <2>4 DEF RequestRow
  <1>11. ASSUME NEW m \in MessageIds, ~execute, messages[m].expires_at = 0
         PROVE  messages'[m] = messages[m]
    BY <1>4, <1>11 DEF PruneMessages, expireMessages, Overdue
  <1>12. RemoteTypeOK' /\ \A b \in RemotePrincipals : CredentialOK(b)'
    BY <1>4, <1>5, <1>6 DEF RemoteTypeOK, RemoteInv, CredentialOK
  <1>13. ASSUME NEW c \in CorrelationKeys PROVE CorrelationOK(c)'
    <2>1. CorrelationOK(c)
      BY DEF RemoteInv
    <2>2. CASE correlations[c].task = None \/ correlations[c].task \in gone
      <3>1. correlations'[c] = NoCorrelation
        BY <1>6, <2>1, <2>2 DEF CorrelationOK
      <3> QED BY <3>1 DEF CorrelationOK, NoCorrelation
    <2>3. CASE correlations[c].task # None /\ correlations[c].task \notin gone
      <3>1. PICK q, j : q = correlations[c].request /\ j = correlations[c].task
        OBVIOUS
      <3>2. messages'[q] = messages[q] /\ q \in MessageIds
        BY <1>9, <1>10, <1>11, <2>3, <3>1
      <3>3. correlations'[c] = correlations[c]
        BY <1>6, <2>3
      <3>4. a2aTasks'[j] = a2aTasks[j]
        BY <1>6, <2>1, <2>3, <3>1 DEF CorrelationOK
      <3>5. TaskPresent(j) => TaskPresent(j)'
        BY <3>4 DEF TaskPresent
      <3> QED BY <2>1, <2>3, <3>1, <3>2, <3>3, <3>4, <3>5 DEF CorrelationOK
    <2> QED BY <2>2, <2>3
  <1>14. ASSUME NEW m \in MessageIds PROVE CorrelatedOK(m)'
    <2> SUFFICES ASSUME Present(messages'[m]), messages'[m].from \in RemotePrincipals
                 PROVE  LET c == <<messages'[m].from, messages'[m].idempotency_key>> IN
                        c \in CorrelationKeys /\ correlations'[c].request = m
      BY DEF CorrelatedOK
    <2>1. PICK c : c = <<messages[m].from, messages[m].idempotency_key>>
      OBVIOUS
    <2>2. /\ Present(messages[m]) /\ messages[m].from \in RemotePrincipals
          /\ c = <<messages'[m].from, messages'[m].idempotency_key>>
      BY <1>9, <2>1
    <2>3. c \in CorrelationKeys /\ correlations[c].request = m
      BY <2>1, <2>2 DEF RemoteInv, CorrelatedOK
    <2>4. correlations[c].task \notin gone
      <3> SUFFICES ASSUME correlations[c].task \in gone PROVE FALSE
        OBVIOUS
      <3>1. PICK j : j = correlations[c].task
        OBVIOUS
      <3>2. m \in TaskMessages(j) /\ messages[m].mode = "request"
        BY <1>5, <1>7, <2>3, <3>1, DeliveryAssumption
           DEF TaskMessages, RequestsOf, CorrelationsOf, RemoteInv, CorrelationOK, RequestRow
      <3>3. m \in keep
        BY <1>7, <1>9, <3>1, <3>2
      <3>4. PICK k \in RemoteTaskIds : k \notin tasks /\ m \in TaskMessages(k)
        BY <1>2, <3>3 DEF RetainedMessages
      <3>5. PICK d \in CorrelationKeys :
              /\ correlations[d].task = k
              /\ RequestRow(d, correlations[d].response, messages[m])
        BY <3>2, <3>4, TaskMessageKinds
      <3>6. d = c
        BY <2>1, <3>5 DEF RequestRow, CorrelationKeys
      <3> QED BY <1>7, <3>1, <3>4, <3>5, <3>6
    <2> QED BY <1>6, <2>2, <2>3, <2>4
  <1>15. ASSUME NEW k \in RemoteTaskIds PROVE SubmittedOK(k)'
    <2> SUFFICES ASSUME a2aTasks'[k].state = "submitted" PROVE SubmittedOK(k)'
      BY DEF SubmittedOK
    <2>1. k \notin gone /\ a2aTasks'[k] = a2aTasks[k]
      BY <1>6 DEF NoRemoteTask
    <2>2. PICK q \in MessageIds :
            /\ RequestsOf(k) = {q}
            /\ messages[q].state \in {"queued", "reserved"} /\ messages[q].delivered_at = 0
            /\ messages[q].to = a2aTasks[k].agent
      BY <2>1 DEF RemoteInv, SubmittedOK
    <2>3. RequestsOf(k)' = RequestsOf(k)
      <3>1. \A e \in CorrelationKeys :
              /\ correlations'[e].task = k <=> correlations[e].task = k
              /\ correlations[e].task = k => correlations'[e].request = correlations[e].request
        BY <1>5, <1>6, <2>1 DEF NoCorrelation
      <3>2. CorrelationsOf(k)' = CorrelationsOf(k)
        BY <3>1 DEF CorrelationsOf
      <3>3. \A e \in CorrelationsOf(k) : correlations'[e].request = correlations[e].request
        BY <3>1 DEF CorrelationsOf
      <3> QED BY <3>2, <3>3 DEF RequestsOf
    <2>4. PICK e \in CorrelationKeys : correlations[e].task = k /\ correlations[e].request = q
      BY <2>2 DEF RequestsOf, CorrelationsOf
    <2>5. messages'[q] = messages[q]
      BY <1>5, <1>9, <1>10, <1>11, <2>1, <2>4
    <2> QED BY <2>1, <2>2, <2>3, <2>5 DEF SubmittedOK
  <1> QED BY <1>8, <1>12, <1>13, <1>14, <1>15 DEF RemoteInv

-----------------------------------------------------------------------------
(* Every step on the tasks.                                                *)

(* The owner's operations.                                                 *)
LEMMA OwnerSteps ==
  ASSUME RemoteInv, OwnerNext
  PROVE  RemoteInv' /\ UNCHANGED <<vars, a2aTasks, correlations>>
  <1> DEFINE Goal == RemoteInv' /\ UNCHANGED <<vars, a2aTasks, correlations>>
  <1>1. /\ publications \in [PublicationIds -> Publication]
        /\ credentials \in [RemotePrincipals -> Credential]
        /\ \A b \in RemotePrincipals : CredentialOK(b)
        /\ None \notin Agents /\ None \notin PublicationIds
    BY DeliveryAssumption, RegistryAssumption, RemoteAssumption DEF RemoteInv, RemoteTypeOK
  <1>2. ASSUME NEW token \in 1..MaxTokens, NEW a \in Agents, CreateAgentCardPublication(token, a)
        PROVE  Goal
    <2>1. PICK p \in PublicationIds :
            /\ publications[p] = NoPublication
            /\ publications' = [publications EXCEPT ![p] = [agent |-> a, enabled |-> TRUE]]
      BY <1>2 DEF CreateAgentCardPublication
    <2>2. /\ UNCHANGED <<vars, a2aTasks, correlations>> /\ credentials' = credentials
      BY <1>2 DEF CreateAgentCardPublication
    <2>3. publications' \in [PublicationIds -> Publication]
      BY <1>1, <2>1 DEF Publication
    <2>4. \A b \in RemotePrincipals : CredentialOK(b)'
      BY <1>1, <2>1, <2>2 DEF CredentialOK
    <2> QED BY <1>1, <2>2, <2>3, <2>4, OwnerKeeps
  <1>3. ASSUME NEW token \in 1..MaxTokens, NEW p \in PublicationIds, NEW enabled \in BOOLEAN,
               SetAgentCardPublicationEnabled(token, p, enabled)
        PROVE  Goal
    <2>1. /\ UNCHANGED <<vars, a2aTasks, correlations>> /\ credentials' = credentials
          /\ publications' = [publications EXCEPT ![p].enabled = enabled]
      BY <1>3 DEF SetAgentCardPublicationEnabled
    <2>2. publications' \in [PublicationIds -> Publication]
      BY <1>1, <2>1 DEF Publication
    <2>3. \A b \in PublicationIds : publications'[b].agent = publications[b].agent
      BY <1>1, <2>1 DEF Publication
    <2>4. \A b \in RemotePrincipals : CredentialOK(b)'
      BY <1>1, <2>1, <2>3 DEF CredentialOK
    <2> QED BY <1>1, <2>1, <2>2, <2>4, OwnerKeeps
  <1>4. ASSUME NEW token \in 1..MaxTokens, NEW p \in PublicationIds, CreateA2APrincipal(token, p)
        PROVE  Goal
    <2>1. /\ UNCHANGED <<vars, a2aTasks, correlations>> /\ publications' = publications
          /\ publications[p].agent # None
      BY <1>4 DEF CreateA2APrincipal
    <2>2. PICK c \in RemotePrincipals :
            credentials' = [credentials EXCEPT ![c] =
              [publication |-> p, version |-> 1, enabled |-> TRUE]]
      BY <1>4 DEF CreateA2APrincipal
    <2>3. credentials' \in [RemotePrincipals -> Credential]
      BY <1>1, <2>2 DEF Credential
    <2>4. publications[p].agent \in Agents
      BY <1>1, <2>1 DEF Publication
    <2>5. \A b \in RemotePrincipals : CredentialOK(b)'
      BY <1>1, <2>1, <2>2, <2>4 DEF CredentialOK
    <2> QED BY <1>1, <2>1, <2>3, <2>5, OwnerKeeps
  <1>5. ASSUME NEW token \in 1..MaxTokens, NEW c \in RemotePrincipals, RotateA2APrincipal(token, c)
        PROVE  Goal
    <2>1. /\ UNCHANGED <<vars, a2aTasks, correlations>> /\ publications' = publications
          /\ credentials' = [credentials EXCEPT ![c].version = @ + 1]
      BY <1>5 DEF RotateA2APrincipal
    <2>2. credentials' \in [RemotePrincipals -> Credential]
      BY <1>1, <2>1 DEF Credential
    <2>3. \A b \in RemotePrincipals : /\ credentials'[b].enabled = credentials[b].enabled
                                      /\ credentials'[b].publication = credentials[b].publication
                                      /\ credentials'[b].version = 0 => credentials[b].version = 0
      BY <1>1, <2>1 DEF Credential
    <2>4. \A b \in RemotePrincipals : CredentialOK(b)'
      BY <1>1, <2>1, <2>3 DEF CredentialOK
    <2> QED BY <1>1, <2>1, <2>2, <2>4, OwnerKeeps
  <1>6. ASSUME NEW token \in 1..MaxTokens, NEW c \in RemotePrincipals, NEW enabled \in BOOLEAN,
               SetA2APrincipalEnabled(token, c, enabled)
        PROVE  Goal
    <2>1. /\ UNCHANGED <<vars, a2aTasks, correlations>> /\ publications' = publications
          /\ credentials' = [credentials EXCEPT ![c].enabled = enabled]
          /\ credentials[c].publication # None
      BY <1>6 DEF SetA2APrincipalEnabled, Credentials
    <2>2. credentials' \in [RemotePrincipals -> Credential]
      BY <1>1, <2>1 DEF Credential
    <2>3. \A b \in RemotePrincipals : /\ credentials'[b].publication = credentials[b].publication
                                      /\ b # c => credentials'[b].enabled = credentials[b].enabled
      BY <1>1, <2>1 DEF Credential
    <2>4. credentials[c].publication \in PublicationIds
      BY <1>1, <2>1 DEF Credential
    <2>5. \A b \in RemotePrincipals : CredentialOK(b)'
      BY <1>1, <2>1, <2>3, <2>4 DEF CredentialOK
    <2> QED BY <1>1, <2>1, <2>2, <2>5, OwnerKeeps
  <1> HIDE DEF Goal
  <1>7. Goal
    BY <1>2, <1>3, <1>4, <1>5, <1>6, Zenon DEF OwnerNext
  <1> QED BY <1>7 DEF Goal

(* A step of the scope takes the tasks along.                              *)
ScopeStep ==
  /\ DeliveryNext
  /\ \A m \in MessageIds : messages'[m].state = "removed" => messages[m].state = "removed"
  /\ FollowMessages
  /\ credentials' = [c \in RemotePrincipals |->
       [credentials[c] EXCEPT !.enabled = @ /\ scopeToken' = scopeToken]]
  /\ UNCHANGED publications

(* The scope's own steps.                                                  *)
LEMMA ScopeKeeps ==
  ASSUME RemoteInv, ScopeStep
  PROVE  RemoteInv' /\ RowsKept /\ (AllCarried(messages') \/ StoredBy(Agents \cup Humans))
  <1>1. /\ RowsInv /\ DeliveryInv
        /\ publications' = publications /\ FollowMessages
    BY DEF RemoteInv, RowsInv, ScopeStep
  <1>2. RowsInv' /\ (AllCarried(messages') \/ StoredBy(Agents \cup Humans))
    BY <1>1, StepRowsInv DEF ScopeStep
  <1>3. RowsKept
    BY <1>1, <1>2, StepKeepsRows
  <1>4. ASSUME NEW c \in RemotePrincipals
        PROVE  credentials'[c] \in Credential /\ CredentialOK(c)'
    <2>1. PICK x : x = credentials[c]
      OBVIOUS
    <2>2. x \in Credential /\ CredentialOK(c)
      BY <2>1 DEF RemoteInv, RemoteTypeOK
    <2>3. PICK stays \in BOOLEAN : stays = (x.enabled /\ scopeToken' = scopeToken)
      OBVIOUS
    <2>4. credentials'[c] = [x EXCEPT !.enabled = x.enabled /\ scopeToken' = scopeToken]
      BY <2>1 DEF ScopeStep
    <2>5. credentials'[c] = [x EXCEPT !.enabled = stays]
      BY <2>3, <2>4, Zenon
    <2>6. /\ credentials'[c] \in Credential /\ credentials'[c].enabled = stays
          /\ credentials'[c].publication = x.publication
          /\ credentials'[c].version = x.version
      BY <2>2, <2>5 DEF Credential
    <2>7. credentials'[c].enabled => x.enabled
      BY <2>3, <2>6
    <2> QED BY <1>1, <2>1, <2>2, <2>6, <2>7 DEF CredentialOK
  <1>5. credentials' \in [RemotePrincipals -> Credential]
    BY <1>4 DEF ScopeStep
  <1> QED BY <1>1, <1>2, <1>3, <1>4, <1>5, FollowKeeps

(* The two branches of AcceptA2AMessage, and which steps there are.        *)
LEMMA StepCases ==
  ASSUME RemoteInv, RemoteStep
  PROVE  \/ RemoteInv' /\ UNCHANGED <<vars, a2aTasks, correlations>>
         \/ /\ RemoteInv' /\ RowsKept /\ FollowMessages
            /\ AllCarried(messages') \/ StoredBy(Agents \cup Humans)
         \/ \E c \in RemotePrincipals, key \in Keys, asked \in RemoteTaskIds \cup {None} :
              \E version : Opens(c, version, key, asked)
         \/ \E c \in RemotePrincipals, k \in RemoteTaskIds, state \in RemoteTaskState :
              \E version : SetA2ATaskState(c, version, k, state)
  <1> DEFINE Same == RemoteInv' /\ UNCHANGED <<vars, a2aTasks, correlations>>
             Followed == /\ RemoteInv' /\ RowsKept /\ FollowMessages
                         /\ AllCarried(messages') \/ StoredBy(Agents \cup Humans)
             Opened == \E c \in RemotePrincipals, key \in Keys, asked \in RemoteTaskIds \cup {None} :
                         \E version : Opens(c, version, key, asked)
             Moved == \E c \in RemotePrincipals, k \in RemoteTaskIds, state \in RemoteTaskState :
                        \E version : SetA2ATaskState(c, version, k, state)
  <1>1. OwnerNext => Same
    BY OwnerSteps
  <1>2. ASSUME NEW c \in RemotePrincipals, NEW version, A2ATask(c, version)
        PROVE  Followed
    BY <1>2, ReadRemote DEF A2ATask
  <1>3. ASSUME NEW c \in RemotePrincipals, NEW version, NEW key \in Keys,
               NEW asked \in RemoteTaskIds \cup {None}, AcceptA2AMessage(c, version, key, asked)
        PROVE  Followed \/ Opened
    <2>1. \/ /\ messages' = expireMessages(messages, now) /\ FollowMessages
             /\ UNCHANGED <<registryVars, reservations, publications, credentials>>
          \/ Opens(c, version, key, asked)
      BY <1>3, Zenon DEF AcceptA2AMessage, Opens
    <2>2. CASE Opens(c, version, key, asked)
      BY <2>2, Zenon
    <2>3. CASE /\ messages' = expireMessages(messages, now) /\ FollowMessages
               /\ UNCHANGED <<registryVars, reservations, publications, credentials>>
      BY <2>3, ReadRemote
    <2> QED BY <2>1, <2>2, <2>3
  <1>4. ASSUME NEW c \in RemotePrincipals, NEW version, NEW k \in RemoteTaskIds,
               NEW state \in RemoteTaskState, SetA2ATaskState(c, version, k, state)
        PROVE  Moved
    BY <1>4, Zenon
  <1>5. ScopeStep => Followed
    BY ScopeKeeps DEF ScopeStep
  <1> HIDE DEF Same, Followed, Opened, Moved
  <1>6. Same \/ Followed \/ Opened \/ Moved
    BY <1>1, <1>2, <1>3, <1>4, <1>5, Zenon DEF RemoteStep, ScopeStep
  <1> QED BY <1>6 DEF Same, Followed, Opened, Moved

(* With the retention passes.                                              *)
LEMMA RemoteCases ==
  ASSUME RemoteInv, RemoteNext
  PROVE  RemoteStep \/ \E token, before, execute : PruneRemote(token, before, execute)
  BY Zenon DEF RemoteNext

(* Every step keeps the invariant.                                         *)
LEMMA RemotePreserved ==
  ASSUME RemoteInv, RemoteNext
  PROVE  RemoteInv'
  BY RemoteCases, StepCases, PruneKeeps, OpensKeeps, StateKeeps

(* A new scope has no remote work.                                         *)
LEMMA InitRemote ==
  ASSUME DeliveryInit, RemoteInit
  PROVE  RemoteInv
  <1>1. RowsInv
    BY InitRowsInv
  <1>2. /\ publications = [p \in PublicationIds |-> NoPublication]
        /\ credentials = [c \in RemotePrincipals |-> NoCredential(0)]
        /\ a2aTasks = [k \in RemoteTaskIds |-> NoRemoteTask("absent")]
        /\ correlations = [c \in CorrelationKeys |-> NoCorrelation]
    BY DEF RemoteInit
  <1>3. RemoteTypeOK
    <2>1. /\ NoPublication \in Publication /\ NoCredential(0) \in Credential
          /\ NoRemoteTask("absent") \in RemoteTask /\ NoCorrelation \in Correlation
      BY DEF NoPublication, Publication, NoCredential, Credential, NoRemoteTask, RemoteTask,
             NoCorrelation, Correlation
    <2> QED BY <1>2, <2>1 DEF RemoteTypeOK
  <1>4. \A c \in RemotePrincipals : CredentialOK(c)
    BY <1>2, RemoteAssumption DEF CredentialOK, NoCredential
  <1>5. \A c \in CorrelationKeys : CorrelationOK(c)
    BY <1>2 DEF CorrelationOK, NoCorrelation
  <1>6. \A m \in MessageIds : CorrelatedOK(m)
    <2>1. \A m \in MessageIds : ~Present(messages[m])
      BY DEF DeliveryInit, NoRow, Present, Active, Terminal
    <2> QED BY <2>1 DEF CorrelatedOK
  <1>7. \A k \in RemoteTaskIds : SubmittedOK(k)
    BY <1>2 DEF SubmittedOK, NoRemoteTask
  <1> QED BY <1>1, <1>3, <1>4, <1>5, <1>6, <1>7 DEF RemoteInv

(* So it always holds.                                                     *)
LEMMA RemoteInvHolds == RemoteSpec => []RemoteInv
  <1>1. ASSUME RemoteInv, UNCHANGED <<vars, remoteVars>> PROVE RemoteInv'
    <2>1. /\ UNCHANGED <<vars, a2aTasks, correlations>>
          /\ publications' = publications /\ credentials' = credentials
      BY <1>1 DEF remoteVars
    <2>2. /\ publications' \in [PublicationIds -> Publication]
          /\ credentials' \in [RemotePrincipals -> Credential]
          /\ \A c \in RemotePrincipals : CredentialOK(c)'
      BY <1>1, <2>1 DEF RemoteInv, RemoteTypeOK, CredentialOK
    <2> QED BY <1>1, <2>1, <2>2, OwnerKeeps
  <1> QED BY <1>1, InitRemote, RemotePreserved, PTL DEF RemoteSpec

(* The invariant is stronger than what is promised of the tasks.           *)
LEMMA TasksShown == RemoteInv => TasksFollowMessages
  <1>1. ASSUME RemoteInv PROVE CorrelationsHold
    <2> SUFFICES ASSUME NEW c \in CorrelationKeys, correlations[c].task # None
                 PROVE  /\ TaskPresent(correlations[c].task)
                        /\ a2aTasks[correlations[c].task].principal = c[1]
                        /\ LET request == messages[correlations[c].request] IN
                           /\ Present(request)
                           /\ request.from = c[1] /\ request.idempotency_key = c[2]
                           /\ request.response_message_id = correlations[c].response
                           /\ correlations[c].response # None
                                => Present(messages[correlations[c].response])
      BY DEF CorrelationsHold
    <2>1. CorrelationOK(c) /\ ReplyPairing
      BY <1>1 DEF RemoteInv, RowsInv
    <2> QED BY <2>1 DEF CorrelationOK, RequestRow, ReplyPairing
  <1>2. ASSUME RemoteInv PROVE SubmittedIsWaiting
    <2> SUFFICES ASSUME NEW k \in RemoteTaskIds, a2aTasks[k].state = "submitted"
                 PROVE  /\ Cardinality(RequestsOf(k)) = 1
                        /\ \A q \in RequestsOf(k) :
                             /\ messages[q].state \in {"queued", "reserved"}
                             /\ messages[q].delivered_at = 0
                             /\ messages[q].to = a2aTasks[k].agent
      BY DEF SubmittedIsWaiting
    <2>1. PICK q \in MessageIds :
            /\ RequestsOf(k) = {q}
            /\ messages[q].state \in {"queued", "reserved"} /\ messages[q].delivered_at = 0
            /\ messages[q].to = a2aTasks[k].agent
      BY <1>1, <1>2 DEF RemoteInv, SubmittedOK
    <2> QED BY <2>1, FS_Singleton
  <1> QED BY <1>1, <1>2 DEF TasksFollowMessages

(* A remote task and its messages stay together, whatever expires, is      *)
(* answered late or removed (transitionA2ATaskForMessage,                  *)
(* retentionA2ACandidates, AcceptA2AMessage).                              *)
THEOREM TasksFollow == RemoteSpec => []TasksFollowMessages
  BY TasksShown, RemoteInvHolds, PTL

(* What a step may do to the states of the tasks.                          *)
LegalMoves ==
  \A k \in RemoteTaskIds :
    TaskPresent(k) /\ TaskPresent(k)'
      => validA2ATaskTransition(a2aTasks[k].state, a2aTasks'[k].state)

(* Tasks that follow their messages, or stay.                              *)
LEMMA FollowLegal ==
  ASSUME RemoteInv, RemoteInv', FollowMessages
  PROVE  LegalMoves
  <1>1. RemoteTypeOK /\ now' \in Nat
    BY DEF RemoteInv, RowsInv, DeliveryInv, DeliveryTypeOK, RegistryTypeOK
  <1>2. \A k \in RemoteTaskIds : TaskMoves(a2aTasks[k], a2aTasks'[k])
    BY <1>1, FollowTasks
  <1> QED BY <1>2 DEF LegalMoves, TaskMoves, validA2ATaskTransition

(* A task that is there before and after and was not touched.              *)
LEMMA SameLegal ==
  ASSUME \A k \in RemoteTaskIds : TaskPresent(k) /\ TaskPresent(k)' => a2aTasks'[k] = a2aTasks[k]
  PROVE  LegalMoves
  BY DEF LegalMoves, validA2ATaskTransition

(* Every step moves a task along its life cycle.                           *)
LEMMA StepsLegal ==
  ASSUME RemoteInv, RemoteNext
  PROVE  LegalMoves
  <1>1. UNCHANGED <<vars, a2aTasks, correlations>> => LegalMoves
    BY SameLegal
  <1>2. ASSUME RemoteInv, NEW token, NEW before, NEW execute, PruneRemote(token, before, execute)
        PROVE  LegalMoves
    <2> SUFFICES ASSUME NEW k \in RemoteTaskIds, TaskPresent(k)'
                 PROVE  a2aTasks'[k] = a2aTasks[k]
      BY SameLegal
    <2>1. a2aTasks'[k] = a2aTasks[k] \/ a2aTasks'[k] = NoRemoteTask("removed")
      BY <1>2 DEF PruneRemote
    <2> QED BY <2>1 DEF TaskPresent, NoRemoteTask, RemoteTaskState, TaskTerminal
  <1>3. ASSUME RemoteInv, NEW c \in RemotePrincipals, NEW key \in Keys,
               NEW asked \in RemoteTaskIds \cup {None}, NEW version, Opens(c, version, key, asked)
        PROVE  LegalMoves
    <2>1. PICK agent : agent = publications[credentials[c].publication].agent
      OBVIOUS
    <2>2. PICK k \in TaskFor(c, agent, asked) :
            a2aTasks' = [a2aTasks EXCEPT ![k] =
              [state |-> IF asked = None THEN "submitted" ELSE "working",
               principal |-> c, agent |-> agent, updated_at |-> now]]
      BY <1>3, <2>1 DEF Opens
    <2>3. \/ a2aTasks[k].state = "absent"
          \/ a2aTasks[k].state = "input-required" /\ asked # None
      BY DEF TaskFor
    <2>4. a2aTasks \in [RemoteTaskIds -> RemoteTask]
      BY <1>3 DEF RemoteInv, RemoteTypeOK
    <2> QED BY <2>2, <2>3, <2>4
            DEF LegalMoves, validA2ATaskTransition, TaskPresent, RemoteTaskState, TaskTerminal
  <1>4. ASSUME RemoteInv, NEW c \in RemotePrincipals, NEW k \in RemoteTaskIds,
               NEW state \in RemoteTaskState, NEW version, SetA2ATaskState(c, version, k, state)
        PROVE  LegalMoves
    <2>1. a2aTasks \in [RemoteTaskIds -> RemoteTask]
      BY <1>4 DEF RemoteInv, RemoteTypeOK
    <2>2. /\ validA2ATaskTransition(a2aTasks[k].state, state)
          /\ a2aTasks' = [a2aTasks EXCEPT ![k].state = state, ![k].updated_at = now]
      BY <1>4 DEF SetA2ATaskState
    <2>3. /\ a2aTasks'[k].state = state
          /\ \A j \in RemoteTaskIds \ {k} : a2aTasks'[j] = a2aTasks[j]
      BY <2>1, <2>2 DEF RemoteTask
    <2> QED BY <2>2, <2>3 DEF LegalMoves, validA2ATaskTransition
  <1> QED BY <1>1, <1>2, <1>3, <1>4, FollowLegal, RemoteCases, StepCases, RemotePreserved

(* The life cycle of a task, whatever moves it                             *)
(* (transitionA2ATaskForMessage, SetA2ATaskState, the continuation in      *)
(* AcceptA2AMessage).                                                      *)
THEOREM TaskTransitionsAreLegal == RemoteSpec => TaskTransitionsLegal
  <1>1. UNCHANGED <<vars, remoteVars>> => LegalMoves
    BY SameLegal DEF remoteVars
  <1>2. RemoteInv /\ [RemoteNext]_<<vars, remoteVars>> => [LegalMoves]_<<vars, remoteVars>>
    BY <1>1, StepsLegal
  <1>3. [LegalMoves]_<<vars, remoteVars>> =>
          [\A k \in RemoteTaskIds :
             TaskPresent(k) /\ TaskPresent(k)'
               => validA2ATaskTransition(a2aTasks[k].state, a2aTasks'[k].state)]_<<vars, remoteVars>>
    BY DEF LegalMoves
  <1> QED BY <1>2, <1>3, RemoteInvHolds, PTL DEF RemoteSpec, TaskTransitionsLegal

-----------------------------------------------------------------------------
(* The share of the remote principals in the backlog.                      *)

ShareInv == RemoteInv /\ BacklogInv /\ ShareOK

(* Nothing counts that did not count before.                               *)
LEMMA ShareShrinks ==
  ASSUME ShareOK, RemoteActive(messages)' \subseteq RemoteActive(messages),
         \A c \in RemotePrincipals : UnfinishedOf(c)' \subseteq UnfinishedOf(c)
  PROVE  ShareOK'
  <1>1. \A S, T : IsFiniteSet(S) /\ T \subseteq S
          => IsFiniteSet(T) /\ Cardinality(T) <= Cardinality(S)
             /\ Cardinality(T) \in Nat /\ Cardinality(S) \in Nat
    BY FS_Subset, FS_CardinalityType
  <1>2. /\ IsFiniteSet(RemoteActive(messages)')
        /\ Cardinality(RemoteActive(messages)') <= MaxRemoteBacklog
    BY <1>1, RemoteAssumption DEF ShareOK
  <1>3. ASSUME NEW c \in RemotePrincipals
        PROVE  /\ IsFiniteSet(UnfinishedOf(c)')
               /\ Cardinality(UnfinishedOf(c)') <= PrincipalMessageLimit
    BY <1>1, RemoteAssumption DEF ShareOK
  <1> QED BY <1>2, <1>3 DEF ShareOK

(* A task that was finished does not count again, nor one without task.    *)
LEMMA UnfinishedShrinks ==
  ASSUME \A d \in CorrelationKeys :
           correlations'[d].task # None /\ a2aTasks'[correlations'[d].task].state \notin TaskTerminal
             => /\ correlations[d].task # None
                /\ a2aTasks[correlations[d].task].state \notin TaskTerminal,
         NEW c
  PROVE  UnfinishedOf(c)' \subseteq UnfinishedOf(c)
  BY DEF UnfinishedOf

(* Messages that are carried, or new ones of others.                       *)
LEMMA ActiveShrinks ==
  ASSUME \A m \in MessageIds :
           messages'[m].from \in RemotePrincipals /\ messages'[m].state \in Active
             => messages[m].from = messages'[m].from /\ messages[m].state \in Active
  PROVE  RemoteActive(messages)' \subseteq RemoteActive(messages)
  BY DEF RemoteActive

(* The synchronisation finishes tasks and makes none.                      *)
LEMMA FollowShares ==
  ASSUME ShareInv, RemoteInv', RowsKept, FollowMessages,
         AllCarried(messages') \/ StoredBy(Agents \cup Humans)
  PROVE  ShareInv'
  <1>1. BacklogInv'
    <2>1. StoredBy(Agents \cup Humans) => Stored
      BY DEF Stored, StoredBy, Participants
    <2> QED BY <2>1, BacklogCarried, BacklogStored DEF ShareInv, RemoteInv, RowsInv
  <1>2. RemoteActive(messages)' \subseteq RemoteActive(messages)
    <2>1. ASSUME NEW m \in MessageIds,
                 messages'[m].from \in RemotePrincipals, messages'[m].state \in Active
          PROVE  messages[m].from = messages'[m].from /\ messages[m].state \in Active
      BY <2>1 DEF RowsKept, RowKept, RowNew
    <2> QED BY <2>1, ActiveShrinks
  <1>3. /\ RemoteTypeOK /\ now' \in Nat /\ messages' \in [MessageIds -> Message]
        /\ \A d \in CorrelationKeys : CorrelationOK(d)
    BY DEF ShareInv, RemoteInv, RowsInv, DeliveryInv, DeliveryTypeOK, RegistryTypeOK
  <1>4. ASSUME NEW d \in CorrelationKeys, correlations'[d].task # None,
               a2aTasks'[correlations'[d].task].state \notin TaskTerminal
        PROVE  /\ correlations[d].task # None
               /\ a2aTasks[correlations[d].task].state \notin TaskTerminal
    <2>1. PICK j : j = correlations[d].task
      OBVIOUS
    <2>2. correlations'[d].task = j
      BY <1>3, <2>1, FollowCorrelations
    <2>3. j \in RemoteTaskIds
      BY <1>3, <1>4, <2>1, <2>2 DEF CorrelationOK
    <2>4. TaskMoves(a2aTasks[j], a2aTasks'[j])
      BY <1>3, <2>3, FollowTasks
    <2> QED BY <1>4, <2>1, <2>2, <2>4 DEF TaskMoves
  <1>5. \A c \in RemotePrincipals : UnfinishedOf(c)' \subseteq UnfinishedOf(c)
    BY <1>4, UnfinishedShrinks
  <1> QED BY <1>1, <1>2, <1>5, ShareShrinks DEF ShareInv

(* Retention takes whole tasks and their messages.                         *)
LEMMA PruneShares ==
  ASSUME ShareInv, RemoteInv', NEW token, NEW before, NEW execute,
         PruneRemote(token, before, execute)
  PROVE  ShareInv'
  <1>1. PICK keep, tasks :
          /\ PruneMessages(token, before, execute, keep)
          /\ IF execute
             THEN /\ a2aTasks' = [k \in RemoteTaskIds |->
                       IF k \in tasks THEN NoRemoteTask("removed") ELSE a2aTasks[k]]
                  /\ correlations' = [c \in CorrelationKeys |->
                       IF correlations[c].task \in tasks THEN NoCorrelation ELSE correlations[c]]
             ELSE UNCHANGED <<a2aTasks, correlations>>
    BY Zenon DEF PruneRemote
  <1> DEFINE gone == IF execute THEN tasks ELSE {}
  <1>2. /\ \A k \in RemoteTaskIds : a2aTasks'[k] = IF k \in gone THEN NoRemoteTask("removed")
                                                                ELSE a2aTasks[k]
        /\ \A c \in CorrelationKeys : correlations'[c] = IF correlations[c].task \in gone
                                                         THEN NoCorrelation ELSE correlations[c]
    BY <1>1
  <1> HIDE DEF gone
  <1>3. DeliveryInv /\ BacklogInv /\ \A d \in CorrelationKeys : CorrelationOK(d)
    BY DEF ShareInv, RemoteInv, RowsInv
  <1>4. BacklogInv'
    BY <1>1, <1>3, BacklogPruned
  <1>5. RemoteActive(messages)' \subseteq RemoteActive(messages)
    <2>1. ASSUME NEW m \in MessageIds,
                 messages'[m].from \in RemotePrincipals, messages'[m].state \in Active
          PROVE  messages[m].from = messages'[m].from /\ messages[m].state \in Active
      <3>1. PICK e : e = expireMessages(messages, now)[m]
        OBVIOUS
      <3>2. /\ Carried(messages[m], e)
            /\ messages'[m] = e \/ messages'[m] = NoRow("removed")
        BY <1>1, <1>3, <3>1, PrunedRows
      <3>3. e.state \in Active => messages[m].state \in Active
        BY <3>2 DEF Carried
      <3> QED BY <2>1, <3>2, <3>3 DEF Carried, NoRow, Active
    <2> QED BY <2>1, ActiveShrinks
  <1>6. ASSUME NEW d \in CorrelationKeys, correlations'[d].task # None,
               a2aTasks'[correlations'[d].task].state \notin TaskTerminal
        PROVE  /\ correlations[d].task # None
               /\ a2aTasks[correlations[d].task].state \notin TaskTerminal
    <2>1. PICK j : j = correlations[d].task
      OBVIOUS
    <2>2. correlations'[d] = correlations[d] /\ j \notin gone
      BY <1>6, <1>2, <2>1 DEF NoCorrelation
    <2>3. j \in RemoteTaskIds
      BY <1>3, <1>6, <2>1, <2>2 DEF CorrelationOK
    <2> QED BY <1>6, <1>2, <2>1, <2>2, <2>3
  <1>7. \A c \in RemotePrincipals : UnfinishedOf(c)' \subseteq UnfinishedOf(c)
    BY <1>6, UnfinishedShrinks
  <1> QED BY <1>3, <1>4, <1>5, <1>7, ShareShrinks DEF ShareInv

(* A task that its principal moves leaves no share larger.                 *)
LEMMA MoveShares ==
  ASSUME ShareInv, RemoteInv', NEW c \in RemotePrincipals, NEW version, NEW k \in RemoteTaskIds,
         NEW state \in RemoteTaskState, SetA2ATaskState(c, version, k, state)
  PROVE  ShareInv'
  <1>1. /\ messages' = messages /\ correlations' = correlations
        /\ a2aTasks[k].state \notin TaskTerminal
        /\ a2aTasks' = [a2aTasks EXCEPT ![k].state = state, ![k].updated_at = now]
    BY DEF SetA2ATaskState, vars, deliveryVars, validA2ATaskTransition, TaskTerminal
  <1>2. a2aTasks \in [RemoteTaskIds -> RemoteTask] /\ \A d \in CorrelationKeys : CorrelationOK(d)
    BY DEF ShareInv, RemoteInv, RemoteTypeOK
  <1>3. \A j \in RemoteTaskIds : j # k => a2aTasks'[j] = a2aTasks[j]
    BY <1>1, <1>2
  <1>4. \A d \in CorrelationKeys :
           correlations'[d].task # None /\ a2aTasks'[correlations'[d].task].state \notin TaskTerminal
             => /\ correlations[d].task # None
                /\ a2aTasks[correlations[d].task].state \notin TaskTerminal
    BY <1>1, <1>2, <1>3 DEF CorrelationOK
  <1>5. \A b \in RemotePrincipals : UnfinishedOf(b)' \subseteq UnfinishedOf(b)
    BY <1>4, UnfinishedShrinks
  <1>6. RemoteActive(messages)' \subseteq RemoteActive(messages) /\ BacklogInv'
    BY <1>1 DEF RemoteActive, ShareInv, BacklogInv, Unfinished
  <1> QED BY <1>5, <1>6, ShareShrinks DEF ShareInv

(* A message that is accepted is counted against both limits first.        *)
LEMMA OpenShares ==
  ASSUME ShareInv, RemoteInv', NEW c \in RemotePrincipals, NEW version, NEW key \in Keys,
         NEW asked \in RemoteTaskIds \cup {None}, Opens(c, version, key, asked)
  PROVE  ShareInv'
  <1>1. PICK agent : agent = publications[credentials[c].publication].agent
    OBVIOUS
  <1>2. /\ requireCurrentA2APrincipal(c, version) /\ correlations[<<c, key>>].task = None
        /\ sendMessageTx(c, RequestInput(agent, key))
        /\ UNCHANGED <<registryVars, reservations>>
        /\ Cardinality(UnfinishedOf(c)) < PrincipalMessageLimit
        /\ Cardinality(RemoteActive(expireMessages(messages, now))) < MaxRemoteBacklog
    BY <1>1 DEF Opens
  <1>3. PICK k \in TaskFor(c, agent, asked), m \in MessageIds :
          /\ a2aTasks' = [a2aTasks EXCEPT ![k] =
               [state |-> IF asked = None THEN "submitted" ELSE "working",
                principal |-> c, agent |-> agent, updated_at |-> now]]
          /\ correlations' = [correlations EXCEPT ![<<c, key>>] =
               [task |-> k, asked |-> asked, request |-> m, response |-> None]]
    BY <1>1 DEF Opens
  <1>4. /\ RemoteInv /\ DeliveryInv /\ RemoteTypeOK /\ BacklogInv /\ ShareOK
        /\ None \notin RemoteTaskIds /\ MaxRemoteBacklog \in Nat /\ PrincipalMessageLimit \in Nat
        /\ messages \in [MessageIds -> Message]
        /\ \A e \in CorrelationKeys : CorrelationOK(e)
    BY RemoteAssumption DEF ShareInv, RemoteInv, RowsInv, DeliveryInv, DeliveryTypeOK
  <1>5. RequestInput(agent, key) \in SendInputs
    BY <1>1, <1>2, <1>4, AcceptStores
  <1>6. PICK id \in MessageIds :
          /\ Stores(c, RequestInput(agent, key), id)
          /\ \A n \in MessageIds \ {id} :
               /\ messages'[n].state = expireMessages(messages, now)[n].state
               /\ messages'[n].from = expireMessages(messages, now)[n].from
    BY <1>1, <1>2, <1>4, AcceptStores
  <1>7. BacklogInv'
    <2>1. Stored
      BY <1>5, <1>6 DEF Stored, StoredBy, Participants
    <2> QED BY <1>4, <2>1, BacklogStored
  <1>8. /\ IsFiniteSet(RemoteActive(messages)')
        /\ Cardinality(RemoteActive(messages)') <= MaxRemoteBacklog
    <2> DEFINE left == RemoteActive(expireMessages(messages, now))
    <2>1. \A n \in MessageIds : Carried(messages[n], expireMessages(messages, now)[n])
      BY <1>4, ExpireCarries DEF AllCarried
    <2>2. left \subseteq RemoteActive(messages)
      BY <2>1 DEF RemoteActive, Carried
    <2>3. RemoteActive(messages)' \subseteq left \cup {id}
      BY <1>6 DEF RemoteActive
    <2>4. Cardinality(left) < MaxRemoteBacklog
      BY <1>2
    <2> HIDE DEF left
    <2>5. IsFiniteSet(left) /\ Cardinality(left) \in Nat
      BY <1>4, <2>2, FS_Subset, FS_CardinalityType DEF ShareOK
    <2>6. /\ IsFiniteSet(left \cup {id})
          /\ Cardinality(left \cup {id}) <= Cardinality(left) + 1
          /\ Cardinality(left \cup {id}) \in Nat
      <3>1. /\ IsFiniteSet(left \cup {id})
            /\ \/ Cardinality(left \cup {id}) = Cardinality(left)
               \/ Cardinality(left \cup {id}) = Cardinality(left) + 1
        BY <2>5, FS_AddElement
      <3> QED BY <2>5, <3>1
    <2>7. /\ IsFiniteSet(RemoteActive(messages)')
          /\ Cardinality(RemoteActive(messages)') <= Cardinality(left \cup {id})
          /\ Cardinality(RemoteActive(messages)') \in Nat
      BY <2>3, <2>6, FS_Subset, FS_CardinalityType
    <2> QED BY <1>4, <2>4, <2>5, <2>6, <2>7
  <1>9. PICK d : d = <<c, key>>
    OBVIOUS
  <1>10. /\ d \in CorrelationKeys /\ d[1] = c /\ k \in RemoteTaskIds
         /\ a2aTasks[k].state = "absent" \/ a2aTasks[k].state = "input-required"
    BY <1>3, <1>9 DEF CorrelationKeys, TaskFor
  <1>11. /\ \A j \in RemoteTaskIds \ {k} : a2aTasks'[j] = a2aTasks[j]
         /\ \A e \in CorrelationKeys \ {d} : correlations'[e] = correlations[e]
    BY <1>3, <1>4, <1>9, <1>10 DEF RemoteTypeOK
  <1>12. ASSUME NEW e \in CorrelationKeys \ {d}, correlations'[e].task # None,
                a2aTasks'[correlations'[e].task].state \notin TaskTerminal
         PROVE  /\ correlations[e].task # None
                /\ a2aTasks[correlations[e].task].state \notin TaskTerminal
    <2>1. PICK j : j = correlations[e].task
      OBVIOUS
    <2>2. correlations'[e].task = j /\ j # None
      BY <1>11, <1>12, <2>1
    <2>3. j \in RemoteTaskIds
      BY <1>4, <2>1, <2>2 DEF CorrelationOK
    <2>4. CASE j = k
      BY <1>10, <2>1, <2>2, <2>4 DEF TaskTerminal
    <2>5. CASE j # k
      BY <1>11, <1>12, <2>1, <2>2, <2>3, <2>5
    <2> QED BY <2>4, <2>5
  <1>13. ASSUME NEW b \in RemotePrincipals
         PROVE  /\ IsFiniteSet(UnfinishedOf(b)')
                /\ Cardinality(UnfinishedOf(b)') <= PrincipalMessageLimit
    <2> DEFINE old == UnfinishedOf(b)
               new == UnfinishedOf(b)'
    <2>1. new \subseteq old \cup {d} /\ (b # c => new \subseteq old)
      <3>1. \A e \in new : e \in CorrelationKeys /\ e[1] = b /\ (e = d \/ e \in old)
        BY <1>12 DEF UnfinishedOf
      <3> HIDE DEF new, old
      <3> QED BY <1>10, <3>1
    <2>2. /\ IsFiniteSet(old) /\ Cardinality(old) <= PrincipalMessageLimit
          /\ b = c => Cardinality(old) < PrincipalMessageLimit
      BY <1>2, <1>4 DEF ShareOK
    <2> HIDE DEF new, old
    <2>3. /\ Cardinality(old) \in Nat
          /\ IsFiniteSet(old \cup {d})
          /\ Cardinality(old \cup {d}) <= Cardinality(old) + 1
          /\ Cardinality(old \cup {d}) \in Nat
      <3>1. Cardinality(old) \in Nat
        BY <2>2, FS_CardinalityType
      <3>2. /\ IsFiniteSet(old \cup {d})
            /\ \/ Cardinality(old \cup {d}) = Cardinality(old)
               \/ Cardinality(old \cup {d}) = Cardinality(old) + 1
        BY <2>2, FS_AddElement
      <3> QED BY <3>1, <3>2
    <2>4. CASE b = c
      <3>1. /\ IsFiniteSet(new) /\ Cardinality(new) <= Cardinality(old \cup {d})
            /\ Cardinality(new) \in Nat
        BY <2>1, <2>3, FS_Subset, FS_CardinalityType
      <3>2. Cardinality(new) <= PrincipalMessageLimit
        BY <1>4, <2>2, <2>3, <2>4, <3>1
      <3> QED BY <3>1, <3>2 DEF new
    <2>5. CASE b # c
      <3>1. /\ IsFiniteSet(new) /\ Cardinality(new) <= Cardinality(old)
            /\ Cardinality(new) \in Nat
        BY <2>1, <2>2, <2>5, FS_Subset, FS_CardinalityType
      <3>2. Cardinality(new) <= PrincipalMessageLimit
        BY <1>4, <2>2, <2>3, <3>1
      <3> QED BY <3>1, <3>2 DEF new
    <2> QED BY <2>4, <2>5
  <1>14. ShareOK'
    BY <1>8, <1>13 DEF ShareOK
  <1> QED BY <1>7, <1>14 DEF ShareInv

(* A new scope has nothing to count.                                       *)
LEMMA InitShares ==
  ASSUME DeliveryInit, RemoteInit
  PROVE  ShareInv
  <1>1. /\ messages = [m \in MessageIds |-> NoRow("absent")]
        /\ correlations = [c \in CorrelationKeys |-> NoCorrelation]
    BY DEF DeliveryInit, RemoteInit
  <1>2. Unfinished = {} /\ RemoteActive(messages) = {}
    BY <1>1 DEF Unfinished, RemoteActive, NoRow, Active
  <1>3. \A c \in RemotePrincipals : UnfinishedOf(c) = {}
    BY <1>1 DEF UnfinishedOf, NoCorrelation
  <1>4. IsFiniteSet({}) /\ Cardinality({}) = 0
    BY FS_EmptySet
  <1>5. 0 <= MessageBacklogCap /\ 0 <= MaxRemoteBacklog /\ 0 <= PrincipalMessageLimit
    BY DeliveryAssumption, RemoteAssumption
  <1> QED BY <1>2, <1>3, <1>4, <1>5, InitRemote DEF ShareInv, BacklogInv, ShareOK

(* The counted sets are those of the caps.                                 *)
LEMMA SharesShown == BacklogInv /\ ShareOK => BacklogShared
  BY DEF BacklogInv, ShareOK, BacklogShared, BacklogBounded, Backlog, Unfinished,
         RemoteShareBounded, RemoteActive

(* The backlog is bounded with remote principals too, and they never take  *)
(* more of it than their part, nor one of them more than its limit         *)
(* (sendMessageTx, AcceptA2AMessage).                                      *)
THEOREM BacklogIsShared == RemoteSpec => []BacklogShared
  <1>1. ASSUME BacklogInv, ShareOK, RemoteInv, RemoteInv', UNCHANGED <<vars, a2aTasks, correlations>>
        PROVE  BacklogInv' /\ ShareOK'
    <2>1. messages' = messages /\ a2aTasks' = a2aTasks /\ correlations' = correlations
      BY <1>1 DEF vars, deliveryVars
    <2> QED BY <1>1, <2>1 DEF BacklogInv, Unfinished, ShareOK, RemoteActive, UnfinishedOf
  <1>2. ASSUME BacklogInv, ShareOK, RemoteInv, RemoteInv', RemoteNext
        PROVE  BacklogInv' /\ ShareOK'
    <2>1. ShareInv
      BY <1>2 DEF ShareInv
    <2>2. ShareInv' \/ UNCHANGED <<vars, a2aTasks, correlations>>
      BY <1>2, <2>1, RemoteCases, StepCases, FollowShares, PruneShares, OpenShares, MoveShares
    <2> QED BY <1>1, <1>2, <2>2 DEF ShareInv
  <1>3. ASSUME BacklogInv, ShareOK, RemoteInv, RemoteInv', UNCHANGED <<vars, remoteVars>>
        PROVE  BacklogInv' /\ ShareOK'
    BY <1>1, <1>3 DEF remoteVars
  <1>4. DeliveryInit /\ RemoteInit => BacklogInv /\ ShareOK
    BY InitShares DEF ShareInv
  <1> QED BY <1>2, <1>3, <1>4, SharesShown, RemoteInvHolds, PTL DEF RemoteSpec

-----------------------------------------------------------------------------
(* A scope that moves: what has to hold of it to be exported.  Each part   *)
(* is what validateArchive looks at in one of the collections.             *)

RegisteredAgents == {a \in Agents : Registered(a)}

(* A link is between two agents of the scope.                              *)
LinksOK == \A link \in links : link \subseteq RegisteredAgents /\ Cardinality(link) = 2

(* The agents of a message are of the scope, and only a response names a   *)
(* request.                                                                *)
PartiesOK(m) ==
  Present(messages[m]) =>
    /\ {messages[m].from, messages[m].to} \cap Agents \subseteq RegisteredAgents
    /\ messages[m].mode # "response" => messages[m].response_to = None

(* A question is of an agent of the scope, and dated when it was resolved. *)
AskedOK(e) ==
  escalations[e].status \in {"pending", "resolved"} =>
    /\ escalations[e].agent \in RegisteredAgents
    /\ escalations[e].status = "resolved" => escalations[e].resolved_at # 0

(* The counts of AskHuman are of finite sets.                              *)
QuestionsCapped ==
  /\ IsFiniteSet(Pending(Agents))
  /\ Cardinality(Pending(Agents)) <= PendingPerScope
  /\ \A a \in Agents : Cardinality(Pending({a})) <= PendingPerAgent

(* An agent of the scope has one publication.                              *)
PublicationOK(p) ==
  publications[p].agent # None =>
    /\ publications[p].agent \in RegisteredAgents
    /\ \A q \in PublicationIds : publications[q].agent = publications[p].agent => q = p

(* The agent of a task is published.                                       *)
ServedOK(k) ==
  TaskPresent(k) =>
    /\ a2aTasks[k].agent \in RegisteredAgents
    /\ \E p \in PublicationIds : publications[p].agent = a2aTasks[k].agent

(* The invariants of the questions and of the remote work at once.         *)
WorkInv == AnswersInv /\ ShareInv /\ IdempotentSends

(* What an export needs of a scope beside that.                            *)
TablesOK ==
  /\ LinksOK
  /\ \A m \in MessageIds : PartiesOK(m)
  /\ \A e \in EscalationIds : AskedOK(e)
  /\ QuestionsCapped
  /\ \A p \in PublicationIds : PublicationOK(p)
  /\ \A k \in RemoteTaskIds : ServedOK(k)

ScopeInv == WorkInv /\ TablesOK

(* The rows of a deleted scope are gone.                                   *)
Emptied ==
  /\ \A a \in Agents : agents[a].lease_expires_at = 0
  /\ links = {}
  /\ \A m \in MessageIds : ~Present(messages[m])
  /\ Held = {}
  /\ \A e \in EscalationIds : escalations[e].status \in {"absent", "removed"}
  /\ \A p \in PublicationIds : publications[p] = NoPublication
  /\ \A c \in RemotePrincipals : credentials[c].publication = None
  /\ \A k \in RemoteTaskIds : ~TaskPresent(k)
  /\ \A c \in CorrelationKeys : correlations[c] = NoCorrelation

-----------------------------------------------------------------------------
(* The archive.  The facts of the scope's tables are restated of tables    *)
(* given as values, since an archive holds such and not variables.         *)

(* Rows of the same message, reserved or not.                              *)
SameMessage(x, y) ==
  /\ Present(y) <=> Present(x)
  /\ Present(x) =>
       /\ PhaseOf(y) = PhaseOf(x)
       /\ y.from = x.from /\ y.to = x.to /\ y.mode = x.mode /\ y.response_to = x.response_to
       /\ y.idempotency_key = x.idempotency_key
       /\ y.created_at = x.created_at /\ y.expires_at = x.expires_at
       /\ y.delivered_at = x.delivered_at /\ y.acknowledged_at = x.acknowledged_at
       /\ y.response_message_id = x.response_message_id

AnswersIn(msgs, e) == {m \in MessageIds : Present(msgs[m]) /\ msgs[m].idempotency_key = e}

AnswerIn(msgs, row, e) ==
  /\ row.status \in {"absent", "pending"} => AnswersIn(msgs, e) = {}
  /\ row.status = "resolved" => \E m \in MessageIds : /\ AnswersIn(msgs, e) = {m}
                                                     /\ AnswerOf(msgs[m], row)

PairedIn(msgs) ==
  /\ \A r \in MessageIds : Present(msgs[r]) /\ msgs[r].mode = "response" =>
       /\ msgs[r].response_to \in MessageIds
       /\ LET request == msgs[msgs[r].response_to] IN
          /\ Present(request) /\ request.mode = "request"
          /\ request.response_message_id = r
          /\ request.from = msgs[r].to /\ request.to = msgs[r].from
          /\ request.delivered_at \in 1..msgs[r].created_at
  /\ \A q \in MessageIds : Present(msgs[q]) /\ msgs[q].response_message_id # None =>
       LET response == msgs[msgs[q].response_message_id] IN
       /\ msgs[q].mode = "request"
       /\ Present(response) /\ response.mode = "response" /\ response.response_to = q

CorrelationIn(msgs, tks, corrs, c) ==
  /\ corrs[c].task = None => corrs[c] = NoCorrelation
  /\ corrs[c].task # None =>
       /\ corrs[c].task \in RemoteTaskIds
       /\ tks[corrs[c].task].state \in RemoteTaskState
       /\ tks[corrs[c].task].principal = c[1]
       /\ corrs[c].request \in MessageIds
       /\ RequestRow(c, corrs[c].response, msgs[corrs[c].request])
       /\ msgs[corrs[c].request].to = tks[corrs[c].task].agent

CorrelatedIn(msgs, corrs, m) ==
  Present(msgs[m]) /\ msgs[m].from \in RemotePrincipals =>
    LET c == <<msgs[m].from, msgs[m].idempotency_key>> IN
    c \in CorrelationKeys /\ corrs[c].request = m

RequestsIn(corrs, k) == {corrs[c].request : c \in {c \in CorrelationKeys : corrs[c].task = k}}

SubmittedIn(msgs, tks, corrs, k) ==
  tks[k].state = "submitted" =>
    \E q \in MessageIds :
      /\ RequestsIn(corrs, k) = {q}
      /\ Present(msgs[q]) /\ PhaseOf(msgs[q]) = "queued" /\ msgs[q].delivered_at = 0
      /\ msgs[q].to = tks[k].agent

UnfinishedIn(tks, corrs, c) ==
  {d \in CorrelationKeys : /\ d[1] = c /\ corrs[d].task # None
                           /\ tks[corrs[d].task].state \notin TaskTerminal}

ActiveIn(msgs) == {m \in MessageIds : msgs[m].state \in Active}

PendingIn(escs, S) == {e \in EscalationIds : escs[e].status = "pending" /\ escs[e].agent \in S}

ArchiveTypeOK(x) ==
  /\ x.agents \subseteq Agents
  /\ x.links \subseteq SUBSET Agents
  /\ x.messages \in [MessageIds -> Message]
  /\ x.escalations \in [EscalationIds -> Escalation]
  /\ x.publications \in [PublicationIds -> Agents \cup {None}]
  /\ x.tasks \in [RemoteTaskIds -> RemoteTask]
  /\ x.correlations \in [CorrelationKeys -> Correlation]

(* A row that nobody holds, with instants not later than t.                *)
ArchivedRow(msg, t) ==
  /\ msg.state # "reserved" /\ msg.reservation_id = None
  /\ InTime(msg) /\ msg.delivered_at <= t /\ DatedRow(msg, t)

(* What an archive brings to the scope it is imported into, beyond what    *)
(* the import checks.  It was taken at t or before.                        *)
ArchiveOK(x, t) ==
  /\ ArchiveTypeOK(x)
  /\ \A m \in MessageIds : ArchivedRow(x.messages[m], t)
  /\ PairedIn(x.messages)
  /\ \A e \in EscalationIds : /\ QuestionRow(x.escalations[e])
                              /\ AnswerIn(x.messages, x.escalations[e], e)
  /\ \A c \in CorrelationKeys : CorrelationIn(x.messages, x.tasks, x.correlations, c)
  /\ \A m \in MessageIds : CorrelatedIn(x.messages, x.correlations, m)
  /\ \A k \in RemoteTaskIds : SubmittedIn(x.messages, x.tasks, x.correlations, k)
  /\ IsFiniteSet(ActiveIn(x.messages))
  /\ IsFiniteSet(RemoteActive(x.messages))
  /\ Cardinality(RemoteActive(x.messages)) <= MaxRemoteBacklog
  /\ \A c \in RemotePrincipals :
       /\ IsFiniteSet(UnfinishedIn(x.tasks, x.correlations, c))
       /\ Cardinality(UnfinishedIn(x.tasks, x.correlations, c)) <= PrincipalMessageLimit
  /\ IsFiniteSet(PendingIn(x.escalations, Agents))

(* The random IDs of questions stay used.                                  *)
UsedIds == \A e \in EscalationIds :
             archive.escalations[e].status # "absent" => escalations[e].status # "absent"

(* The invariant of a scope that moves: also where it does not exist, the  *)
(* rows that are left cannot spoil what is imported over them.             *)
ArchiveInv ==
  /\ exists \in BOOLEAN
  /\ ScopeInv
  /\ ~exists => Emptied
  /\ archive # None => ArchiveOK(archive, now) /\ UsedIds

-----------------------------------------------------------------------------
(* The steps of a scope that is there.                                     *)

(* What a step does to the messages, and to the registry.                  *)
RowsMove ==
  \/ AllCarried(messages') \/ Stored
  \/ \E token, before, execute, keep : PruneMessages(token, before, execute, keep)

RegistryMoves == UNCHANGED registryVars \/ DeliveryNext

(* Nothing on the messages.                                                *)
LEMMA SameCarried ==
  ASSUME messages' = messages
  PROVE  AllCarried(messages')
  BY DEF AllCarried, Carried, Present

(* A link is between two agents of the scope.                              *)
LEMMA LinksKept ==
  ASSUME DeliveryInv, LinksOK, RegistryMoves
  PROVE  LinksOK' /\ \A a \in Agents : Registered(a) => Registered(a)'
  <1>1. \A a \in Agents : Registered(a) => Registered(a)'
    <2>1. CASE UNCHANGED registryVars
      BY <2>1 DEF Registered, registryVars
    <2>2. CASE DeliveryNext
      BY <2>2, ScopeRegistered
    <2> QED BY <2>1, <2>2 DEF RegistryMoves
  <1>2. RegisteredAgents \subseteq RegisteredAgents'
    BY <1>1 DEF RegisteredAgents
  <1>3. ASSUME links' = links PROVE LinksOK'
    BY <1>2, <1>3 DEF LinksOK
  <1>4. ASSUME NEW a \in Agents, NEW b \in Agents, a # b, Registered(a)', Registered(b)'
        PROVE  {a, b} \subseteq RegisteredAgents' /\ Cardinality({a, b}) = 2
    <2>1. IsFiniteSet({a}) /\ Cardinality({a}) = 1
      BY FS_Singleton
    <2>2. Cardinality({a} \cup {b}) = 2
      BY <1>4, <2>1, FS_AddElement
    <2>3. {a} \cup {b} = {a, b}
      OBVIOUS
    <2> QED BY <1>4, <2>2, <2>3 DEF RegisteredAgents
  <1>5. ASSUME NEW token, NEW a \in Agents, NEW b \in Agents, LinkAgents(token, a, b)
        PROVE  LinksOK'
    <2>1. a # b /\ Registered(a)' /\ Registered(b)' /\ links' = links \cup {{a, b}}
      BY <1>1, <1>5 DEF LinkAgents
    <2> QED BY <1>2, <1>4, <2>1 DEF LinksOK
  <1>6. ASSUME NEW token, NEW a \in Agents, NEW leaseMS, NEW connectTo \in SUBSET Agents,
               NEW workspace, RegisterRow(token, a, leaseMS, connectTo, workspace)
        PROVE  LinksOK'
    <2>1. PICK peers : peers = ConnectPeers(a, connectTo, workspace)
      OBVIOUS
    <2>2. /\ a \notin peers /\ \A b \in peers : b \in Agents /\ Registered(b)
          /\ links' = links \cup {{a, b} : b \in peers}
      BY <1>6, <2>1 DEF RegisterRow, ConnectPeers
    <2>3. Registered(a)'
      <3>1. /\ agents \in [Agents -> Agent] /\ agents[a].execution_id \in Nat
            /\ agents'[a].execution_id = agents[a].execution_id + 1
        BY <1>6 DEF RegisterRow, DeliveryInv, DeliveryTypeOK, RegistryTypeOK, Agent
      <3> QED BY <3>1 DEF Registered
    <2>4. \A b \in peers : {a, b} \subseteq RegisteredAgents' /\ Cardinality({a, b}) = 2
      BY <1>1, <1>4, <2>2, <2>3
    <2> QED BY <1>2, <2>2, <2>4 DEF LinksOK
  <1>7. ASSUME RegistryNext PROVE LinksOK'
    BY <1>3, <1>5, <1>6, <1>7, Zenon
       DEF RegistryNext, Tick, RegisterAgent, Heartbeat, HeartbeatRow, RetireAgent, RetireRow,
           RotateScopeToken, RotateRows
  <1>8. ASSUME InboxNext \/ HumanNext PROVE LinksOK'
    <2>1. links' = links
      BY <1>8, Zenon DEF InboxNext, SendMessage, Receipt, ReserveInbox, CommitInbox,
            ReleaseInbox, AcknowledgeMessages, PruneMessages, registryVars, ClockOnly,
            HumanNext, SendHumanMessage, ReadHumanMessages
    <2> QED BY <1>3, <2>1
  <1>9. LinksOK'
    BY <1>3, <1>7, <1>8 DEF RegistryMoves, DeliveryNext, registryVars
  <1> QED BY <1>1, <1>9

(* Who takes part in a message is of the scope: two agents are linked, the *)
(* recipient of anything but a response is an agent that exists, and the   *)
(* parties of a response are those of its request.                         *)
LEMMA PartiesKept ==
  ASSUME DeliveryInv, LinksOK, \A m \in MessageIds : PartiesOK(m), RowsMove,
         \A a \in Agents : Registered(a) => Registered(a)'
  PROVE  \A m \in MessageIds : PartiesOK(m)'
  <1>1. RegisteredAgents \subseteq RegisteredAgents'
    BY DEF RegisteredAgents
  <1>2. ASSUME NEW m \in MessageIds,
               Present(messages'[m]) => /\ Present(messages[m])
                                        /\ messages'[m].from = messages[m].from
                                        /\ messages'[m].to = messages[m].to
                                        /\ messages'[m].mode = messages[m].mode
                                        /\ messages'[m].response_to = messages[m].response_to
        PROVE  PartiesOK(m)'
    BY <1>1, <1>2 DEF PartiesOK
  <1>3. CASE AllCarried(messages')
    BY <1>2, <1>3 DEF AllCarried, Carried
  <1>4. ASSUME NEW token, NEW before, NEW execute, NEW keep,
               PruneMessages(token, before, execute, keep), NEW m \in MessageIds
        PROVE  PartiesOK(m)'
    <2>1. PICK e : e = expireMessages(messages, now)[m]
      OBVIOUS
    <2>2. Carried(messages[m], e) /\ (messages'[m] = e \/ messages'[m] = NoRow("removed"))
      BY <1>4, <2>1, PrunedRows
    <2>3. ~Present(NoRow("removed"))
      BY DEF Present, NoRow, Active, Terminal
    <2> QED BY <1>2, <2>2, <2>3 DEF Carried
  <1>5. ASSUME NEW sender \in Participants, NEW in \in SendInputs, NEW id \in MessageIds,
               Stores(sender, in, id), NEW m \in MessageIds
        PROVE  PartiesOK(m)'
    <2>1. CASE m # id
      BY <1>2, <1>5, <2>1, StoredOthers DEF Carried, Present
    <2>2. CASE m = id
      <3>1. /\ messages'[id].from = sender /\ messages'[id].to = in.to
            /\ messages'[id].mode = in.mode /\ messages'[id].response_to = in.response_to
        BY <1>5, StoredNew
      <3>2. PICK msgs : msgs = expireMessages(messages, now)
        OBVIOUS
      <3>3. ResponseLinkOK(msgs, sender, in) /\ RouteOK(sender, in)
        BY <1>5, <3>2 DEF Stores
      <3>4. in.mode # "response" => in.response_to = None /\ in.to \in Agents
        BY <3>3 DEF ResponseLinkOK
      <3>5. in.to \in Agents /\ sender \in Agents => {sender, in.to} \subseteq RegisteredAgents
        BY <3>3 DEF RouteOK, linkedAgents, LinksOK
      <3>6. in.to \in Agents /\ sender \notin Agents => in.to \in RegisteredAgents
        BY <3>3 DEF RouteOK, RegisteredAgents
      <3>7. ASSUME in.mode = "response", sender \in Agents PROVE sender \in RegisteredAgents
        <4>1. PICK q \in MessageIds :
                /\ Present(msgs[q]) /\ msgs[q].to = sender
          BY <3>3, <3>7 DEF ResponseLinkOK, SendInputs
        <4>2. Carried(messages[q], msgs[q])
          BY <3>2, ExpireCarries DEF DeliveryInv, DeliveryTypeOK, AllCarried
        <4> QED BY <3>7, <4>1, <4>2 DEF Carried, PartiesOK
      <3>8. {sender, in.to} \cap Agents \subseteq RegisteredAgents
        BY <3>4, <3>5, <3>6, <3>7
      <3> QED BY <1>1, <2>2, <3>1, <3>4, <3>8 DEF PartiesOK
    <2> QED BY <2>1, <2>2
  <1> QED BY <1>3, <1>4, <1>5 DEF RowsMove, Stored, StoredBy

(* A question or a page beside the remote work, and the other way round.   *)
LEMMA QuestionWorks ==
  ASSUME WorkInv, NEW p \in KnownPrincipals, AskHuman(p), UNCHANGED remoteVars
  PROVE  WorkInv' /\ RowsMove /\ UNCHANGED registryVars
  <1>1. /\ AnswersInv /\ RemoteInv /\ BacklogInv /\ ShareOK /\ IdempotentSends /\ DeliveryInv
        /\ UNCHANGED vars /\ messages' = messages /\ UNCHANGED registryVars
        /\ UNCHANGED <<vars, a2aTasks, correlations>> /\ a2aTasks' = a2aTasks
        /\ correlations' = correlations
        /\ publications' = publications /\ credentials' = credentials
    BY DEF WorkInv, ShareInv, RemoteInv, RowsInv, AskHuman, vars, deliveryVars, remoteVars
  <1>2. AnswersInv'
    BY <1>1, AskKeeps
  <1>3. RemoteInv'
    <2>1. /\ publications' \in [PublicationIds -> Publication]
          /\ credentials' \in [RemotePrincipals -> Credential]
          /\ \A c \in RemotePrincipals : CredentialOK(c)'
      BY <1>1 DEF RemoteInv, RemoteTypeOK, CredentialOK
    <2> QED BY <1>1, <2>1, OwnerKeeps
  <1>4. BacklogInv' /\ ShareOK'
    BY <1>1 DEF BacklogInv, Unfinished, ShareOK, RemoteActive, UnfinishedOf
  <1>5. AllCarried(messages')
    BY <1>1, SameCarried
  <1>6. IdempotentSends'
    BY <1>1, <1>5, KeysKept
  <1> QED BY <1>1, <1>2, <1>3, <1>4, <1>5, <1>6 DEF WorkInv, ShareInv, RowsMove

(* The messages of a page, or an answer, take the tasks along.             *)
LEMMA AnswerWorks ==
  ASSUME WorkInv, FollowMessages, UNCHANGED <<publications, credentials>>,
         Messages \/ \E h \in Humans, e \in EscalationIds : ResolveEscalation(h, e)
  PROVE  WorkInv' /\ RowsMove /\ UNCHANGED registryVars
  <1>1. /\ AnswersInv /\ RemoteInv /\ ShareInv /\ IdempotentSends /\ DeliveryInv /\ RowsInv
        /\ UNCHANGED <<registryVars, reservations>>
        /\ publications' = publications /\ credentials' = credentials
    BY DEF WorkInv, ShareInv, RemoteInv, RowsInv, Messages, ResolveEscalation
  <1>2. AnswersInv'
    <2>1. EscalationsNext
      BY Zenon DEF EscalationsNext
    <2> QED BY <1>1, <2>1, AnswersPreserved
  <1>3. AllCarried(messages') \/ StoredBy(Agents \cup Humans)
    <2>1. CASE Messages
      <3>1. messages' = expireMessages(messages, now)
        BY <2>1 DEF Messages
      <3> QED BY <1>1, <3>1, ReadKeeps
    <2>2. ASSUME NEW h \in Humans, NEW e \in EscalationIds, ResolveEscalation(h, e)
          PROVE  AllCarried(messages') \/ StoredBy(Agents \cup Humans)
      <3>1. escalations[e].agent \in Agents
        BY <1>1, <2>2 DEF AnswersInv, QuestionRow, ResolveEscalation
      <3>2. PICK in : in = AnswerInput(e)
        OBVIOUS
      <3>3. in \in SendInputs
        BY <3>1, <3>2, EscalationAssumption DEF SendInputs, AnswerInput, Participants, Modes
      <3>4. h \in Participants /\ sendMessageTx(h, in)
        BY <2>2, <3>2 DEF ResolveEscalation, Participants
      <3> QED BY <1>1, <3>3, <3>4, SendStores DEF StoredBy
    <2> QED BY <2>1, <2>2
  <1>4. RowsKept
    BY <1>1, <1>3, StepKeepsRows
  <1>5. RemoteInv'
    <2>1. /\ RowsInv'
          /\ credentials' \in [RemotePrincipals -> Credential]
          /\ \A c \in RemotePrincipals : CredentialOK(c)'
      BY <1>1, <1>2 DEF RemoteInv, RemoteTypeOK, CredentialOK, AnswersInv
    <2> QED BY <1>1, <1>4, <2>1, FollowKeeps
  <1>6. ShareInv'
    BY <1>1, <1>3, <1>4, <1>5, FollowShares
  <1>7. RowsMove
    BY <1>3 DEF RowsMove, Stored, StoredBy, Participants
  <1>8. IdempotentSends'
    BY <1>1, <1>7, KeysKept DEF RowsMove
  <1> QED BY <1>1, <1>2, <1>6, <1>7, <1>8 DEF WorkInv

(* One retention pass over messages, tasks and questions.                  *)
LEMMA PruneWorks ==
  ASSUME WorkInv, NEW token, NEW before \in Nat, NEW execute \in BOOLEAN,
         PruneScope(token, before, execute)
  PROVE  WorkInv' /\ RowsMove /\ UNCHANGED registryVars
  <1>1. /\ AnswersInv /\ RemoteInv /\ ShareInv /\ IdempotentSends /\ DeliveryInv
        /\ PruneRemote(token, before, execute) /\ PruneEscalations(before, execute)
    BY DEF WorkInv, ShareInv, RemoteInv, RowsInv, PruneScope
  <1>2. PICK keep : PruneMessages(token, before, execute, keep)
    BY <1>1, Zenon DEF PruneRemote
  <1>3. RemoteInv'
    BY <1>1, PruneKeeps
  <1>4. AnswersInv'
    BY <1>1, <1>2, <1>3, PruneKeepsAnswers DEF RemoteInv
  <1>5. ShareInv'
    BY <1>1, <1>3, PruneShares
  <1>6. RowsMove /\ UNCHANGED registryVars
    BY <1>2 DEF RowsMove, PruneMessages, registryVars
  <1>7. IdempotentSends'
    BY <1>1, <1>6, KeysKept DEF RowsMove
  <1> QED BY <1>4, <1>5, <1>6, <1>7 DEF WorkInv

(* Remote work, and the rest of the scope, beside the questions.           *)
LEMMA RemoteWorks ==
  ASSUME WorkInv, RemoteStep, ClientStep, UNCHANGED escalations
  PROVE  WorkInv' /\ RowsMove
  <1>1. /\ AnswersInv /\ RemoteInv /\ ShareInv /\ IdempotentSends /\ DeliveryInv
        /\ BacklogInv /\ ShareOK
    BY DEF WorkInv, ShareInv, RemoteInv, RowsInv
  <1>2. RemoteInv' /\ RowsInv'
    <2>1. RemoteNext
      BY DEF RemoteNext
    <2> QED BY <1>1, <2>1, RemotePreserved DEF RemoteInv
  <1>3. ShareInv' /\ (AllCarried(messages') \/ Stored)
    <2>1. ASSUME UNCHANGED <<vars, a2aTasks, correlations>>
          PROVE  ShareInv' /\ AllCarried(messages')
      <3>1. messages' = messages /\ a2aTasks' = a2aTasks /\ correlations' = correlations
        BY <2>1 DEF vars, deliveryVars
      <3>2. BacklogInv' /\ ShareOK'
        BY <1>1, <3>1 DEF BacklogInv, Unfinished, ShareOK, RemoteActive, UnfinishedOf
      <3> QED BY <1>2, <3>1, <3>2, SameCarried DEF ShareInv
    <2>2. ASSUME RowsKept, FollowMessages, AllCarried(messages') \/ StoredBy(Agents \cup Humans)
          PROVE  ShareInv' /\ (AllCarried(messages') \/ Stored)
      <3>1. ShareInv'
        BY <1>1, <1>2, <2>2, FollowShares
      <3> QED BY <2>2, <3>1 DEF Stored, StoredBy, Participants
    <2>3. ASSUME NEW c \in RemotePrincipals, NEW key \in Keys,
                 NEW asked \in RemoteTaskIds \cup {None}, NEW version,
                 Opens(c, version, key, asked)
          PROVE  ShareInv' /\ Stored
      <3>1. ShareInv'
        BY <1>1, <1>2, <2>3, OpenShares
      <3>2. PICK agent : agent = publications[credentials[c].publication].agent
        OBVIOUS
      <3>3. /\ requireCurrentA2APrincipal(c, version) /\ correlations[<<c, key>>].task = None
            /\ sendMessageTx(c, RequestInput(agent, key))
            /\ UNCHANGED <<registryVars, reservations>>
        BY <2>3, <3>2 DEF Opens
      <3>4. /\ RequestInput(agent, key) \in SendInputs
            /\ \E id \in MessageIds : Stores(c, RequestInput(agent, key), id)
        BY <1>1, <3>2, <3>3, AcceptStores
      <3> QED BY <3>1, <3>4 DEF Stored, StoredBy, Participants
    <2>4. ASSUME NEW c \in RemotePrincipals, NEW k \in RemoteTaskIds,
                 NEW state \in RemoteTaskState, NEW version,
                 SetA2ATaskState(c, version, k, state)
          PROVE  ShareInv' /\ AllCarried(messages')
      <3>1. messages' = messages
        BY <2>4 DEF SetA2ATaskState, vars, deliveryVars
      <3>2. ShareInv'
        BY <1>1, <1>2, <2>4, MoveShares
      <3> QED BY <3>1, <3>2, SameCarried
    <2> QED BY <1>1, <2>1, <2>2, <2>3, <2>4, StepCases
  <1>4. AnswersInv'
    BY <1>1, <1>2, <1>3, CarriedAnswers, StoredAnswers
  <1>5. IdempotentSends'
    BY <1>1, <1>3, KeysKept
  <1> QED BY <1>3, <1>4, <1>5 DEF WorkInv, RowsMove

(* A remote step is one of the scope or touches no agent.                  *)
LEMMA RemoteRegistry ==
  ASSUME RemoteStep
  PROVE  RegistryMoves
  <1>1. ASSUME OwnerNext PROVE UNCHANGED registryVars
    BY <1>1, Zenon DEF OwnerNext, CreateAgentCardPublication, SetAgentCardPublicationEnabled,
           CreateA2APrincipal, RotateA2APrincipal, SetA2APrincipalEnabled, vars
  <1>2. ASSUME NEW c, NEW version, NEW key, NEW asked, AcceptA2AMessage(c, version, key, asked)
        PROVE  UNCHANGED registryVars
    BY <1>2, Zenon DEF AcceptA2AMessage
  <1>3. ASSUME NEW c, NEW version, A2ATask(c, version) PROVE UNCHANGED registryVars
    BY <1>3, Zenon DEF A2ATask
  <1>4. ASSUME NEW c, NEW version, NEW k, NEW state, SetA2ATaskState(c, version, k, state)
        PROVE  UNCHANGED registryVars
    BY <1>4, Zenon DEF SetA2ATaskState, vars
  <1>5. UNCHANGED registryVars \/ DeliveryNext
    BY <1>1, <1>2, <1>3, <1>4, Zenon DEF RemoteStep
  <1> QED BY <1>5 DEF RegistryMoves

(* The questions, whose agent is of the scope.                             *)
QuestionsOK == QuestionsCapped /\ \A e \in EscalationIds : AskedOK(e)

(* Nothing pends that did not.                                             *)
LEMMA PendingShrinks ==
  ASSUME QuestionsCapped, \A S : Pending(S)' \subseteq Pending(S)
  PROVE  QuestionsCapped'
  <1>1. \A S, T : IsFiniteSet(S) /\ T \subseteq S
          => IsFiniteSet(T) /\ Cardinality(T) <= Cardinality(S)
             /\ Cardinality(T) \in Nat /\ Cardinality(S) \in Nat
    BY FS_Subset, FS_CardinalityType
  <1>2. \A a \in Agents : Pending({a}) \subseteq Pending(Agents)
    BY DEF Pending
  <1>3. IsFiniteSet(Pending(Agents)) /\ Pending(Agents)' \subseteq Pending(Agents)
    BY DEF QuestionsCapped
  <1>4. IsFiniteSet(Pending(Agents)') /\ Cardinality(Pending(Agents)') <= PendingPerScope
    <2>1. PICK S, T : S = Pending(Agents) /\ T = Pending(Agents)'
      OBVIOUS
    <2>2. /\ IsFiniteSet(T) /\ Cardinality(T) <= Cardinality(S)
          /\ Cardinality(T) \in Nat /\ Cardinality(S) \in Nat
      BY <1>1, <1>3, <2>1
    <2>3. Cardinality(S) <= PendingPerScope
      BY <2>1 DEF QuestionsCapped
    <2> QED BY <2>1, <2>2, <2>3, EscalationAssumption
  <1>5. ASSUME NEW a \in Agents PROVE Cardinality(Pending({a})') <= PendingPerAgent
    <2>1. PICK S, T : S = Pending({a}) /\ T = Pending({a})'
      OBVIOUS
    <2>2. T \subseteq S /\ IsFiniteSet(S)
      BY <1>1, <1>2, <1>3, <2>1
    <2>3. /\ Cardinality(T) <= Cardinality(S)
          /\ Cardinality(T) \in Nat /\ Cardinality(S) \in Nat
      BY <1>1, <2>2
    <2>4. Cardinality(S) <= PendingPerAgent
      BY <2>1 DEF QuestionsCapped
    <2> QED BY <2>1, <2>3, <2>4, EscalationAssumption
  <1> QED BY <1>4, <1>5 DEF QuestionsCapped

(* A question more is counted against both caps first.                     *)
LEMMA AskCapped ==
  ASSUME AnswersInv, QuestionsOK, NEW p \in KnownPrincipals, AskHuman(p)
  PROVE  QuestionsOK'
  <1>1. PICK a \in Agents : a = p.agent
    BY DEF KnownPrincipals
  <1>2. PICK e \in EscalationIds :
          /\ escalations[e].status = "absent"
          /\ escalations' = [escalations EXCEPT ![e] =
               [status |-> "pending", agent |-> a, resolved_at |-> 0]]
    BY <1>1 DEF AskHuman
  <1>3. /\ escalations'[e] = [status |-> "pending", agent |-> a, resolved_at |-> 0]
        /\ \A f \in EscalationIds \ {e} : escalations'[f] = escalations[f]
    BY <1>2 DEF AnswersInv
  <1>4. /\ Registered(a) /\ agents' = agents
        /\ Cardinality(Pending({a})) < PendingPerAgent
        /\ Cardinality(Pending(Agents)) < PendingPerScope
    BY <1>1 DEF AskHuman, requireCurrentExecution, Registered, KnownPrincipals, registryVars
  <1>5. ASSUME NEW f \in EscalationIds PROVE AskedOK(f)'
    <2>1. CASE f = e
      BY <1>3, <1>4, <2>1 DEF AskedOK, RegisteredAgents, Registered
    <2>2. CASE f # e
      BY <1>3, <1>4, <2>2 DEF QuestionsOK, AskedOK, RegisteredAgents, Registered
    <2> QED BY <2>1, <2>2
  <1>6. ASSUME NEW S, NEW T, IsFiniteSet(S), T \subseteq S \cup {e}
        PROVE  /\ IsFiniteSet(T) /\ Cardinality(T) \in Nat /\ Cardinality(S) \in Nat
               /\ Cardinality(T) <= Cardinality(S) + 1
               /\ T \subseteq S => Cardinality(T) <= Cardinality(S)
    <2>1. IsFiniteSet(S \cup {e}) /\ Cardinality(S \cup {e}) <= Cardinality(S) + 1
          /\ Cardinality(S) \in Nat /\ Cardinality(S \cup {e}) \in Nat
      <3>1. /\ IsFiniteSet(S \cup {e}) /\ Cardinality(S) \in Nat
            /\ \/ Cardinality(S \cup {e}) = Cardinality(S)
               \/ Cardinality(S \cup {e}) = Cardinality(S) + 1
        BY <1>6, FS_AddElement, FS_CardinalityType
      <3> QED BY <3>1
    <2>2. /\ IsFiniteSet(T) /\ Cardinality(T) <= Cardinality(S \cup {e})
      BY <1>6, <2>1, FS_Subset
    <2>3. Cardinality(T) \in Nat
      BY <2>2, FS_CardinalityType
    <2>4. T \subseteq S => Cardinality(T) <= Cardinality(S)
      BY <1>6, FS_Subset
    <2> QED BY <2>1, <2>2, <2>3, <2>4
  <1>7. IsFiniteSet(Pending(Agents)) /\ \A b \in Agents : Pending({b}) \subseteq Pending(Agents)
    BY DEF QuestionsOK, QuestionsCapped, Pending
  <1>8. \A S : /\ Pending(S)' \subseteq Pending(S) \cup {e}
               /\ a \notin S => Pending(S)' \subseteq Pending(S)
    BY <1>3 DEF Pending
  <1>9. IsFiniteSet(Pending(Agents)') /\ Cardinality(Pending(Agents)') <= PendingPerScope
    <2>1. PICK S, T : S = Pending(Agents) /\ T = Pending(Agents)'
      OBVIOUS
    <2>2. IsFiniteSet(S) /\ T \subseteq S \cup {e} /\ Cardinality(S) < PendingPerScope
      BY <1>4, <1>7, <1>8, <2>1
    <2>3. /\ IsFiniteSet(T) /\ Cardinality(T) \in Nat /\ Cardinality(S) \in Nat
          /\ Cardinality(T) <= Cardinality(S) + 1
      BY <1>6, <2>2
    <2> QED BY <2>1, <2>2, <2>3, EscalationAssumption
  <1>10. ASSUME NEW b \in Agents PROVE Cardinality(Pending({b})') <= PendingPerAgent
    <2>1. PICK S, T : S = Pending({b}) /\ T = Pending({b})'
      OBVIOUS
    <2>2. IsFiniteSet(S) /\ T \subseteq S \cup {e} /\ (a # b => T \subseteq S)
          /\ (a = b => Cardinality(S) < PendingPerAgent) /\ Cardinality(S) <= PendingPerAgent
      <3>1. IsFiniteSet(S)
        BY <1>7, <2>1, FS_Subset
      <3> QED BY <1>4, <1>8, <2>1, <3>1 DEF QuestionsOK, QuestionsCapped
    <2>3. /\ Cardinality(T) \in Nat /\ Cardinality(S) \in Nat
          /\ Cardinality(T) <= Cardinality(S) + 1
          /\ T \subseteq S => Cardinality(T) <= Cardinality(S)
      BY <1>6, <2>2
    <2>4. Cardinality(T) <= PendingPerAgent
      <3>1. CASE a = b
        BY <2>2, <2>3, <3>1, EscalationAssumption
      <3>2. CASE a # b
        BY <2>2, <2>3, <3>2, EscalationAssumption
      <3> QED BY <3>1, <3>2
    <2> QED BY <2>1, <2>4
  <1> QED BY <1>5, <1>9, <1>10 DEF QuestionsOK, QuestionsCapped

(* A resolution is dated, and a pass removes resolved questions only.      *)
LEMMA QuestionsKept ==
  ASSUME AnswersInv, QuestionsOK, \A a \in Agents : Registered(a) => Registered(a)',
         \/ UNCHANGED escalations
         \/ \E h \in Humans, e \in EscalationIds : ResolveEscalation(h, e)
         \/ \E before, execute : PruneEscalations(before, execute)
  PROVE  QuestionsOK'
  <1>1. /\ escalations \in [EscalationIds -> Escalation] /\ now # 0
        /\ RegisteredAgents \subseteq RegisteredAgents'
    BY DEF AnswersInv, RowsInv, DeliveryInv, DeliveryTypeOK, RegistryTypeOK, RegisteredAgents
  <1>2. ASSUME \A e \in EscalationIds :
                 \/ escalations'[e] = escalations[e]
                 \/ /\ escalations'[e].status = "resolved" /\ escalations[e].status = "pending"
                    /\ escalations'[e].agent = escalations[e].agent
                    /\ escalations'[e].resolved_at = now
                 \/ escalations'[e] = NoEscalation("removed")
        PROVE  QuestionsOK'
    <2>1. \A S : Pending(S)' \subseteq Pending(S)
      BY <1>2 DEF Pending, NoEscalation
    <2>2. QuestionsCapped'
      BY <2>1, PendingShrinks DEF QuestionsOK
    <2>3. \A e \in EscalationIds : AskedOK(e)'
      BY <1>1, <1>2 DEF QuestionsOK, AskedOK, NoEscalation
    <2> QED BY <2>2, <2>3 DEF QuestionsOK
  <1>3. ASSUME NEW h, NEW e \in EscalationIds, ResolveEscalation(h, e) PROVE QuestionsOK'
    <2>1. /\ escalations[e].status = "pending"
          /\ escalations' = [escalations EXCEPT ![e].status = "resolved", ![e].resolved_at = now]
      BY <1>3 DEF ResolveEscalation
    <2>2. /\ escalations'[e].status = "resolved" /\ escalations'[e].resolved_at = now
          /\ escalations'[e].agent = escalations[e].agent
          /\ \A f \in EscalationIds \ {e} : escalations'[f] = escalations[f]
      BY <1>1, <2>1 DEF Escalation
    <2> QED BY <1>2, <2>1, <2>2
  <1>4. ASSUME NEW before, NEW execute, PruneEscalations(before, execute) PROVE QuestionsOK'
    <2>1. \A e \in EscalationIds : \/ escalations'[e] = escalations[e]
                                   \/ escalations'[e] = NoEscalation("removed")
      BY <1>4 DEF PruneEscalations
    <2> QED BY <1>2, <2>1
  <1>5. UNCHANGED escalations => QuestionsOK'
    BY <1>2
  <1> QED BY <1>3, <1>4, <1>5

(* Publications and the tasks they serve.                                  *)
ServiceOK == /\ \A p \in PublicationIds : PublicationOK(p)
             /\ \A k \in RemoteTaskIds : ServedOK(k)

(* No step takes a publication away, and a new task is for an agent that   *)
(* is published.                                                           *)
LEMMA ServiceKept ==
  ASSUME ServiceOK, \A a \in Agents : Registered(a) => Registered(a)',
         \A p \in PublicationIds : publications'[p].agent = publications[p].agent,
         \A k \in RemoteTaskIds : TaskPresent(k)' =>
           \/ TaskPresent(k) /\ a2aTasks'[k].agent = a2aTasks[k].agent
           \/ /\ a2aTasks'[k].agent # None
              /\ \E p \in PublicationIds : publications[p].agent = a2aTasks'[k].agent
  PROVE  ServiceOK'
  <1>1. RegisteredAgents \subseteq RegisteredAgents'
    BY DEF RegisteredAgents
  <1>2. ASSUME NEW p \in PublicationIds PROVE PublicationOK(p)'
    BY <1>1 DEF ServiceOK, PublicationOK
  <1>3. ASSUME NEW k \in RemoteTaskIds PROVE ServedOK(k)'
    <2>1. CASE TaskPresent(k) /\ a2aTasks'[k].agent = a2aTasks[k].agent
      BY <1>1, <2>1 DEF ServiceOK, ServedOK
    <2>2. ASSUME a2aTasks'[k].agent # None, NEW p \in PublicationIds,
                 publications[p].agent = a2aTasks'[k].agent
          PROVE  ServedOK(k)'
      BY <1>1, <2>2 DEF ServiceOK, PublicationOK, ServedOK
    <2> QED BY <2>1, <2>2 DEF ServedOK
  <1> QED BY <1>2, <1>3 DEF ServiceOK

(* The tasks that follow messages.                                         *)
LEMMA FollowServed ==
  ASSUME RemoteInv, RemoteInv', FollowMessages, NEW k \in RemoteTaskIds, TaskPresent(k)'
  PROVE  TaskPresent(k) /\ a2aTasks'[k].agent = a2aTasks[k].agent
  <1>1. RemoteTypeOK /\ now' \in Nat
    BY DEF RemoteInv, RowsInv, DeliveryInv, DeliveryTypeOK, RegistryTypeOK
  <1>2. TaskMoves(a2aTasks[k], a2aTasks'[k])
    BY <1>1, FollowTasks
  <1> QED BY <1>2 DEF TaskMoves, TaskPresent

(* What the owner creates is the first publication of a registered agent.  *)
LEMMA Publishes ==
  ASSUME RemoteInv, RemoteStep
  PROVE  \/ \A p \in PublicationIds : publications'[p].agent = publications[p].agent
         \/ /\ UNCHANGED a2aTasks
            /\ \E a \in Agents, p \in PublicationIds :
                 /\ Registered(a) /\ publications[p].agent = None /\ publications'[p].agent = a
                 /\ \A q \in PublicationIds : publications[q].agent # a
                 /\ \A q \in PublicationIds \ {p} : publications'[q].agent = publications[q].agent
  <1> DEFINE Same == \A p \in PublicationIds : publications'[p].agent = publications[p].agent
             Created == /\ UNCHANGED a2aTasks
                        /\ \E a \in Agents, p \in PublicationIds :
                             /\ Registered(a) /\ publications[p].agent = None
                             /\ publications'[p].agent = a
                             /\ \A q \in PublicationIds : publications[q].agent # a
                             /\ \A q \in PublicationIds \ {p} :
                                  publications'[q].agent = publications[q].agent
  <1>1. publications \in [PublicationIds -> Publication]
    BY DEF RemoteInv, RemoteTypeOK
  <1>2. publications' = publications => Same
    OBVIOUS
  <1>3. ASSUME NEW token, NEW a \in Agents, CreateAgentCardPublication(token, a) PROVE Created
    <2>1. PICK p \in PublicationIds :
            /\ publications[p] = NoPublication
            /\ publications' = [publications EXCEPT ![p] = [agent |-> a, enabled |-> TRUE]]
      BY <1>3 DEF CreateAgentCardPublication
    <2>2. /\ publications[p].agent = None /\ publications'[p].agent = a
          /\ \A q \in PublicationIds \ {p} : publications'[q] = publications[q]
      BY <1>1, <2>1 DEF NoPublication
    <2> QED BY <1>3, <2>2 DEF CreateAgentCardPublication
  <1>4. ASSUME NEW token, NEW p \in PublicationIds, NEW enabled,
               SetAgentCardPublicationEnabled(token, p, enabled)
        PROVE  Same
    <2>1. publications' = [publications EXCEPT ![p].enabled = enabled]
      BY <1>4 DEF SetAgentCardPublicationEnabled
    <2> QED BY <1>1, <2>1 DEF Publication
  <1>5. ASSUME NEW token, NEW p, CreateA2APrincipal(token, p) PROVE publications' = publications
    BY <1>5 DEF CreateA2APrincipal
  <1>6. ASSUME NEW token, NEW c, RotateA2APrincipal(token, c) PROVE publications' = publications
    BY <1>6 DEF RotateA2APrincipal
  <1>7. ASSUME NEW token, NEW c, NEW enabled, SetA2APrincipalEnabled(token, c, enabled)
        PROVE  publications' = publications
    BY <1>7 DEF SetA2APrincipalEnabled
  <1>8. ASSUME NEW c, NEW version, NEW key, NEW asked, AcceptA2AMessage(c, version, key, asked)
        PROVE  publications' = publications
    BY <1>8, Zenon DEF AcceptA2AMessage
  <1>9. ASSUME NEW c, NEW version, A2ATask(c, version) PROVE publications' = publications
    BY <1>9 DEF A2ATask
  <1>10. ASSUME NEW c, NEW version, NEW k, NEW state, SetA2ATaskState(c, version, k, state)
         PROVE  publications' = publications
    BY <1>10 DEF SetA2ATaskState
  <1>11. ScopeStep => publications' = publications
    BY DEF ScopeStep
  <1> HIDE DEF Same, Created
  <1>12. Same \/ Created
    BY <1>2, <1>3, <1>4, <1>5, <1>6, <1>7, <1>8, <1>9, <1>10, <1>11, Zenon
       DEF RemoteStep, OwnerNext, ScopeStep
  <1> QED BY <1>12 DEF Same, Created

(* Every task that a remote step leaves there is served.                   *)
LEMMA ServiceSteps ==
  ASSUME RemoteInv, RemoteInv', ServiceOK, RemoteStep,
         \A a \in Agents : Registered(a) => Registered(a)'
  PROVE  ServiceOK'
  <1>1. ASSUME NEW a \in Agents, NEW p \in PublicationIds, UNCHANGED a2aTasks,
               Registered(a), publications[p].agent = None, publications'[p].agent = a,
               \A q \in PublicationIds : publications[q].agent # a,
               \A q \in PublicationIds \ {p} : publications'[q].agent = publications[q].agent
        PROVE  ServiceOK'
    <2>1. RegisteredAgents \subseteq RegisteredAgents' /\ a \in RegisteredAgents'
      BY <1>1 DEF RegisteredAgents
    <2>2. ASSUME NEW q \in PublicationIds PROVE PublicationOK(q)'
      BY <1>1, <2>1 DEF ServiceOK, PublicationOK
    <2>3. ASSUME NEW k \in RemoteTaskIds PROVE ServedOK(k)'
      <3>1. None \notin Agents
        BY DeliveryAssumption
      <3> QED BY <1>1, <2>1, <3>1 DEF ServiceOK, ServedOK, TaskPresent, RegisteredAgents
    <2> QED BY <2>2, <2>3 DEF ServiceOK
  <1>2. ASSUME NEW k \in RemoteTaskIds, TaskPresent(k)'
        PROVE  \/ TaskPresent(k) /\ a2aTasks'[k].agent = a2aTasks[k].agent
               \/ /\ a2aTasks'[k].agent # None
                  /\ \E p \in PublicationIds : publications[p].agent = a2aTasks'[k].agent
    <2> DEFINE Goal == \/ TaskPresent(k) /\ a2aTasks'[k].agent = a2aTasks[k].agent
                       \/ /\ a2aTasks'[k].agent # None
                          /\ \E p \in PublicationIds : publications[p].agent = a2aTasks'[k].agent
    <2>1. a2aTasks \in [RemoteTaskIds -> RemoteTask]
      BY DEF RemoteInv, RemoteTypeOK
    <2>2. UNCHANGED <<vars, a2aTasks, correlations>> => Goal
      BY <1>2 DEF TaskPresent
    <2>3. FollowMessages => Goal
      BY <1>2, FollowServed
    <2>4. ASSUME NEW c \in RemotePrincipals, NEW key, NEW asked, NEW version,
                 Opens(c, version, key, asked)
          PROVE  Goal
      <3>1. PICK agent : agent = publications[credentials[c].publication].agent
        OBVIOUS
      <3>2. PICK j, m :
              a2aTasks' = [a2aTasks EXCEPT ![j] =
                 [state |-> IF asked = None THEN "submitted" ELSE "working",
                  principal |-> c, agent |-> agent, updated_at |-> now]]
        BY <2>4, <3>1, Zenon DEF Opens
      <3>3. credentials[c].publication \in PublicationIds /\ agent \in Agents
        BY <2>4, <3>1 DEF Opens, requireCurrentA2APrincipal, RemoteInv, CredentialOK
      <3>4. CASE k = j
        <4>1. a2aTasks'[k].agent = agent
          BY <2>1, <3>2, <3>4
        <4> QED BY <3>1, <3>3, <4>1, DeliveryAssumption
      <3>5. CASE k # j
        <4>1. a2aTasks'[k] = a2aTasks[k]
          BY <2>1, <3>2, <3>5
        <4> QED BY <1>2, <4>1 DEF TaskPresent
      <3> QED BY <3>4, <3>5
    <2>5. ASSUME NEW c, NEW j \in RemoteTaskIds, NEW state \in RemoteTaskState, NEW version,
                 SetA2ATaskState(c, version, j, state)
          PROVE  Goal
      <3>1. /\ validA2ATaskTransition(a2aTasks[j].state, state)
            /\ a2aTasks' = [a2aTasks EXCEPT ![j].state = state, ![j].updated_at = now]
        BY <2>5 DEF SetA2ATaskState
      <3>2. CASE k = j
        <4>1. TaskPresent(k)
          BY <3>1, <3>2 DEF validA2ATaskTransition, TaskPresent, RemoteTaskState
        <4>2. a2aTasks'[k].agent = a2aTasks[k].agent
          BY <2>1, <3>1, <3>2 DEF RemoteTask
        <4> QED BY <4>1, <4>2
      <3>3. CASE k # j
        <4>1. a2aTasks'[k] = a2aTasks[k]
          BY <2>1, <3>1, <3>3
        <4> QED BY <1>2, <4>1 DEF TaskPresent
      <3> QED BY <3>2, <3>3
    <2> HIDE DEF Goal
    <2>6. Goal
      BY <2>2, <2>3, <2>4, <2>5, StepCases, Zenon
    <2> QED BY <2>6 DEF Goal
  <1> QED BY <1>1, <1>2, Publishes, ServiceKept

(* What every step of the scope keeps beside the tables.                   *)
IdsStay ==
  \A e \in EscalationIds : escalations[e].status # "absent" => escalations'[e].status # "absent"

(* The tables follow from the rows and the registry.                       *)
LEMMA TablesKept ==
  ASSUME ScopeInv, RowsMove, RegistryMoves,
         (\A a \in Agents : Registered(a) => Registered(a)') => QuestionsOK' /\ ServiceOK'
  PROVE  TablesOK' /\ now <= now'
  <1>1. DeliveryInv /\ LinksOK /\ \A m \in MessageIds : PartiesOK(m)
    BY DEF ScopeInv, TablesOK, WorkInv, AnswersInv, RowsInv
  <1>2. LinksOK' /\ \A a \in Agents : Registered(a) => Registered(a)'
    BY <1>1, LinksKept
  <1>3. \A m \in MessageIds : PartiesOK(m)'
    BY <1>1, <1>2, PartiesKept
  <1>4. now <= now'
    <2>1. now \in Nat
      BY <1>1 DEF DeliveryInv, DeliveryTypeOK, RegistryTypeOK
    <2>2. CASE UNCHANGED registryVars
      BY <2>1, <2>2 DEF registryVars
    <2> QED BY <1>1, <2>2, ClockRuns DEF RegistryMoves
  <1> QED BY <1>2, <1>3, <1>4 DEF TablesOK, QuestionsOK, ServiceOK

(* Every step of a scope keeps it exportable.                              *)
LEMMA ScopeKept ==
  ASSUME ScopeInv, ScopeNext
  PROVE  ScopeInv' /\ IdsStay /\ now <= now'
  <1> DEFINE Goal == ScopeInv' /\ IdsStay /\ now <= now'
  <1>1. /\ WorkInv /\ AnswersInv /\ RemoteInv /\ QuestionsOK /\ ServiceOK
        /\ escalations \in [EscalationIds -> Escalation]
    BY DEF ScopeInv, TablesOK, WorkInv, AnswersInv, ShareInv, QuestionsOK, ServiceOK
  <1>2. ASSUME WorkInv', RowsMove, RegistryMoves, IdsStay,
               (\A a \in Agents : Registered(a) => Registered(a)') => QuestionsOK' /\ ServiceOK'
        PROVE  Goal
    BY <1>2, TablesKept DEF ScopeInv
  <1>3. ASSUME NEW p \in KnownPrincipals, AskHuman(p), UNCHANGED remoteVars PROVE Goal
    <2>1. WorkInv' /\ RowsMove /\ RegistryMoves
      BY <1>1, <1>3, QuestionWorks DEF RegistryMoves
    <2>2. QuestionsOK'
      BY <1>1, <1>3, AskCapped
    <2>3. (\A a \in Agents : Registered(a) => Registered(a)') => ServiceOK'
      <3>1. publications' = publications /\ a2aTasks' = a2aTasks
        BY <1>3 DEF remoteVars
      <3> QED BY <1>1, <3>1, ServiceKept DEF TaskPresent
    <2>4. IdsStay
      <3>1. PICK e \in EscalationIds :
              escalations' = [escalations EXCEPT ![e] =
                 [status |-> "pending", agent |-> p.agent, resolved_at |-> 0]]
        BY <1>3 DEF AskHuman
      <3> QED BY <1>1, <3>1 DEF IdsStay
    <2> QED BY <1>2, <2>1, <2>2, <2>3, <2>4
  <1>4. ASSUME Messages \/ \E h \in Humans, e \in EscalationIds : ResolveEscalation(h, e),
               FollowMessages, UNCHANGED <<publications, credentials>>
        PROVE  Goal
    <2>1. WorkInv' /\ RowsMove /\ RegistryMoves
      BY <1>1, <1>4, AnswerWorks DEF RegistryMoves
    <2>2. (\A a \in Agents : Registered(a) => Registered(a)') => QuestionsOK'
      <3>1. Messages => UNCHANGED escalations
        BY DEF Messages
      <3> QED BY <1>1, <1>4, <3>1, QuestionsKept
    <2>3. (\A a \in Agents : Registered(a) => Registered(a)') => ServiceOK'
      <3>1. RemoteInv' /\ publications' = publications
        BY <1>4, <2>1 DEF WorkInv, ShareInv
      <3> QED BY <1>1, <1>4, <3>1, FollowServed, ServiceKept
    <2>4. IdsStay
      <3>1. CASE Messages
        BY <3>1 DEF IdsStay, Messages
      <3>2. ASSUME NEW h, NEW e \in EscalationIds, ResolveEscalation(h, e) PROVE IdsStay
        <4>1. escalations' = [escalations EXCEPT ![e].status = "resolved", ![e].resolved_at = now]
          BY <3>2 DEF ResolveEscalation
        <4>2. ASSUME NEW f \in EscalationIds
              PROVE  escalations'[f] = escalations[f] \/ escalations'[f].status = "resolved"
          BY <1>1, <4>1 DEF Escalation
        <4> QED BY <4>2 DEF IdsStay
      <3> QED BY <1>4, <3>1, <3>2
    <2> QED BY <1>2, <2>1, <2>2, <2>3, <2>4
  <1>5. ASSUME NEW token, NEW before \in 1..MaxTime, NEW execute \in BOOLEAN,
               PruneScope(token, before, execute)
        PROVE  Goal
    <2>1. before \in Nat /\ PruneRemote(token, before, execute) /\ PruneEscalations(before, execute)
      BY <1>5, RegistryAssumption DEF PruneScope
    <2>2. WorkInv' /\ RowsMove /\ RegistryMoves
      BY <1>1, <1>5, <2>1, PruneWorks DEF RegistryMoves
    <2>3. (\A a \in Agents : Registered(a) => Registered(a)') => QuestionsOK'
      BY <1>1, <2>1, QuestionsKept
    <2>4. (\A a \in Agents : Registered(a) => Registered(a)') => ServiceOK'
      <3>1. /\ publications' = publications
            /\ \/ UNCHANGED a2aTasks
               \/ \E tasks : a2aTasks' = [k \in RemoteTaskIds |->
                    IF k \in tasks THEN NoRemoteTask("removed") ELSE a2aTasks[k]]
        BY <2>1, Zenon DEF PruneRemote
      <3>2. \A k \in RemoteTaskIds :
              TaskPresent(k)' => TaskPresent(k) /\ a2aTasks'[k].agent = a2aTasks[k].agent
        BY <3>1 DEF TaskPresent, NoRemoteTask, RemoteTaskState, TaskTerminal
      <3> QED BY <1>1, <3>1, <3>2, ServiceKept
    <2>5. IdsStay
      BY <2>1 DEF IdsStay, PruneEscalations, NoEscalation
    <2> QED BY <1>2, <2>2, <2>3, <2>4, <2>5
  <1>6. ASSUME RemoteStep, ClientStep, UNCHANGED escalations PROVE Goal
    <2>1. WorkInv' /\ RowsMove /\ RegistryMoves
      BY <1>1, <1>6, RemoteWorks, RemoteRegistry
    <2>2. RemoteInv'
      BY <2>1 DEF WorkInv, ShareInv
    <2>3. (\A a \in Agents : Registered(a) => Registered(a)') => QuestionsOK' /\ ServiceOK'
      BY <1>1, <1>6, <2>2, QuestionsKept, ServiceSteps
    <2>4. IdsStay
      BY <1>6 DEF IdsStay
    <2> QED BY <1>2, <2>1, <2>3, <2>4
  <1> HIDE DEF Goal
  <1>7. Goal
    BY <1>3, <1>4, <1>5, <1>6, Zenon DEF ScopeNext
  <1> QED BY <1>7 DEF Goal

-----------------------------------------------------------------------------
(* Rows that go into an archive and come out of one.                       *)

(* Tasks of an archive and of the scope it is imported into.               *)
SameTask(x, y) ==
  y = x \/ (x.state \notin RemoteTaskState /\ y.state \notin RemoteTaskState)

(* The responses and their requests find each other again.                 *)
LEMMA MovePaired ==
  ASSUME NEW x, NEW y, \A m \in MessageIds : SameMessage(x[m], y[m]), PairedIn(x),
         \A m \in MessageIds : x[m].response_to \in MessageIds \cup {None}
                               /\ x[m].response_message_id \in MessageIds \cup {None}
  PROVE  PairedIn(y)
  <1>1. ASSUME NEW r \in MessageIds, Present(y[r]), y[r].mode = "response"
        PROVE  /\ y[r].response_to \in MessageIds
               /\ LET request == y[y[r].response_to] IN
                  /\ Present(request) /\ request.mode = "request"
                  /\ request.response_message_id = r
                  /\ request.from = y[r].to /\ request.to = y[r].from
                  /\ request.delivered_at \in 1..y[r].created_at
    <2>1. SameMessage(x[r], y[r])
      OBVIOUS
    <2>2. Present(x[r]) /\ x[r].mode = "response"
      BY <1>1, <2>1 DEF SameMessage
    <2>3. PICK q \in MessageIds : q = x[r].response_to
      BY <2>2 DEF PairedIn
    <2>4. /\ Present(x[q]) /\ x[q].mode = "request" /\ x[q].response_message_id = r
          /\ x[q].from = x[r].to /\ x[q].to = x[r].from
          /\ x[q].delivered_at \in 1..x[r].created_at
      BY <2>2, <2>3 DEF PairedIn
    <2>5. SameMessage(x[q], y[q])
      OBVIOUS
    <2>6. y[r].response_to = q
      BY <2>1, <2>2, <2>3 DEF SameMessage
    <2>7. /\ Present(y[q]) /\ y[q].mode = "request" /\ y[q].response_message_id = r
          /\ y[q].from = y[r].to /\ y[q].to = y[r].from
          /\ y[q].delivered_at \in 1..y[r].created_at
      BY <2>1, <2>2, <2>4, <2>5 DEF SameMessage
    <2> QED BY <2>6, <2>7
  <1>2. ASSUME NEW q \in MessageIds, Present(y[q]), y[q].response_message_id # None
        PROVE  LET response == y[y[q].response_message_id] IN
               /\ y[q].mode = "request"
               /\ Present(response) /\ response.mode = "response" /\ response.response_to = q
    <2>1. SameMessage(x[q], y[q])
      OBVIOUS
    <2>2. /\ Present(x[q]) /\ x[q].response_message_id # None
          /\ y[q].response_message_id = x[q].response_message_id /\ y[q].mode = x[q].mode
      BY <1>2, <2>1 DEF SameMessage
    <2>3. PICK r \in MessageIds : r = x[q].response_message_id
      BY <2>2
    <2>4. /\ x[q].mode = "request"
          /\ Present(x[r]) /\ x[r].mode = "response" /\ x[r].response_to = q
      BY <2>2, <2>3 DEF PairedIn
    <2>5. SameMessage(x[r], y[r])
      OBVIOUS
    <2>6. Present(y[r]) /\ y[r].mode = "response" /\ y[r].response_to = q
      BY <2>4, <2>5 DEF SameMessage
    <2> QED BY <2>2, <2>3, <2>4, <2>6
  <1> QED BY <1>1, <1>2 DEF PairedIn

(* A question finds the same answers.                                      *)
LEMMA MoveAnswers ==
  ASSUME NEW x, NEW y, \A m \in MessageIds : SameMessage(x[m], y[m]), NEW row, NEW e,
         AnswerIn(x, row, e)
  PROVE  AnswersIn(y, e) = AnswersIn(x, e) /\ AnswerIn(y, row, e)
  <1>1. AnswersIn(y, e) = AnswersIn(x, e)
    BY DEF AnswersIn, SameMessage
  <1>2. ASSUME row.status = "resolved"
        PROVE  \E m \in MessageIds : AnswersIn(y, e) = {m} /\ AnswerOf(y[m], row)
    <2>1. PICK m \in MessageIds : AnswersIn(x, e) = {m} /\ AnswerOf(x[m], row)
      BY <1>2 DEF AnswerIn
    <2>2. Present(x[m]) /\ SameMessage(x[m], y[m])
      BY <2>1 DEF AnswersIn
    <2>3. AnswerOf(y[m], row)
      BY <2>1, <2>2 DEF AnswerOf, SameMessage
    <2> QED BY <1>1, <2>1, <2>3
  <1> QED BY <1>1, <1>2 DEF AnswerIn

(* A correlation finds its task and its request.                           *)
LEMMA MoveCorrelation ==
  ASSUME NEW x, NEW y, \A m \in MessageIds : SameMessage(x[m], y[m]),
         NEW tx, NEW ty, \A k \in RemoteTaskIds : SameTask(tx[k], ty[k]),
         NEW corrs, NEW c, CorrelationIn(x, tx, corrs, c)
  PROVE  CorrelationIn(y, ty, corrs, c)
  <1>1. CASE corrs[c].task = None
    BY <1>1 DEF CorrelationIn
  <1>2. CASE corrs[c].task # None
    <2>1. PICK k \in RemoteTaskIds, q \in MessageIds : k = corrs[c].task /\ q = corrs[c].request
      BY <1>2 DEF CorrelationIn
    <2>2. /\ tx[k].state \in RemoteTaskState /\ tx[k].principal = c[1]
          /\ RequestRow(c, corrs[c].response, x[q]) /\ x[q].to = tx[k].agent
      BY <1>2, <2>1 DEF CorrelationIn
    <2>3. SameTask(tx[k], ty[k]) /\ SameMessage(x[q], y[q])
      OBVIOUS
    <2>4. ty[k] = tx[k]
      BY <2>2, <2>3 DEF SameTask
    <2>5. RequestRow(c, corrs[c].response, y[q]) /\ y[q].to = x[q].to
      BY <2>2, <2>3 DEF SameMessage, RequestRow
    <2> QED BY <1>2, <2>1, <2>2, <2>4, <2>5 DEF CorrelationIn
  <1> QED BY <1>1, <1>2

(* No message of a principal comes without its correlation.                *)
LEMMA MoveCorrelated ==
  ASSUME NEW x, NEW y, NEW corrs, NEW m \in MessageIds, SameMessage(x[m], y[m]),
         CorrelatedIn(x, corrs, m)
  PROVE  CorrelatedIn(y, corrs, m)
  <1> SUFFICES ASSUME Present(y[m]), y[m].from \in RemotePrincipals
               PROVE  LET c == <<y[m].from, y[m].idempotency_key>> IN
                      c \in CorrelationKeys /\ corrs[c].request = m
    BY DEF CorrelatedIn
  <1>1. /\ Present(x[m]) /\ y[m].from = x[m].from
        /\ y[m].idempotency_key = x[m].idempotency_key
    BY DEF SameMessage
  <1> QED BY <1>1 DEF CorrelatedIn

(* A submitted task is still waiting.                                      *)
LEMMA MoveSubmitted ==
  ASSUME NEW x, NEW y, \A m \in MessageIds : SameMessage(x[m], y[m]),
         NEW tx, NEW ty, NEW corrs, NEW k \in RemoteTaskIds, SameTask(tx[k], ty[k]),
         SubmittedIn(x, tx, corrs, k)
  PROVE  SubmittedIn(y, ty, corrs, k)
  <1> SUFFICES ASSUME ty[k].state = "submitted"
               PROVE  \E q \in MessageIds :
                        /\ RequestsIn(corrs, k) = {q}
                        /\ Present(y[q]) /\ PhaseOf(y[q]) = "queued" /\ y[q].delivered_at = 0
                        /\ y[q].to = ty[k].agent
    BY DEF SubmittedIn
  <1>1. ty[k] = tx[k]
    BY DEF SameTask, RemoteTaskState
  <1>2. PICK q \in MessageIds :
          /\ RequestsIn(corrs, k) = {q}
          /\ Present(x[q]) /\ PhaseOf(x[q]) = "queued" /\ x[q].delivered_at = 0
          /\ x[q].to = tx[k].agent
    BY <1>1 DEF SubmittedIn
  <1>3. SameMessage(x[q], y[q])
    OBVIOUS
  <1>4. Present(y[q]) /\ PhaseOf(y[q]) = "queued" /\ y[q].delivered_at = 0 /\ y[q].to = x[q].to
    BY <1>2, <1>3 DEF SameMessage
  <1> QED BY <1>1, <1>2, <1>4

(* What is unfinished stays unfinished, and nothing else becomes it.       *)
LEMMA MoveCounts ==
  ASSUME NEW x, NEW y, \A m \in MessageIds : SameMessage(x[m], y[m])
  PROVE  ActiveIn(y) = ActiveIn(x) /\ RemoteActive(y) = RemoteActive(x)
  <1>1. ASSUME NEW m \in MessageIds
        PROVE  /\ y[m].state \in Active <=> x[m].state \in Active
               /\ x[m].state \in Active => y[m].from = x[m].from
    <2>1. SameMessage(x[m], y[m])
      OBVIOUS
    <2>2. ASSUME NEW z
          PROVE  z.state \in Active <=> Present(z) /\ PhaseOf(z) \in {"queued", "delivered"}
      BY DEF Present, PhaseOf, Active, Terminal
    <2>3. y[m].state \in Active <=> Present(y[m]) /\ PhaseOf(y[m]) \in {"queued", "delivered"}
      BY <2>2
    <2>4. x[m].state \in Active <=> Present(x[m]) /\ PhaseOf(x[m]) \in {"queued", "delivered"}
      BY <2>2
    <2> QED BY <2>1, <2>3, <2>4 DEF SameMessage
  <1> QED BY <1>1 DEF ActiveIn, RemoteActive

(* An archived row is the same message, with nobody holding it.            *)
LEMMA ArchivedRows ==
  ASSUME ScopeInv, NEW m \in MessageIds
  PROVE  LET msg == archivedMessage(messages[m]) IN
         /\ msg \in Message /\ SameMessage(messages[m], msg) /\ ArchivedRow(msg, now)
         /\ Present(msg) => validTimestamps(msg)
  <1>1. /\ messages[m] \in Message /\ HeldRow(messages[m], reservations)
        /\ InTime(messages[m]) /\ messages[m].delivered_at <= now /\ DatedRow(messages[m], now)
    BY DEF ScopeInv, WorkInv, AnswersInv, RowsInv, DeliveryInv, DeliveryTypeOK, ReservedIffHeld,
           DeliveredInTime, Dated
  <1>2. PICK x : x = messages[m]
    OBVIOUS
  <1>3. PICK y : y = archivedMessage(x)
    OBVIOUS
  <1>4. /\ y \in Message
        /\ y.state = PhaseOf(x) /\ y.reservation_id = None /\ y.from = x.from /\ y.to = x.to
        /\ y.mode = x.mode /\ y.response_to = x.response_to
        /\ y.idempotency_key = x.idempotency_key
        /\ y.created_at = x.created_at /\ y.expires_at = x.expires_at
        /\ y.delivered_at = x.delivered_at /\ y.acknowledged_at = x.acknowledged_at
        /\ y.response_message_id = x.response_message_id
    <2>1. PICK phase : phase = PhaseOf(x)
      OBVIOUS
    <2>2. x \in Message /\ phase \in Active \cup Terminal \cup {"absent", "removed"}
      BY <1>1, <1>2, <2>1 DEF Message, PhaseOf, Active
    <2>3. y = [x EXCEPT !.reservation_id = None, !.state = phase]
      BY <1>3, <2>1 DEF archivedMessage
    <2> QED BY <2>1, <2>2, <2>3 DEF Message
  <1>5. /\ y.state # "reserved" /\ PhaseOf(y) = PhaseOf(x)
        /\ Present(y) <=> Present(x)
    BY <1>4 DEF PhaseOf, Present, Active, Terminal
  <1>6. SameMessage(x, y)
    BY <1>4, <1>5 DEF SameMessage
  <1>7. InTime(y)
    BY <1>1, <1>2, <1>4 DEF InTime, PhaseOf
  <1>8. y.delivered_at <= now /\ DatedRow(y, now)
    BY <1>1, <1>2, <1>4 DEF DatedRow, PhaseOf
  <1>9. Present(y) => validTimestamps(y)
    BY <1>5, <1>7, <1>8 DEF validTimestamps, InTime, DatedRow, Present, Active, Terminal
  <1> QED BY <1>2, <1>3, <1>4, <1>5, <1>6, <1>7, <1>8, <1>9 DEF ArchivedRow

(* The tables of the scope in the form of an archive.                      *)
LEMMA ScopeIn ==
  ASSUME ScopeInv
  PROVE  /\ PairedIn(messages)
         /\ \A e \in EscalationIds : AnswerIn(messages, escalations[e], e)
         /\ \A c \in CorrelationKeys : CorrelationIn(messages, a2aTasks, correlations, c)
         /\ \A m \in MessageIds : CorrelatedIn(messages, correlations, m)
         /\ \A k \in RemoteTaskIds : SubmittedIn(messages, a2aTasks, correlations, k)
  <1>1. /\ ReplyPairing /\ \A e \in EscalationIds : AnswerOK(e)
        /\ \A c \in CorrelationKeys : CorrelationOK(c)
        /\ \A m \in MessageIds : CorrelatedOK(m)
        /\ \A k \in RemoteTaskIds : SubmittedOK(k)
    BY DEF ScopeInv, WorkInv, AnswersInv, RowsInv, ShareInv, RemoteInv
  <1>2. PairedIn(messages)
    BY <1>1 DEF ReplyPairing, PairedIn
  <1>3. ASSUME NEW e \in EscalationIds PROVE AnswerIn(messages, escalations[e], e)
    BY <1>1 DEF AnswerOK, AnswerIn, Answers, AnswersIn
  <1>4. ASSUME NEW c \in CorrelationKeys
        PROVE  CorrelationIn(messages, a2aTasks, correlations, c)
    <2>1. CorrelationOK(c)
      BY <1>1
    <2> QED BY <2>1 DEF CorrelationOK, CorrelationIn, TaskPresent
  <1>5. ASSUME NEW m \in MessageIds PROVE CorrelatedIn(messages, correlations, m)
    BY <1>1 DEF CorrelatedOK, CorrelatedIn
  <1>6. ASSUME NEW k \in RemoteTaskIds PROVE SubmittedIn(messages, a2aTasks, correlations, k)
    <2>1. RequestsOf(k) = RequestsIn(correlations, k)
      BY DEF RequestsOf, CorrelationsOf, RequestsIn
    <2>2. ASSUME NEW msg, msg.state \in {"queued", "reserved"}, msg.delivered_at = 0
          PROVE  Present(msg) /\ PhaseOf(msg) = "queued"
      BY <2>2 DEF Present, PhaseOf, Active
    <2> QED BY <1>1, <2>1, <2>2 DEF SubmittedOK, SubmittedIn
  <1> QED BY <1>2, <1>3, <1>4, <1>5, <1>6

(* What an export takes along fits wherever it is imported.                *)
LEMMA ExportFits ==
  ScopeInv => ArchiveOK(archiveOf(messages, a2aTasks, correlations), now)
  <1> SUFFICES ASSUME ScopeInv
               PROVE  ArchiveOK(archiveOf(messages, a2aTasks, correlations), now)
    OBVIOUS
  <1>1. PICK x : x = archiveOf(messages, a2aTasks, correlations)
    OBVIOUS
  <1>2. /\ x.agents = RegisteredAgents /\ x.links = links /\ x.escalations = escalations
        /\ x.tasks = a2aTasks /\ x.correlations = correlations
        /\ x.messages = [m \in MessageIds |-> archivedMessage(messages[m])]
        /\ x.publications = [p \in PublicationIds |-> publications[p].agent]
    BY <1>1 DEF archiveOf, RegisteredAgents
  <1>3. /\ RegistryTypeOK /\ RemoteTypeOK /\ BacklogInv /\ ShareOK /\ QuestionsCapped
        /\ escalations \in [EscalationIds -> Escalation]
        /\ \A e \in EscalationIds : QuestionRow(escalations[e])
    BY DEF ScopeInv, WorkInv, AnswersInv, RowsInv, DeliveryInv, DeliveryTypeOK, ShareInv,
           RemoteInv, TablesOK
  <1>4. ASSUME NEW m \in MessageIds
        PROVE  /\ x.messages[m] \in Message /\ SameMessage(messages[m], x.messages[m])
               /\ ArchivedRow(x.messages[m], now)
    BY <1>2, ArchivedRows
  <1>5. ArchiveTypeOK(x)
    <2>1. x.publications \in [PublicationIds -> Agents \cup {None}]
      BY <1>2, <1>3 DEF RemoteTypeOK, Publication
    <2>2. x.messages \in [MessageIds -> Message]
      BY <1>2, <1>4
    <2>3. x.agents \subseteq Agents /\ x.links \subseteq SUBSET Agents
      BY <1>2, <1>3 DEF RegisteredAgents, RegistryTypeOK
    <2>4. /\ x.escalations \in [EscalationIds -> Escalation]
          /\ x.tasks \in [RemoteTaskIds -> RemoteTask]
          /\ x.correlations \in [CorrelationKeys -> Correlation]
      BY <1>2, <1>3 DEF RemoteTypeOK
    <2> QED BY <2>1, <2>2, <2>3, <2>4 DEF ArchiveTypeOK
  <1>6. PairedIn(x.messages)
    <2>1. \A m \in MessageIds : messages[m] \in Message
      BY DEF ScopeInv, WorkInv, AnswersInv, RowsInv, DeliveryInv, DeliveryTypeOK
    <2> QED BY <1>4, <2>1, ScopeIn, MovePaired DEF Message
  <1>7. ASSUME NEW e \in EscalationIds
        PROVE  QuestionRow(x.escalations[e]) /\ AnswerIn(x.messages, x.escalations[e], e)
    BY <1>2, <1>3, <1>4, ScopeIn, MoveAnswers
  <1>8. ASSUME NEW c \in CorrelationKeys
        PROVE  CorrelationIn(x.messages, x.tasks, x.correlations, c)
    <2>1. \A k \in RemoteTaskIds : SameTask(a2aTasks[k], x.tasks[k])
      BY <1>2 DEF SameTask
    <2> QED BY <1>2, <1>4, <2>1, ScopeIn, MoveCorrelation
  <1>9. ASSUME NEW m \in MessageIds PROVE CorrelatedIn(x.messages, x.correlations, m)
    BY <1>2, <1>4, ScopeIn, MoveCorrelated
  <1>10. ASSUME NEW k \in RemoteTaskIds
         PROVE  SubmittedIn(x.messages, x.tasks, x.correlations, k)
    <2>1. SameTask(a2aTasks[k], x.tasks[k])
      BY <1>2 DEF SameTask
    <2> QED BY <1>2, <1>4, <2>1, ScopeIn, MoveSubmitted
  <1>11. ActiveIn(x.messages) = Unfinished /\ RemoteActive(x.messages) = RemoteActive(messages)
    BY <1>4, MoveCounts DEF ActiveIn, Unfinished
  <1>12. ASSUME NEW c \in RemotePrincipals
         PROVE  UnfinishedIn(x.tasks, x.correlations, c) = UnfinishedOf(c)
    BY <1>2 DEF UnfinishedIn, UnfinishedOf
  <1>13. PendingIn(x.escalations, Agents) = Pending(Agents)
    BY <1>2 DEF PendingIn, Pending
  <1>14. /\ IsFiniteSet(ActiveIn(x.messages)) /\ IsFiniteSet(RemoteActive(x.messages))
         /\ Cardinality(RemoteActive(x.messages)) <= MaxRemoteBacklog
         /\ IsFiniteSet(PendingIn(x.escalations, Agents))
         /\ \A c \in RemotePrincipals :
              /\ IsFiniteSet(UnfinishedIn(x.tasks, x.correlations, c))
              /\ Cardinality(UnfinishedIn(x.tasks, x.correlations, c)) <= PrincipalMessageLimit
    BY <1>3, <1>11, <1>12, <1>13 DEF BacklogInv, ShareOK, QuestionsCapped
  <1> QED BY <1>1, <1>4, <1>5, <1>6, <1>7, <1>8, <1>9, <1>10, <1>14 DEF ArchiveOK

(* And the export accepts it, as the import will.                          *)
LEMMA ExportValid ==
  ScopeInv => validateArchive(archiveOf(messages, a2aTasks, correlations))
  <1> SUFFICES ASSUME ScopeInv
               PROVE  validateArchive(archiveOf(messages, a2aTasks, correlations))
    OBVIOUS
  <1>1. PICK x : x = archiveOf(messages, a2aTasks, correlations)
    OBVIOUS
  <1>2. /\ x.agents = RegisteredAgents /\ x.links = links /\ x.escalations = escalations
        /\ x.tasks = a2aTasks /\ x.correlations = correlations
        /\ x.messages = [m \in MessageIds |-> archivedMessage(messages[m])]
        /\ x.publications = [p \in PublicationIds |-> publications[p].agent]
    BY <1>1 DEF archiveOf, RegisteredAgents
  <1>3. ArchiveOK(x, now)
    BY <1>1, ExportFits
  <1>4. /\ IdempotentSends /\ BacklogInv /\ LinksOK /\ QuestionsCapped
        /\ \A m \in MessageIds : PartiesOK(m)
        /\ \A e \in EscalationIds : AskedOK(e)
        /\ \A p \in PublicationIds : PublicationOK(p)
        /\ \A k \in RemoteTaskIds : ServedOK(k)
    BY DEF ScopeInv, WorkInv, ShareInv, TablesOK
  <1>5. ASSUME NEW m \in MessageIds
        PROVE  /\ x.messages[m] \in Message /\ SameMessage(messages[m], x.messages[m])
               /\ Present(x.messages[m]) => validTimestamps(x.messages[m])
               /\ x.messages[m].state \notin {"absent", "removed"} => Present(x.messages[m])
    <2>1. x.messages[m] \in Message
      BY <1>2, ArchivedRows
    <2>2. x.messages[m].state \notin {"absent", "removed"} => Present(x.messages[m])
      BY <2>1 DEF Message, Present
    <2> QED BY <1>2, <2>1, <2>2, ArchivedRows
  <1>6. PairedIn(x.messages)
    BY <1>3 DEF ArchiveOK
  <1>7. ASSUME NEW m \in MessageIds, Present(x.messages[m])
        PROVE  /\ {x.messages[m].from, x.messages[m].to} \cap Agents \subseteq x.agents
               /\ validTimestamps(x.messages[m])
               /\ validResponse(x.messages, m)
               /\ validReplyState(x.messages, m)
    <2>1. PICK msgs : msgs = x.messages
      OBVIOUS
    <2>2. /\ Present(messages[m]) /\ msgs[m].from = messages[m].from
          /\ msgs[m].to = messages[m].to /\ msgs[m].mode = messages[m].mode
          /\ msgs[m].response_to = messages[m].response_to
      BY <1>5, <1>7, <2>1 DEF SameMessage
    <2>3. /\ {msgs[m].from, msgs[m].to} \cap Agents \subseteq x.agents
          /\ msgs[m].mode # "response" => msgs[m].response_to = None
      BY <1>2, <1>4, <2>2 DEF PartiesOK
    <2>4. validResponse(msgs, m)
      BY <1>6, <1>7, <2>1, <2>3, DeliveryAssumption DEF PairedIn, validResponse
    <2>5. validReplyState(msgs, m)
      BY <1>6, <1>7, <2>1 DEF PairedIn, validReplyState
    <2> QED BY <1>5, <1>7, <2>1, <2>3, <2>4, <2>5
  <1>8. ASSUME NEW m \in MessageIds, NEW n \in MessageIds,
               Present(x.messages[m]), Present(x.messages[n]),
               x.messages[m].idempotency_key # None,
               x.messages[m].idempotency_key = x.messages[n].idempotency_key,
               x.messages[m].from = x.messages[n].from
        PROVE  m = n
    <2>1. /\ Present(messages[m]) /\ x.messages[m].from = messages[m].from
          /\ x.messages[m].idempotency_key = messages[m].idempotency_key
          /\ Present(messages[n]) /\ x.messages[n].from = messages[n].from
          /\ x.messages[n].idempotency_key = messages[n].idempotency_key
      BY <1>5, <1>8 DEF SameMessage
    <2> QED BY <1>4, <1>8, <2>1 DEF IdempotentSends
  <1>9. Backlog(x.messages) <= MessageBacklogCap
    BY <1>4, <1>5, MoveCounts DEF ActiveIn, Unfinished, Backlog, BacklogInv
  <1>10. validMessages(x)
    BY <1>5, <1>7, <1>8, <1>9, Zenon DEF validMessages
  <1>11. validEscalations(x)
    BY <1>2, <1>4 DEF validEscalations, AskedOK, QuestionsCapped, Pending
  <1>12. validPublications(x)
    BY <1>2, <1>4 DEF validPublications, PublicationOK
  <1>13. validRemoteTasks(x)
    <2>1. ASSUME NEW k \in RemoteTaskIds, x.tasks[k].state \in RemoteTaskState
          PROVE  /\ x.tasks[k].agent \in x.agents
                 /\ \E p \in PublicationIds : x.publications[p] = x.tasks[k].agent
      BY <1>2, <1>4, <2>1 DEF ServedOK, TaskPresent
    <2>2. ASSUME NEW c \in CorrelationKeys, x.correlations[c].task # None
          PROVE  LET task    == x.tasks[x.correlations[c].task]
                     request == x.messages[x.correlations[c].request] IN
                 /\ task.state \in RemoteTaskState /\ task.principal = c[1]
                 /\ Present(request) /\ request.mode = "request"
                 /\ request.from = c[1] /\ request.to = task.agent
                 /\ x.correlations[c].response # None =>
                      /\ request.response_message_id = x.correlations[c].response
                      /\ x.messages[x.correlations[c].response].response_to
                           = x.correlations[c].request
      <3>1. CorrelationIn(x.messages, x.tasks, x.correlations, c)
        BY <1>3 DEF ArchiveOK
      <3>2. PICK k, q, r : /\ k = x.correlations[c].task /\ q = x.correlations[c].request
                          /\ r = x.correlations[c].response
        OBVIOUS
      <3>3. /\ x.tasks[k].state \in RemoteTaskState /\ x.tasks[k].principal = c[1]
            /\ q \in MessageIds
            /\ RequestRow(c, r, x.messages[q]) /\ x.messages[q].to = x.tasks[k].agent
        BY <2>2, <3>1, <3>2 DEF CorrelationIn
      <3>4. /\ Present(x.messages[q]) /\ x.messages[q].mode = "request"
            /\ x.messages[q].from = c[1] /\ x.messages[q].response_message_id = r
        BY <3>3 DEF RequestRow
      <3>5. r # None => x.messages[r].response_to = q
        BY <1>6, <3>3, <3>4 DEF PairedIn
      <3> QED BY <3>2, <3>3, <3>4, <3>5
    <2> QED BY <2>1, <2>2 DEF validRemoteTasks
  <1>14. \A link \in x.links : link \subseteq x.agents /\ Cardinality(link) = 2
    BY <1>2, <1>4 DEF LinksOK
  <1> QED BY <1>1, <1>10, <1>11, <1>12, <1>13, <1>14 DEF validateArchive

-----------------------------------------------------------------------------
(* A scope that is gone.                                                   *)

(* Nothing is left of a scope that could be wrong.                         *)
LEMMA EmptyKept ==
  ASSUME ScopeInv, Emptied', now <= now', RegistryTypeOK', RemoteTypeOK',
         reservations' \in [ReservationIds -> Reservation],
         escalations' \in [EscalationIds -> Escalation],
         messages' \in [MessageIds -> Message],
         \A m \in MessageIds : messages'[m] = messages[m] \/ messages'[m] = NoRow("removed"),
         \A c \in RemotePrincipals : CredentialOK(c)'
  PROVE  ScopeInv'
  <1>1. /\ DeliveryInv /\ ReplyPairing /\ Dated /\ Blank /\ now \in Nat /\ now' \in Nat
        /\ reservations \in [ReservationIds -> Reservation]
    BY DEF ScopeInv, WorkInv, AnswersInv, RowsInv, DeliveryInv, DeliveryTypeOK, RegistryTypeOK
  <1>2. ASSUME NEW m \in MessageIds
        PROVE  /\ ~Present(messages'[m]) /\ messages'[m].reservation_id = None
               /\ messages'[m].response_message_id = None
               /\ InTime(messages'[m]) /\ messages'[m].delivered_at <= now'
               /\ DatedRow(messages'[m], now') /\ BlankRow(messages'[m])
    <2>1. ~Present(messages'[m])
      BY DEF Emptied
    <2>2. CASE messages'[m] = messages[m]
      <3>1. PICK x : x = messages[m]
        OBVIOUS
      <3>2. /\ HeldRow(x, reservations) /\ InTime(x) /\ x.delivered_at <= now /\ x \in Message
            /\ DatedRow(x, now) /\ BlankRow(x) /\ (x.response_message_id # None => Present(x))
        BY <1>1, <3>1 DEF DeliveryInv, DeliveryTypeOK, ReservedIffHeld, DeliveredInTime,
           ReplyPairing, Dated, Blank
      <3>3. x.state \notin Active /\ ~Present(x)
        BY <2>1, <2>2, <3>1 DEF Present
      <3>4. x.reservation_id = None
        BY <3>2, <3>3 DEF HeldRow, Active
      <3>5. x.delivered_at <= now' /\ DatedRow(x, now')
        BY <1>1, <3>2 DEF DatedRow, Message
      <3> QED BY <2>1, <2>2, <3>1, <3>2, <3>3, <3>4, <3>5
    <2>3. CASE messages'[m] = NoRow("removed")
      BY <1>1, <2>1, <2>3 DEF NoRow, InTime, DatedRow, BlankRow
    <2> QED BY <2>2, <2>3
  <1>3. DeliveryInv'
    <2>1. ReservedIffHeld' /\ DeliveredInTime'
      BY <1>2 DEF ReservedIffHeld, HeldRow, DeliveredInTime, Present, Active
    <2>2. ReservationFencing' /\ RotationRevokes'
      BY DEF ReservationFencing, RotationRevokes, Emptied
    <2> QED BY <2>1, <2>2 DEF DeliveryInv, DeliveryTypeOK
  <1>4. RowsInv'
    BY <1>2, <1>3 DEF RowsInv, ReplyPairing, Dated, Blank
  <1>5. AnswersInv'
    <2>1. ASSUME NEW e \in EscalationIds PROVE QuestionRow(escalations'[e]) /\ AnswerOK(e)'
      <3>1. escalations'[e].status \in {"absent", "removed"} /\ escalations'[e] \in Escalation
        BY DEF Emptied
      <3>2. Answers(e)' = {}
        BY <1>2 DEF Answers
      <3> QED BY <3>1, <3>2 DEF QuestionRow, AnswerOK
    <2> QED BY <1>4, <2>1 DEF AnswersInv
  <1>6. RemoteInv'
    <2>1. \A c \in CorrelationKeys : CorrelationOK(c)'
      BY DEF Emptied, CorrelationOK, NoCorrelation
    <2>2. \A m \in MessageIds : CorrelatedOK(m)'
      BY <1>2 DEF CorrelatedOK
    <2>3. \A k \in RemoteTaskIds : SubmittedOK(k)'
      BY DEF Emptied, SubmittedOK, TaskPresent, RemoteTaskState
    <2> QED BY <1>4, <2>1, <2>2, <2>3 DEF RemoteInv
  <1>7. BacklogInv' /\ ShareOK'
    <2>1. Unfinished' = {} /\ RemoteActive(messages)' = {}
      BY <1>2 DEF Unfinished, RemoteActive, Present
    <2>2. \A c \in RemotePrincipals : UnfinishedOf(c)' = {}
      BY DEF UnfinishedOf, Emptied, NoCorrelation
    <2>3. /\ IsFiniteSet({}) /\ Cardinality({}) <= MessageBacklogCap
          /\ Cardinality({}) <= MaxRemoteBacklog /\ Cardinality({}) <= PrincipalMessageLimit
      <3>1. /\ MessageBacklogCap >= 0 /\ MaxRemoteBacklog >= 0 /\ PrincipalMessageLimit >= 0
        BY DeliveryAssumption, RemoteAssumption
      <3>2. IsFiniteSet({}) /\ Cardinality({}) = 0
        BY FS_EmptySet
      <3> QED BY <3>1, <3>2
    <2> QED BY <2>1, <2>2, <2>3, Zenon DEF BacklogInv, ShareOK
  <1>8. IdempotentSends'
    BY <1>2 DEF IdempotentSends
  <1>9. TablesOK'
    <2>1. LinksOK' /\ \A m \in MessageIds : PartiesOK(m)'
      BY <1>2 DEF LinksOK, Emptied, PartiesOK
    <2>2. \A e \in EscalationIds : AskedOK(e)'
      BY DEF AskedOK, Emptied
    <2>3. QuestionsCapped'
      <3>1. Pending(Agents)' = {} /\ \A a \in Agents : Pending({a})' = {}
        BY DEF Pending, Emptied
      <3>2. IsFiniteSet({}) /\ Cardinality({}) <= PendingPerAgent
            /\ Cardinality({}) <= PendingPerScope
        <4>1. PendingPerAgent >= 0 /\ PendingPerScope >= 0
          BY EscalationAssumption
        <4>2. IsFiniteSet({}) /\ Cardinality({}) = 0
          BY FS_EmptySet
        <4> QED BY <4>1, <4>2
      <3> QED BY <3>1, <3>2, Zenon DEF QuestionsCapped
    <2>4. \A p \in PublicationIds : PublicationOK(p)'
      BY DEF Emptied, PublicationOK, NoPublication
    <2>5. \A k \in RemoteTaskIds : ServedOK(k)'
      BY DEF Emptied, ServedOK
    <2> QED BY <2>1, <2>2, <2>3, <2>4, <2>5 DEF TablesOK
  <1> QED BY <1>5, <1>6, <1>7, <1>8, <1>9 DEF ScopeInv, WorkInv, ShareInv

(* A deletion leaves no row.                                               *)
LEMMA DeleteEmpties ==
  ASSUME ScopeInv, DeleteScope
  PROVE  ScopeInv' /\ Emptied' /\ IdsStay /\ now' = now
  <1>1. /\ RegistryTypeOK /\ RemoteTypeOK /\ messages \in [MessageIds -> Message]
        /\ reservations \in [ReservationIds -> Reservation]
        /\ escalations \in [EscalationIds -> Escalation]
        /\ \A c \in RemotePrincipals : CredentialOK(c)
    BY DEF ScopeInv, WorkInv, ShareInv, AnswersInv, RemoteInv, RowsInv, DeliveryInv, DeliveryTypeOK
  <1>2. now' = now /\ scopeToken' = scopeToken
    BY DEF DeleteScope
  <1>3. ASSUME NEW a \in Agents
        PROVE  agents'[a] \in Agent /\ agents'[a].lease_expires_at = 0
    <2>1. PICK x : x = agents[a]
      OBVIOUS
    <2>2. agents'[a] = [x EXCEPT !.lifecycle = "offline", !.lease_expires_at = 0]
      BY <2>1 DEF DeleteScope
    <2>3. x \in Agent
      BY <1>1, <2>1 DEF RegistryTypeOK
    <2>4. [x EXCEPT !.lifecycle = "offline", !.lease_expires_at = 0] \in Agent
      BY <2>3 DEF Agent, Lifecycles
    <2>5. [x EXCEPT !.lifecycle = "offline", !.lease_expires_at = 0].lease_expires_at = 0
      BY <2>3 DEF Agent
    <2> QED BY <2>2, <2>4, <2>5, Zenon
  <1>4. RegistryTypeOK'
    <2>1. agents' \in [Agents -> Agent] /\ links' = {}
      BY <1>3 DEF DeleteScope
    <2> QED BY <1>1, <1>2, <2>1 DEF RegistryTypeOK
  <1>5. ASSUME NEW m \in MessageIds
        PROVE  /\ messages'[m] = messages[m] \/ messages'[m] = NoRow("removed")
               /\ ~Present(messages'[m]) /\ messages'[m] \in Message
    <2>1. messages'[m] = IF Present(messages[m]) THEN NoRow("removed") ELSE messages[m]
      BY DEF DeleteScope
    <2>2. NoRow("removed") \in Message /\ ~Present(NoRow("removed"))
      BY DEF NoRow, Message, Modes, Present, Active, Terminal
    <2> QED BY <1>1, <2>1, <2>2
  <1>6. messages' \in [MessageIds -> Message]
    BY <1>5 DEF DeleteScope
  <1>7. reservations' \in [ReservationIds -> Reservation] /\ Held' = {}
    <2>1. reservations' = deleteReservations(Held)
      BY DEF DeleteScope
    <2>2. reservations' \in [ReservationIds -> Reservation]
      BY <1>1, <2>1, DeleteType
    <2>3. \A r \in ReservationIds : reservations'[r].row # "held"
      BY <2>1 DEF deleteReservations, Held, NoReservation
    <2> QED BY <2>2, <2>3 DEF Held
  <1>8. ASSUME NEW e \in EscalationIds
        PROVE  /\ escalations'[e] \in Escalation /\ escalations'[e].status \in {"absent", "removed"}
               /\ escalations[e].status # "absent" => escalations'[e].status # "absent"
    <2>1. escalations'[e] = IF escalations[e].status = "absent" THEN escalations[e]
                                                               ELSE NoEscalation("removed")
      BY DEF DeleteScope
    <2>2. NoEscalation("removed") \in Escalation /\ NoEscalation("removed").status = "removed"
      BY DEF NoEscalation, Escalation
    <2> QED BY <1>1, <2>1, <2>2
  <1>9. escalations' \in [EscalationIds -> Escalation]
    BY <1>8 DEF DeleteScope
  <1>10. publications' \in [PublicationIds -> Publication]
         /\ \A p \in PublicationIds : publications'[p] = NoPublication
    BY DEF DeleteScope, NoPublication, Publication
  <1>11. ASSUME NEW c \in RemotePrincipals
         PROVE  /\ credentials'[c] \in Credential /\ credentials'[c].publication = None
                /\ ~credentials'[c].enabled
    <2>1. credentials'[c] = IF credentials[c].version = 0 THEN credentials[c]
                                                        ELSE NoCredential(MaxVersions)
      BY DEF DeleteScope
    <2>2. CASE credentials[c].version = 0
      <3>1. /\ credentials'[c] = credentials[c] /\ credentials[c].publication = None
            /\ credentials[c].enabled => credentials[c].publication \in PublicationIds
            /\ credentials[c] \in Credential
        BY <1>1, <2>1, <2>2 DEF CredentialOK, RemoteTypeOK
      <3> QED BY <3>1, RemoteAssumption
    <2>3. CASE credentials[c].version # 0
      BY <2>1, <2>3, RemoteAssumption DEF NoCredential, Credential
    <2> QED BY <2>2, <2>3
  <1>12. ASSUME NEW k \in RemoteTaskIds
         PROVE  a2aTasks'[k] \in RemoteTask /\ ~TaskPresent(k)'
    <2>1. a2aTasks'[k] = IF TaskPresent(k) THEN NoRemoteTask("removed") ELSE a2aTasks[k]
      BY DEF DeleteScope
    <2>2. NoRemoteTask("removed") \in RemoteTask
          /\ NoRemoteTask("removed").state \notin RemoteTaskState
      BY DEF NoRemoteTask, RemoteTask, RemoteTaskState, TaskTerminal
    <2> QED BY <1>1, <2>1, <2>2 DEF TaskPresent, RemoteTypeOK
  <1>13. /\ correlations' \in [CorrelationKeys -> Correlation]
         /\ \A c \in CorrelationKeys : correlations'[c] = NoCorrelation
    BY DEF DeleteScope, NoCorrelation, Correlation
  <1>14. RemoteTypeOK'
    <2>1. credentials' \in [RemotePrincipals -> Credential]
      BY <1>11 DEF DeleteScope
    <2>2. a2aTasks' \in [RemoteTaskIds -> RemoteTask]
      BY <1>12 DEF DeleteScope
    <2> QED BY <1>10, <1>13, <2>1, <2>2 DEF RemoteTypeOK
  <1>15. \A c \in RemotePrincipals : CredentialOK(c)'
    BY <1>11, RemoteAssumption DEF CredentialOK
  <1>16. Emptied'
    <2>1. links' = {}
      BY DEF DeleteScope
    <2> QED BY <1>3, <1>5, <1>7, <1>8, <1>10, <1>11, <1>12, <1>13, <2>1 DEF Emptied
  <1>17. ScopeInv'
    <2>1. now <= now'
      BY <1>1, <1>2 DEF RegistryTypeOK
    <2> QED BY <1>4, <1>5, <1>6, <1>7, <1>9, <1>14, <1>15, <1>16, <2>1, EmptyKept
  <1> QED BY <1>2, <1>8, <1>16, <1>17 DEF IdsStay

(* Time passes over it.                                                    *)
LEMMA EmptyTicks ==
  ASSUME ScopeInv, Emptied, Tick, UNCHANGED <<deliveryVars, escalations, remoteVars>>
  PROVE  ScopeInv' /\ Emptied' /\ IdsStay /\ now <= now'
  <1>1. /\ messages' = messages /\ reservations' = reservations /\ escalations' = escalations
        /\ publications' = publications /\ credentials' = credentials
        /\ a2aTasks' = a2aTasks /\ correlations' = correlations
        /\ scopeToken' = scopeToken /\ agents' = agents /\ links' = links /\ now' = now + 1
    BY DEF deliveryVars, remoteVars, Tick
  <1>2. /\ RegistryTypeOK /\ RemoteTypeOK /\ messages \in [MessageIds -> Message]
        /\ reservations \in [ReservationIds -> Reservation]
        /\ escalations \in [EscalationIds -> Escalation]
        /\ \A c \in RemotePrincipals : CredentialOK(c)
    BY DEF ScopeInv, WorkInv, ShareInv, AnswersInv, RemoteInv, RowsInv, DeliveryInv, DeliveryTypeOK
  <1>3. Emptied'
    BY <1>1 DEF Emptied, Held, TaskPresent
  <1>4. RegistryTypeOK' /\ now <= now'
    BY <1>1, <1>2 DEF RegistryTypeOK
  <1>5. RemoteTypeOK' /\ \A c \in RemotePrincipals : CredentialOK(c)'
    BY <1>1, <1>2 DEF RemoteTypeOK, CredentialOK
  <1>6. ScopeInv'
    BY <1>1, <1>2, <1>3, <1>4, <1>5, EmptyKept
  <1> QED BY <1>1, <1>3, <1>4, <1>6 DEF IdsStay

-----------------------------------------------------------------------------
(* A scope that comes back.                                                *)

(* The imported messages: those of the archive, and what was there before. *)
LEMMA ImportedRows ==
  ASSUME ScopeInv, Emptied, ArchiveOK(archive, now), messages' = insertedMessages(archive)
  PROVE  /\ messages' \in [MessageIds -> Message]
         /\ \A m \in MessageIds :
              /\ SameMessage(archive.messages[m], messages'[m])
              /\ Present(messages'[m]) => messages'[m] = archive.messages[m]
              /\ messages'[m].state # "reserved" /\ messages'[m].reservation_id = None
              /\ InTime(messages'[m]) /\ messages'[m].delivered_at <= now
              /\ DatedRow(messages'[m], now) /\ BlankRow(messages'[m])
              /\ messages'[m].response_message_id # None => Present(messages'[m])
  <1>1. archive.messages \in [MessageIds -> Message]
    BY DEF ArchiveOK, ArchiveTypeOK
  <1>2. /\ messages \in [MessageIds -> Message] /\ Dated /\ Blank /\ ReplyPairing /\ DeliveryInv
    BY DEF ScopeInv, WorkInv, AnswersInv, RowsInv, DeliveryInv, DeliveryTypeOK
  <1>3. ASSUME NEW m \in MessageIds
        PROVE  /\ messages'[m] \in Message
               /\ SameMessage(archive.messages[m], messages'[m])
               /\ Present(messages'[m]) => messages'[m] = archive.messages[m]
               /\ messages'[m].state # "reserved" /\ messages'[m].reservation_id = None
               /\ InTime(messages'[m]) /\ messages'[m].delivered_at <= now
               /\ DatedRow(messages'[m], now) /\ BlankRow(messages'[m])
               /\ messages'[m].response_message_id # None => Present(messages'[m])
    <2>1. PICK x, y, z : x = archive.messages[m] /\ y = messages[m] /\ z = messages'[m]
      OBVIOUS
    <2>2. z = IF Present(x) THEN x ELSE y
      BY <2>1 DEF insertedMessages
    <2>3. x \in Message /\ ArchivedRow(x, now)
      BY <1>1, <2>1 DEF ArchiveOK
    <2>4. /\ y \in Message /\ ~Present(y) /\ HeldRow(y, reservations) /\ InTime(y)
          /\ y.delivered_at <= now /\ DatedRow(y, now) /\ BlankRow(y)
          /\ y.response_message_id # None => Present(y)
      BY <1>2, <2>1 DEF Emptied, DeliveryInv, ReservedIffHeld, DeliveredInTime, Dated, Blank,
         ReplyPairing
    <2>5. y.state # "reserved" /\ y.reservation_id = None
      BY <2>4 DEF HeldRow, Present, Active
    <2>6. CASE Present(x)
      BY <2>1, <2>2, <2>3, <2>6 DEF ArchivedRow, SameMessage, BlankRow
    <2>7. CASE ~Present(x)
      BY <2>1, <2>2, <2>4, <2>5, <2>7 DEF SameMessage
    <2> QED BY <2>6, <2>7
  <1> QED BY <1>3 DEF insertedMessages

(* What an import makes of the archive's questions and tasks.              *)
LEMMA ImportedTables ==
  ASSUME ScopeInv, Emptied, ArchiveOK(archive, now), insertArchive(archive)
  PROVE  /\ escalations' \in [EscalationIds -> Escalation]
         /\ \A e \in EscalationIds :
              \/ /\ escalations'[e] = archive.escalations[e]
                 /\ archive.escalations[e].status \in {"pending", "resolved"}
              \/ /\ escalations'[e] = escalations[e]
                 /\ escalations'[e].status \in {"absent", "removed"}
                 /\ archive.escalations[e].status \in {"absent", "removed"}
         /\ a2aTasks' \in [RemoteTaskIds -> RemoteTask]
         /\ \A k \in RemoteTaskIds : SameTask(archive.tasks[k], a2aTasks'[k])
         /\ publications' \in [PublicationIds -> Publication]
         /\ \A p \in PublicationIds : publications'[p].agent = archive.publications[p]
         /\ correlations' = archive.correlations
         /\ correlations' \in [CorrelationKeys -> Correlation]
  <1>1. /\ archive.escalations \in [EscalationIds -> Escalation]
        /\ archive.tasks \in [RemoteTaskIds -> RemoteTask]
        /\ archive.publications \in [PublicationIds -> Agents \cup {None}]
        /\ archive.correlations \in [CorrelationKeys -> Correlation]
    BY DEF ArchiveOK, ArchiveTypeOK
  <1>2. /\ escalations \in [EscalationIds -> Escalation]
        /\ a2aTasks \in [RemoteTaskIds -> RemoteTask]
    BY DEF ScopeInv, WorkInv, ShareInv, AnswersInv, RemoteInv, RemoteTypeOK
  <1>3. ASSUME NEW e \in EscalationIds
        PROVE  /\ escalations'[e] \in Escalation
               /\ \/ /\ escalations'[e] = archive.escalations[e]
                     /\ archive.escalations[e].status \in {"pending", "resolved"}
                  \/ /\ escalations'[e] = escalations[e]
                     /\ escalations'[e].status \in {"absent", "removed"}
                     /\ archive.escalations[e].status \in {"absent", "removed"}
    <2>1. escalations'[e] = IF archive.escalations[e].status \in {"pending", "resolved"}
                            THEN archive.escalations[e] ELSE escalations[e]
      BY DEF insertArchive
    <2>2. archive.escalations[e].status \in {"absent", "pending", "resolved", "removed"}
      BY <1>1 DEF Escalation
    <2> QED BY <1>1, <1>2, <2>1, <2>2 DEF Emptied
  <1>4. escalations' \in [EscalationIds -> Escalation]
    BY <1>3 DEF insertArchive
  <1>5. ASSUME NEW k \in RemoteTaskIds
        PROVE  a2aTasks'[k] \in RemoteTask /\ SameTask(archive.tasks[k], a2aTasks'[k])
    <2>1. a2aTasks'[k] = IF archive.tasks[k].state \in RemoteTaskState
                         THEN archive.tasks[k] ELSE a2aTasks[k]
      BY DEF insertArchive
    <2> QED BY <1>1, <1>2, <2>1 DEF SameTask, Emptied, TaskPresent
  <1>6. a2aTasks' \in [RemoteTaskIds -> RemoteTask]
    BY <1>5 DEF insertArchive
  <1>7. /\ publications' \in [PublicationIds -> Publication]
        /\ \A p \in PublicationIds : publications'[p].agent = archive.publications[p]
    BY <1>1 DEF insertArchive, Publication
  <1>8. correlations' = archive.correlations
    BY DEF insertArchive
  <1> QED BY <1>1, <1>3, <1>4, <1>5, <1>6, <1>7, <1>8

(* The rows of the scope after an import.                                  *)
LEMMA ImportedWork ==
  ASSUME ScopeInv, Emptied, archive # None, ArchiveOK(archive, now), UsedIds, ImportScope
  PROVE  WorkInv'
  <1>1. /\ validMessages(archive) /\ now' = now /\ scopeToken' = scopeToken + 1
        /\ reservations' = reservations /\ credentials' = credentials
        /\ insertArchive(archive) /\ messages' = insertedMessages(archive)
    BY DEF ImportScope, validateArchive, insertArchive
  <1>2. /\ RegistryTypeOK /\ RemoteTypeOK /\ reservations \in [ReservationIds -> Reservation]
        /\ \A c \in RemotePrincipals : CredentialOK(c)
    BY DEF ScopeInv, WorkInv, ShareInv, AnswersInv, RemoteInv, RowsInv, DeliveryInv, DeliveryTypeOK
  <1>3. /\ messages' \in [MessageIds -> Message]
        /\ \A m \in MessageIds :
              /\ SameMessage(archive.messages[m], messages'[m])
              /\ Present(messages'[m]) => messages'[m] = archive.messages[m]
              /\ messages'[m].state # "reserved" /\ messages'[m].reservation_id = None
              /\ InTime(messages'[m]) /\ messages'[m].delivered_at <= now
              /\ DatedRow(messages'[m], now) /\ BlankRow(messages'[m])
              /\ messages'[m].response_message_id # None => Present(messages'[m])
    BY <1>1, ImportedRows
  <1>4. /\ escalations' \in [EscalationIds -> Escalation]
        /\ \A e \in EscalationIds :
              \/ /\ escalations'[e] = archive.escalations[e]
                 /\ archive.escalations[e].status \in {"pending", "resolved"}
              \/ /\ escalations'[e] = escalations[e]
                 /\ escalations'[e].status \in {"absent", "removed"}
                 /\ archive.escalations[e].status \in {"absent", "removed"}
        /\ a2aTasks' \in [RemoteTaskIds -> RemoteTask]
        /\ \A k \in RemoteTaskIds : SameTask(archive.tasks[k], a2aTasks'[k])
        /\ publications' \in [PublicationIds -> Publication]
        /\ correlations' = archive.correlations
        /\ correlations' \in [CorrelationKeys -> Correlation]
    BY <1>1, ImportedTables
  <1>5. ASSUME NEW a \in Agents
        PROVE  agents'[a] \in Agent /\ agents'[a].lease_expires_at = 0
    <2>1. agents'[a] = IF a \in archive.agents
                       THEN [execution_id |-> agents[a].execution_id + 1, lifecycle |-> "offline",
                             lease_expires_at |-> 0, registered_with |-> 0]
                       ELSE NoAgent
      BY <1>1 DEF insertArchive, insertedAgents
    <2>2. agents[a].execution_id + 1 \in Nat
      BY <1>2 DEF RegistryTypeOK, Agent
    <2> QED BY <2>1, <2>2 DEF Agent, NoAgent, Lifecycles
  <1>6. DeliveryInv'
    <2>1. agents' \in [Agents -> Agent] /\ links' \subseteq SUBSET Agents
      BY <1>1, <1>5 DEF insertArchive, insertedAgents, ArchiveOK, ArchiveTypeOK
    <2>2. RegistryTypeOK'
      BY <1>1, <1>2, <2>1 DEF RegistryTypeOK
    <2>3. ReservedIffHeld' /\ DeliveredInTime'
      BY <1>1, <1>3 DEF ReservedIffHeld, HeldRow, DeliveredInTime
    <2>4. Held' = {}
      BY <1>1 DEF Held, Emptied
    <2>5. ReservationFencing' /\ RotationRevokes'
      BY <1>5, <2>4 DEF ReservationFencing, RotationRevokes
    <2> QED BY <1>1, <1>2, <1>3, <2>2, <2>3, <2>5 DEF DeliveryInv, DeliveryTypeOK
  <1>7. PairedIn(messages')
    <2>1. \A m \in MessageIds : archive.messages[m] \in Message
      BY DEF ArchiveOK, ArchiveTypeOK
    <2>2. PairedIn(archive.messages)
      BY DEF ArchiveOK
    <2> QED BY <1>3, <2>1, <2>2, MovePaired DEF Message
  <1>8. RowsInv'
    <2>1. ReplyPairing'
      BY <1>3, <1>7 DEF ReplyPairing, PairedIn
    <2> QED BY <1>1, <1>3, <1>6, <2>1 DEF RowsInv, Dated, Blank
  <1>9. AnswersInv'
    <2>1. ASSUME NEW e \in EscalationIds PROVE QuestionRow(escalations'[e]) /\ AnswerOK(e)'
      <3>1. QuestionRow(archive.escalations[e])
            /\ AnswerIn(archive.messages, archive.escalations[e], e)
        BY DEF ArchiveOK
      <3>2. /\ AnswersIn(messages', e) = AnswersIn(archive.messages, e)
            /\ AnswerIn(messages', archive.escalations[e], e)
        BY <1>3, <3>1, MoveAnswers
      <3>3. Answers(e)' = AnswersIn(messages', e)
        BY DEF Answers, AnswersIn
      <3>4. CASE escalations'[e] = archive.escalations[e]
        BY <3>1, <3>2, <3>3, <3>4 DEF AnswerOK, AnswerIn
      <3>5. CASE /\ escalations'[e] = escalations[e]
                 /\ escalations'[e].status \in {"absent", "removed"}
                 /\ archive.escalations[e].status \in {"absent", "removed"}
        <4>1. escalations'[e].status = "absent" => Answers(e)' = {}
          BY <3>2, <3>3, <3>5 DEF UsedIds, AnswerIn
        <4> QED BY <1>4, <3>5, <4>1 DEF QuestionRow, AnswerOK
      <3> QED BY <1>4, <3>4, <3>5
    <2> QED BY <1>4, <1>8, <2>1 DEF AnswersInv
  <1>10. ASSUME NEW c \in RemotePrincipals PROVE CredentialOK(c)'
    <2>1. credentials'[c].publication = None /\ CredentialOK(c)
      BY <1>1, <1>2 DEF Emptied
    <2> QED BY <1>1, <2>1, RemoteAssumption DEF CredentialOK
  <1>11. ASSUME NEW c \in CorrelationKeys
         PROVE  /\ CorrelationIn(messages', a2aTasks', correlations', c)
                /\ CorrelationIn(archive.messages, archive.tasks, archive.correlations, c)
    <2>1. CorrelationIn(archive.messages, archive.tasks, archive.correlations, c)
      BY DEF ArchiveOK
    <2> QED BY <1>3, <1>4, <2>1, MoveCorrelation
  <1>12. ASSUME NEW m \in MessageIds PROVE CorrelatedIn(messages', correlations', m)
    <2>1. CorrelatedIn(archive.messages, archive.correlations, m)
      BY DEF ArchiveOK
    <2> QED BY <1>3, <1>4, <2>1, MoveCorrelated
  <1>13. ASSUME NEW k \in RemoteTaskIds
         PROVE  SubmittedIn(messages', a2aTasks', correlations', k)
    <2>1. SubmittedIn(archive.messages, archive.tasks, archive.correlations, k)
      BY DEF ArchiveOK
    <2> QED BY <1>3, <1>4, <2>1, MoveSubmitted
  <1>14. RemoteInv'
    <2>1. RemoteTypeOK'
      BY <1>1, <1>2, <1>4 DEF RemoteTypeOK
    <2>2. ASSUME NEW c \in CorrelationKeys PROVE CorrelationOK(c)'
      BY <1>11 DEF CorrelationIn, CorrelationOK, TaskPresent
    <2>3. ASSUME NEW m \in MessageIds PROVE CorrelatedOK(m)'
      BY <1>12 DEF CorrelatedIn, CorrelatedOK
    <2>4. ASSUME NEW k \in RemoteTaskIds PROVE SubmittedOK(k)'
      <3>1. RequestsOf(k)' = RequestsIn(correlations', k)
        BY DEF RequestsOf, CorrelationsOf, RequestsIn
      <3>2. \A m \in MessageIds :
              PhaseOf(messages'[m]) = "queued" => messages'[m].state \in {"queued", "reserved"}
        BY DEF PhaseOf
      <3> QED BY <1>13, <3>1, <3>2 DEF SubmittedIn, SubmittedOK
    <2> QED BY <1>8, <1>10, <2>1, <2>2, <2>3, <2>4 DEF RemoteInv
  <1>15. BacklogInv' /\ ShareOK'
    <2>1. /\ ActiveIn(messages') = ActiveIn(archive.messages)
          /\ RemoteActive(messages') = RemoteActive(archive.messages)
      BY <1>3, MoveCounts
    <2>2. Unfinished' = ActiveIn(messages') /\ RemoteActive(messages)' = RemoteActive(messages')
      BY DEF Unfinished, ActiveIn, RemoteActive
    <2>3. Cardinality(ActiveIn(archive.messages)) <= MessageBacklogCap
      BY <1>1 DEF validMessages, Backlog, ActiveIn
    <2>4. ASSUME NEW c \in RemotePrincipals
          PROVE  UnfinishedOf(c)' = UnfinishedIn(archive.tasks, archive.correlations, c)
      <3>1. ASSUME NEW d \in CorrelationKeys, correlations'[d].task # None
            PROVE  a2aTasks'[correlations'[d].task] = archive.tasks[correlations'[d].task]
        <4>1. PICK k \in RemoteTaskIds : k = correlations'[d].task
          BY <1>4, <1>11, <3>1 DEF CorrelationIn
        <4>2. archive.tasks[k].state \in RemoteTaskState
          BY <1>4, <1>11, <3>1, <4>1 DEF CorrelationIn
        <4>3. SameTask(archive.tasks[k], a2aTasks'[k])
          BY <1>4
        <4> QED BY <4>1, <4>2, <4>3 DEF SameTask
      <3> QED BY <1>4, <3>1 DEF UnfinishedOf, UnfinishedIn
    <2> QED BY <2>1, <2>2, <2>3, <2>4 DEF BacklogInv, ShareOK, ArchiveOK
  <1>16. IdempotentSends'
    <2>1. ASSUME NEW m \in MessageIds, NEW n \in MessageIds,
                 Present(messages'[m]), Present(messages'[n]),
                 messages'[m].from = messages'[n].from,
                 messages'[m].idempotency_key = messages'[n].idempotency_key,
                 messages'[m].idempotency_key # None
          PROVE  m = n
      <3>1. /\ messages'[m] = archive.messages[m] /\ messages'[n] = archive.messages[n]
            /\ messages'[m].state \notin {"absent", "removed"}
            /\ messages'[n].state \notin {"absent", "removed"}
        BY <1>3, <2>1 DEF Present, Active, Terminal
      <3> QED BY <1>1, <2>1, <3>1 DEF validMessages
    <2> QED BY <2>1 DEF IdempotentSends
  <1> QED BY <1>9, <1>14, <1>15, <1>16 DEF WorkInv, ShareInv

(* And its tables, which are what the import has checked.                  *)
LEMMA ImportedScope ==
  ASSUME ScopeInv, Emptied, archive # None, ArchiveOK(archive, now), UsedIds, ImportScope
  PROVE  ScopeInv' /\ IdsStay /\ now' = now
  <1>1. /\ validMessages(archive) /\ validEscalations(archive)
        /\ validPublications(archive) /\ validRemoteTasks(archive)
        /\ \A link \in archive.links : link \subseteq archive.agents /\ Cardinality(link) = 2
        /\ now' = now /\ insertArchive(archive) /\ messages' = insertedMessages(archive)
        /\ links' = archive.links
    BY DEF ImportScope, validateArchive, insertArchive
  <1>2. RegisteredAgents' = archive.agents
    <2>1. archive.agents \subseteq Agents /\ agents \in [Agents -> Agent]
      BY DEF ArchiveOK, ArchiveTypeOK, ScopeInv, WorkInv, AnswersInv, RowsInv, DeliveryInv,
             DeliveryTypeOK, RegistryTypeOK
    <2>2. ASSUME NEW a \in Agents PROVE Registered(a)' <=> a \in archive.agents
      <3>1. agents'[a] = IF a \in archive.agents
                         THEN [execution_id |-> agents[a].execution_id + 1,
                               lifecycle |-> "offline", lease_expires_at |-> 0,
                               registered_with |-> 0]
                         ELSE NoAgent
        BY <1>1 DEF insertArchive, insertedAgents
      <3>2. agents[a].execution_id \in Nat
        BY <2>1 DEF Agent
      <3> QED BY <3>1, <3>2 DEF Registered, NoAgent
    <2> QED BY <2>1, <2>2 DEF RegisteredAgents
  <1>3. \A m \in MessageIds : Present(messages'[m]) => messages'[m] = archive.messages[m]
    BY <1>1, ImportedRows
  <1>4. /\ \A e \in EscalationIds :
              \/ /\ escalations'[e] = archive.escalations[e]
                 /\ archive.escalations[e].status \in {"pending", "resolved"}
              \/ /\ escalations'[e] = escalations[e]
                 /\ escalations'[e].status \in {"absent", "removed"}
                 /\ archive.escalations[e].status \in {"absent", "removed"}
        /\ \A k \in RemoteTaskIds : SameTask(archive.tasks[k], a2aTasks'[k])
        /\ \A p \in PublicationIds : publications'[p].agent = archive.publications[p]
    BY <1>1, ImportedTables
  <1>5. LinksOK'
    BY <1>1, <1>2 DEF LinksOK
  <1>6. ASSUME NEW m \in MessageIds PROVE PartiesOK(m)'
    <2> SUFFICES ASSUME Present(messages'[m])
                 PROVE  /\ {messages'[m].from, messages'[m].to} \cap Agents \subseteq archive.agents
                        /\ messages'[m].mode # "response" => messages'[m].response_to = None
      BY <1>2 DEF PartiesOK
    <2>1. messages'[m] = archive.messages[m] /\ messages'[m].state \notin {"absent", "removed"}
      BY <1>3 DEF Present, Active, Terminal
    <2>2. /\ {archive.messages[m].from, archive.messages[m].to} \cap Agents \subseteq archive.agents
          /\ validResponse(archive.messages, m)
      BY <1>1, <2>1 DEF validMessages
    <2> QED BY <2>1, <2>2 DEF validResponse
  <1>7. ASSUME NEW e \in EscalationIds PROVE AskedOK(e)'
    BY <1>1, <1>2, <1>4 DEF validEscalations, AskedOK
  <1>8. QuestionsCapped'
    <2>1. \A S : Pending(S)' = PendingIn(archive.escalations, S)
      BY <1>4 DEF Pending, PendingIn
    <2>2. /\ Cardinality(PendingIn(archive.escalations, Agents)) <= PendingPerScope
          /\ \A a \in Agents : Cardinality(PendingIn(archive.escalations, {a})) <= PendingPerAgent
      BY <1>1 DEF validEscalations, PendingIn
    <2> QED BY <2>1, <2>2 DEF QuestionsCapped, ArchiveOK
  <1>9. ASSUME NEW p \in PublicationIds PROVE PublicationOK(p)'
    BY <1>1, <1>2, <1>4 DEF validPublications, PublicationOK
  <1>10. ASSUME NEW k \in RemoteTaskIds PROVE ServedOK(k)'
    <2> SUFFICES ASSUME a2aTasks'[k].state \in RemoteTaskState
                 PROVE  /\ a2aTasks'[k].agent \in archive.agents
                        /\ \E p \in PublicationIds : publications'[p].agent = a2aTasks'[k].agent
      BY <1>2 DEF ServedOK, TaskPresent
    <2>1. a2aTasks'[k] = archive.tasks[k]
      BY <1>4 DEF SameTask
    <2> QED BY <1>1, <1>4, <2>1 DEF validRemoteTasks
  <1>11. TablesOK'
    BY <1>5, <1>6, <1>7, <1>8, <1>9, <1>10 DEF TablesOK
  <1>12. IdsStay
    BY <1>4 DEF IdsStay, UsedIds
  <1> QED BY <1>1, <1>11, <1>12, ImportedWork DEF ScopeInv

-----------------------------------------------------------------------------
(* The invariant of a scope that moves.                                    *)

(* An archive does not age.                                                *)
LEMMA ArchiveKeeps ==
  ASSUME NEW x, NEW t \in Nat, NEW u \in Nat, t <= u, ArchiveOK(x, t)
  PROVE  ArchiveOK(x, u)
  <1>1. ASSUME NEW m \in MessageIds PROVE ArchivedRow(x.messages[m], u)
    <2>1. PICK msg : msg = x.messages[m]
      OBVIOUS
    <2>2. msg \in Message /\ ArchivedRow(msg, t)
      BY <2>1 DEF ArchiveOK, ArchiveTypeOK
    <2> QED BY <2>1, <2>2 DEF ArchivedRow, DatedRow, Message
  <1> QED BY <1>1 DEF ArchiveOK

(* What an export writes down is the scope that it leaves behind.          *)
LEMMA ExportedFits ==
  ScopeInv' => (ArchiveOK(archiveOf(messages, a2aTasks, correlations), now))'
  BY ExportFits, PTL

(* A new scope has no row.                                                 *)
LEMMA InitScope ==
  ASSUME DeliveryInit, EscalationsInit, RemoteInit
  PROVE  ScopeInv
  <1>1. AnswersInv
    BY InitAnswers
  <1>2. ShareInv
    BY InitShares
  <1>3. /\ \A m \in MessageIds : ~Present(messages[m])
        /\ \A e \in EscalationIds : escalations[e].status = "absent"
        /\ \A p \in PublicationIds : publications[p].agent = None
        /\ \A k \in RemoteTaskIds : ~TaskPresent(k)
        /\ links = {}
    BY DEF DeliveryInit, RegistryInit, EscalationsInit, NoEscalation, RemoteInit, NoPublication,
           NoRemoteTask, TaskPresent, RemoteTaskState, TaskTerminal, NoRow, Present, Active, Terminal
  <1>4. QuestionsCapped
    <2>1. Pending(Agents) = {} /\ \A a \in Agents : Pending({a}) = {}
      BY <1>3 DEF Pending
    <2>2. IsFiniteSet({}) /\ Cardinality({}) <= PendingPerAgent
          /\ Cardinality({}) <= PendingPerScope
      <3>1. PendingPerAgent >= 0 /\ PendingPerScope >= 0
        BY EscalationAssumption
      <3>2. IsFiniteSet({}) /\ Cardinality({}) = 0
        BY FS_EmptySet
      <3> QED BY <3>1, <3>2
    <2> QED BY <2>1, <2>2, Zenon DEF QuestionsCapped
  <1>5. TablesOK
    BY <1>3, <1>4 DEF TablesOK, LinksOK, PartiesOK, AskedOK, PublicationOK, ServedOK
  <1>6. IdempotentSends
    BY <1>3 DEF IdempotentSends
  <1> QED BY <1>1, <1>2, <1>5, <1>6 DEF ScopeInv, WorkInv

(* Where nothing changes, the invariant stays.                             *)
LEMMA ScopeStutters ==
  ASSUME ScopeInv, UNCHANGED <<vars, escalations, remoteVars>>
  PROVE  ScopeInv'
  <1>1. /\ AnswersInv /\ RemoteInv /\ BacklogInv /\ ShareOK /\ IdempotentSends /\ DeliveryInv
        /\ UNCHANGED vars /\ UNCHANGED registryVars
        /\ now' = now /\ agents' = agents /\ links' = links
        /\ messages' = messages /\ escalations' = escalations
        /\ a2aTasks' = a2aTasks /\ correlations' = correlations
        /\ publications' = publications /\ credentials' = credentials
    BY DEF ScopeInv, WorkInv, ShareInv, RemoteInv, RowsInv, vars, registryVars, deliveryVars,
           remoteVars
  <1>2. AnswersInv'
    BY <1>1, AnswersPreserved
  <1>3. RemoteInv'
    <2>1. /\ publications' \in [PublicationIds -> Publication]
          /\ credentials' \in [RemotePrincipals -> Credential]
          /\ \A c \in RemotePrincipals : CredentialOK(c)'
      BY <1>1 DEF RemoteInv, RemoteTypeOK, CredentialOK
    <2> QED BY <1>1, <2>1, OwnerKeeps
  <1>4. BacklogInv' /\ ShareOK'
    BY <1>1 DEF BacklogInv, Unfinished, ShareOK, RemoteActive, UnfinishedOf
  <1>5. AllCarried(messages')
    BY <1>1, SameCarried
  <1>6. IdempotentSends'
    BY <1>1, <1>5, KeysKept
  <1>7. WorkInv'
    BY <1>2, <1>3, <1>4, <1>6 DEF WorkInv, ShareInv
  <1>8. RowsMove /\ RegistryMoves
    BY <1>1, <1>5 DEF RowsMove, RegistryMoves
  <1>9. QuestionsOK' /\ ServiceOK'
    <2>1. QuestionsOK /\ ServiceOK
      BY DEF ScopeInv, TablesOK, QuestionsOK, ServiceOK
    <2> QED BY <1>1, <2>1 DEF QuestionsOK, AskedOK, QuestionsCapped, Pending, ServiceOK,
           PublicationOK, ServedOK, TaskPresent, RegisteredAgents, Registered
  <1>10. TablesOK'
    BY <1>8, <1>9, TablesKept
  <1> QED BY <1>7, <1>10 DEF ScopeInv

(* Every step of a scope, and every move, keeps the invariant.             *)
LEMMA ArchivePreserved ==
  ASSUME ArchiveInv, (exists /\ ScopeNext /\ UNCHANGED archiveVars) \/ ArchiveNext
  PROVE  ArchiveInv'
  <1>1. ScopeInv /\ exists \in BOOLEAN /\ now \in Nat
    BY DEF ArchiveInv, ScopeInv, WorkInv, AnswersInv, RowsInv, DeliveryInv, DeliveryTypeOK,
           RegistryTypeOK
  <1>2. ScopeInv' => now' \in Nat
    BY DEF ScopeInv, WorkInv, AnswersInv, RowsInv, DeliveryInv, DeliveryTypeOK, RegistryTypeOK
  <1>3. ASSUME archive' = archive, ScopeInv', IdsStay, now <= now'
        PROVE  archive' # None => ArchiveOK(archive', now') /\ UsedIds'
    <2>1. archive # None => ArchiveOK(archive, now')
      BY <1>1, <1>2, <1>3, ArchiveKeeps DEF ArchiveInv
    <2>2. archive # None => UsedIds'
      BY <1>3 DEF ArchiveInv, UsedIds, IdsStay
    <2> QED BY <1>3, <2>1, <2>2
  <1>4. CASE exists /\ ScopeNext /\ UNCHANGED archiveVars
    <2>1. ScopeInv' /\ IdsStay /\ now <= now'
      BY <1>1, <1>4, ScopeKept
    <2> QED BY <1>3, <1>4, <2>1 DEF ArchiveInv, archiveVars
  <1>5. CASE ExportScope
    <2>1. ScopeNext /\ exists' = exists /\ exists
      <3>1. Messages /\ FollowMessages /\ UNCHANGED <<publications, credentials>>
        BY <1>5 DEF ExportScope, Messages, registryVars
      <3> QED BY <1>5, <3>1, Zenon DEF ScopeNext, ExportScope
    <2>2. ScopeInv'
      BY <1>1, <2>1, ScopeKept
    <2>3. archive' = archiveOf(messages', a2aTasks', correlations')
          /\ links' = links /\ agents' = agents /\ escalations' = escalations
          /\ publications' = publications
      BY <1>5 DEF ExportScope, registryVars
    <2>4. archive' = archiveOf(messages, a2aTasks, correlations)'
      BY <2>3 DEF archiveOf, Registered
    <2>5. ArchiveOK(archive', now')
      BY <2>2, <2>4, ExportedFits
    <2>6. UsedIds'
      BY <2>3 DEF archiveOf, UsedIds
    <2> QED BY <2>1, <2>2, <2>5, <2>6 DEF ArchiveInv
  <1>6. CASE DeleteScope
    <2>1. ScopeInv' /\ Emptied' /\ IdsStay /\ now' = now
      BY <1>1, <1>6, DeleteEmpties
    <2>2. exists' = FALSE /\ archive' = archive
      BY <1>6 DEF DeleteScope
    <2>3. exists' \in BOOLEAN /\ (~exists' => Emptied')
      BY <2>1, <2>2
    <2>4. archive' # None => ArchiveOK(archive', now') /\ UsedIds'
      BY <1>1, <1>3, <2>1, <2>2
    <2> QED BY <2>1, <2>3, <2>4 DEF ArchiveInv
  <1>7. CASE ImportScope
    <2>1. ~exists /\ archive # None /\ exists' = TRUE /\ archive' = archive
      BY <1>7 DEF ImportScope
    <2>2. ScopeInv' /\ IdsStay /\ now' = now
      BY <1>1, <1>7, <2>1, ImportedScope DEF ArchiveInv
    <2> QED BY <1>1, <1>3, <2>1, <2>2 DEF ArchiveInv
  <1>8. CASE ~exists /\ Tick /\ UNCHANGED <<deliveryVars, escalations, remoteVars, archiveVars>>
    <2>1. Emptied /\ exists' = exists /\ archive' = archive
          /\ UNCHANGED <<deliveryVars, escalations, remoteVars>>
      BY <1>8 DEF ArchiveInv, archiveVars
    <2>2. ScopeInv' /\ Emptied' /\ IdsStay /\ now <= now'
      BY <1>1, <1>8, <2>1, EmptyTicks
    <2>3. exists' \in BOOLEAN
      BY <1>1, <2>1
    <2>4. archive' # None => ArchiveOK(archive', now') /\ UsedIds'
      BY <1>3, <2>1, <2>2
    <2> QED BY <2>2, <2>3, <2>4 DEF ArchiveInv
  <1> QED BY <1>4, <1>5, <1>6, <1>7, <1>8, Zenon DEF ArchiveNext

(* So it always holds.                                                     *)
LEMMA ArchiveInvHolds == ArchiveSpec => []ArchiveInv
  <1>1. ASSUME DeliveryInit, EscalationsInit, RemoteInit, ArchiveInit PROVE ArchiveInv
    BY <1>1, InitScope DEF ArchiveInit, ArchiveInv
  <1>2. ASSUME ArchiveInv, UNCHANGED <<vars, escalations, remoteVars, archiveVars>>
        PROVE  ArchiveInv'
    <2>1. /\ now' = now /\ scopeToken' = scopeToken /\ agents' = agents /\ links' = links
          /\ messages' = messages /\ reservations' = reservations /\ escalations' = escalations
          /\ publications' = publications /\ credentials' = credentials
          /\ a2aTasks' = a2aTasks /\ correlations' = correlations
          /\ exists' = exists /\ archive' = archive
      BY <1>2 DEF vars, registryVars, deliveryVars, remoteVars, archiveVars
    <2>2. ScopeInv'
      BY <1>2, ScopeStutters DEF ArchiveInv
    <2>3. ~exists' => Emptied'
      BY <1>2, <2>1 DEF ArchiveInv, Emptied, Held, TaskPresent, Present
    <2>4. archive' # None => ArchiveOK(archive', now') /\ UsedIds'
      BY <1>2, <2>1 DEF ArchiveInv, UsedIds
    <2> QED BY <1>2, <2>1, <2>2, <2>3, <2>4 DEF ArchiveInv
  <1> QED BY <1>1, <1>2, ArchivePreserved, PTL DEF ArchiveSpec

(* A scope can always leave: the export accepts what it reads, whatever    *)
(* the operations of the scope, retention, deletions and earlier imports   *)
(* made of it in any order (ExportScope, validateArchive, ImportScope).    *)
THEOREM ScopesAreExportable == ArchiveSpec => []Exportable
  <1>1. ArchiveInv => Exportable
    BY ExportValid DEF ArchiveInv, Exportable
  <1> QED BY <1>1, ArchiveInvHolds, PTL

(* Nothing that is promised of a scope is lost on the way: in a scope with *)
(* both questions and remote work, before and after a deletion and an      *)
(* import, answers stay with their questions, remote tasks with their      *)
(* messages, the backlog within its shares, and keys name one message      *)
(* (ExportScope, DeleteScope, insertArchive).                              *)
THEOREM MovedWorkIsSound ==
  ArchiveSpec => [](AnswersKept /\ TasksFollowMessages /\ BacklogShared /\ IdempotentSends)
  <1>1. ArchiveInv => AnswersInv /\ RemoteInv /\ BacklogInv /\ ShareOK /\ IdempotentSends
    BY DEF ArchiveInv, ScopeInv, WorkInv, ShareInv
  <1>2. ArchiveInv => AnswersKept /\ TasksFollowMessages /\ BacklogShared /\ IdempotentSends
    BY <1>1, AnswersShown, TasksShown, SharesShown
  <1> QED BY <1>2, ArchiveInvHolds, PTL

(* No execution takes work of the deleted scope into the imported one: a   *)
(* message is reserved for nobody but the execution that holds it, and     *)
(* none is handed over after its time, also where the archive was taken    *)
(* long ago (archivedMessage, insertArchive, ReserveInbox, CommitInbox).   *)
THEOREM MovedMailIsSound == ArchiveSpec => [](ReservationsSound /\ DeliveredInTime)
  <1>1. ArchiveInv => ReservationsSound /\ DeliveredInTime
    BY DEF ArchiveInv, ScopeInv, WorkInv, AnswersInv, RowsInv, DeliveryInv, ReservationsSound
  <1> QED BY <1>1, ArchiveInvHolds, PTL

(* No move takes a task back to an earlier state: it is there with the     *)
(* state it had in the archive, and goes on from there (DeleteScope,       *)
(* insertArchive, transitionA2ATaskForMessage).                            *)
THEOREM MovedTasksAreLegal == ArchiveSpec => TaskTransitionsLegal
  <1> DEFINE Step == (exists /\ ScopeNext /\ UNCHANGED archiveVars) \/ ArchiveNext
  <1>1. ASSUME ArchiveInv, Step PROVE LegalMoves
    <2>1. ArchiveInv' /\ RemoteInv /\ RemoteInv'
      <3>1. ArchiveInv'
        BY <1>1, ArchivePreserved
      <3> QED BY <1>1, <3>1 DEF ArchiveInv, ScopeInv, WorkInv, ShareInv
    <2>2. UNCHANGED a2aTasks => LegalMoves
      BY SameLegal
    <2>3. ASSUME NEW token \in 1..MaxTokens, NEW before \in 1..MaxTime, NEW execute \in BOOLEAN,
                 PruneScope(token, before, execute)
          PROVE  RemoteNext
      BY <2>3, Zenon DEF PruneScope, RemoteNext
    <2>4. RemoteStep => RemoteNext
      BY DEF RemoteNext
    <2>5. ScopeNext => RemoteNext \/ FollowMessages \/ UNCHANGED a2aTasks
      BY <2>3, <2>4, Zenon DEF ScopeNext, remoteVars
    <2>6. ScopeNext => LegalMoves
      BY <2>1, <2>2, <2>5, StepsLegal, FollowLegal
    <2>7. ExportScope => LegalMoves
      BY <2>1, FollowLegal DEF ExportScope
    <2>8. ImportScope => \A k \in RemoteTaskIds : ~TaskPresent(k)
      BY <1>1 DEF ImportScope, ArchiveInv, Emptied
    <2>9. DeleteScope => \A k \in RemoteTaskIds : ~TaskPresent(k)'
      BY <2>1 DEF DeleteScope, ArchiveInv, Emptied
    <2>10. ImportScope \/ DeleteScope => LegalMoves
      BY <2>8, <2>9, SameLegal
    <2> QED BY <1>1, <2>2, <2>6, <2>7, <2>10, Zenon DEF ArchiveNext, remoteVars
  <1>2. UNCHANGED <<vars, remoteVars>> => LegalMoves
    BY SameLegal DEF remoteVars
  <1>3. ArchiveInv /\ [Step]_<<vars, escalations, remoteVars, archiveVars>>
          => [LegalMoves]_<<vars, remoteVars>>
    BY <1>1, <1>2
  <1>4. [LegalMoves]_<<vars, remoteVars>> =>
          [\A k \in RemoteTaskIds :
             TaskPresent(k) /\ TaskPresent(k)'
               => validA2ATaskTransition(a2aTasks[k].state, a2aTasks'[k].state)]_<<vars, remoteVars>>
    BY DEF LegalMoves
  <1> QED BY <1>3, <1>4, ArchiveInvHolds, PTL DEF ArchiveSpec, TaskTransitionsLegal
=============================================================================
