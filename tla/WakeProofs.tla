----------------------------- MODULE WakeProofs -----------------------------
(***************************************************************************)
(* Proofs about how an agent learns of its messages.  NativeWake: for      *)
(* every number of listeners, executions, messages and attempts, and for   *)
(* every spacing, staleness and batch size.  InboxWait: for every number   *)
(* of agents, requests and channels, and every budget and timer.           *)
(***************************************************************************)
EXTENDS NativeWake, LongPolls, DeliveryProofs, StreamsProofs

-----------------------------------------------------------------------------
(* The inductive invariant.  An attempt is live for a row when its prompt  *)
(* may have been written or may still be.                                  *)
InHand(l, x) == /\ listeners[l].pc = "claimed" /\ listeners[l].principal = x[1]
                /\ x[2] \in listeners[l].batch
Live(x, i) == \/ i \in written[x]
              \/ \E l \in Listeners : InHand(l, x) /\ listeners[l].attempt_id = i

Standing == {"dispatching", "submitted", "uncertain"}

(* One live attempt per row, and the table knows it while the message is   *)
(* there.                                                                  *)
OneLive == \A x \in WakeRows, i, j \in Nat : Live(x, i) /\ Live(x, j) => i = j
OnRecord ==
  \A x \in WakeRows, i \in Nat :
    Live(x, i) /\ messages[x[2]].state # "removed" =>
      attempts[x].attempt_id = i /\ attempts[x].outcome \in Standing

(* Attempt IDs are fresh, and two listeners at work have different ones.   *)
FreshIds ==
  /\ \A l \in Listeners : listeners[l].attempt_id <= issued
  /\ \A x \in WakeRows : /\ attempts[x].attempt_id <= issued
                         /\ \A i \in written[x] : i <= issued
DistinctIds ==
  \A k, l \in Listeners :
    k # l /\ listeners[k].pc # "idle" /\ listeners[l].pc # "idle" =>
      listeners[k].attempt_id # listeners[l].attempt_id

(* What has not been written, and never will be when the provider was not  *)
(* there.                                                                  *)
Unwritten(w) == w.pc = "claimed" \/ (w.pc = "posted" /\ w.outcome = "unavailable")
UnwrittenIds ==
  \A l \in Listeners, x \in WakeRows :
    Unwritten(listeners[l]) => listeners[l].attempt_id \notin written[x]

ListenerOK ==
  \A l \in Listeners :
    /\ listeners[l].pc # "idle" => /\ listeners[l].principal \in Executions
                                   /\ listeners[l].attempt_id # 0
    /\ listeners[l].pc = "posted" => listeners[l].outcome # "none"

NoRowNoTries == \A x \in WakeRows : attempts[x].outcome = "none" => attempts[x].tries = 0

(* The connection of an agent is that of its latest execution that         *)
(* claimed, and last_attempt_at bounds the start of what is under way.     *)
Paced ==
  /\ \A a \in Agents : connections[a].execution_id <= agents[a].execution_id
  /\ \A x \in WakeRows :
       LET c == connections[x[1].agent] IN
       /\ attempts[x].outcome # "none" => c.execution_id >= x[1].execution
       /\ attempts[x].outcome = "dispatching" /\ c.execution_id = x[1].execution =>
            attempts[x].updated_at # 0 /\ attempts[x].updated_at <= c.last_attempt_at

WakeInv ==
  /\ WakeTypeOK /\ OneLive /\ OnRecord /\ FreshIds /\ DistinctIds /\ UnwrittenIds
  /\ ListenerOK /\ NoRowNoTries /\ Paced /\ WakesSpaced

-----------------------------------------------------------------------------
(* Every wake step is a step of the transactions below, or none of them.   *)
LEMMA WakeIsDelivery == WakeSpec => DeliverySpec
  <1>1. WakeInit => DeliveryInit
    BY DEF WakeInit
  <1>2. [WakeNext]_<<vars, wakeVars>> => [DeliveryNext]_vars
    BY DEF WakeNext, ClaimWake, Post, Finish, Crash, RetryWake
  <1> QED BY <1>1, <1>2, PTL DEF WakeSpec, DeliverySpec

(* The parts of a key.                                                     *)
LEMMA RowParts ==
  ASSUME NEW x \in WakeRows
  PROVE  /\ x[1] \in Executions /\ x[2] \in MessageIds /\ x = <<x[1], x[2]>>
         /\ x[1].agent \in Agents /\ x[1].execution \in Nat \ {0}
  <1>1. x[1] \in Executions /\ x[2] \in MessageIds /\ x = <<x[1], x[2]>>
    BY DEF WakeRows
  <1> QED BY <1>1, RegistryAssumption DEF Executions

(* A principal is an execution.                                            *)
LEMMA KnownExecutions ==
  ASSUME NEW p \in KnownPrincipals
  PROVE  p \in Executions /\ p.agent \in Agents /\ p.execution \in Nat \ {0}
  BY RegistryAssumption DEF KnownPrincipals, Executions

(* No transaction brings back a removed message.                           *)
LEMMA RemovedStays ==
  ASSUME DeliveryInv, DeliveryInv', DeliveryNext, NEW m \in MessageIds,
         messages[m].state = "removed"
  PROVE  messages'[m].state = "removed"
  <1>1. PhaseOf(messages[m]) = "removed"
    BY DEF PhaseOf
  <1>2. PhaseOf(messages'[m]) = "removed"
    BY <1>1, StepMoves
       DEF Abstract!Move, Abstract!Accept, Abstract!StoreRemote, Abstract!Hold,
           Abstract!Deliver, Abstract!GiveBack, Abstract!Acknowledge, Abstract!Read,
           Abstract!Expire, Abstract!Forget, Abstract!Goes, Abstract!Open
  <1> QED BY <1>2 DEF PhaseOf

(* Executions of an agent only get newer.                                  *)
LEMMA ExecutionsGrow ==
  ASSUME DeliveryInv, DeliveryNext, NEW a \in Agents
  PROVE  agents[a].execution_id <= agents'[a].execution_id
  <1>1. agents \in [Agents -> Agent] /\ agents[a].execution_id \in Nat
    BY DEF DeliveryInv, DeliveryTypeOK, RegistryTypeOK, Agent
  <1>2. CASE agents' = agents
    BY <1>1, <1>2
  <1>3. ASSUME NEW token \in 1..MaxTokens, NEW b \in Agents,
               NEW leaseMS \in LeaseTimes, NEW connectTo \in SUBSET Agents,
               NEW workspace \in BOOLEAN,
               RegisterAgent(token, b, leaseMS, connectTo, workspace)
        PROVE  agents[a].execution_id <= agents'[a].execution_id
    <2>1. /\ agents'[b].execution_id = agents[b].execution_id + 1
          /\ \A c \in Agents \ {b} : agents'[c] = agents[c]
      BY <1>1, <1>3 DEF RegisterAgent, RegisterRow, Agent
    <2> QED BY <1>1, <2>1
  <1>4. ASSUME NEW q \in KnownPrincipals, NEW lifecycle \in ReportedLifecycles,
               NEW leaseMS \in LeaseTimes, Heartbeat(q, lifecycle, leaseMS)
        PROVE  agents[a].execution_id <= agents'[a].execution_id
    <2>1. /\ agents'[q.agent].execution_id = agents[q.agent].execution_id
          /\ \A b \in Agents \ {q.agent} : agents'[b] = agents[b]
      BY <1>1, <1>4, KnownExecutions DEF Heartbeat, HeartbeatRow, Agent
    <2> QED BY <1>1, <2>1
  <1>5. ASSUME NEW q \in KnownPrincipals, RetireAgent(q)
        PROVE  agents[a].execution_id <= agents'[a].execution_id
    <2>1. /\ agents'[q.agent].execution_id = agents[q.agent].execution_id
          /\ \A b \in Agents \ {q.agent} : agents'[b] = agents[b]
      BY <1>1, <1>5, KnownExecutions DEF RetireAgent, RetireRow, Agent
    <2> QED BY <1>1, <2>1
  <1>6. CASE RotateScopeToken
    <2>1. agents'[a] = [agents[a] EXCEPT !.lifecycle = "offline", !.lease_expires_at = 0]
      BY <1>1, <1>6, Zenon DEF RotateScopeToken, RotateRows
    <2>2. agents'[a].execution_id = agents[a].execution_id
      BY <1>1, <2>1 DEF Agent
    <2> QED BY <1>1, <2>2
  <1>7. CASE InboxNext \/ HumanNext
    <2>1. agents' = agents
      BY <1>7, Zenon DEF InboxNext, SendMessage, Receipt, ReserveInbox, CommitInbox,
            ReleaseInbox, AcknowledgeMessages, PruneMessages, registryVars, ClockOnly,
            HumanNext, SendHumanMessage, ReadHumanMessages
    <2> QED BY <1>2, <2>1
  <1> QED BY <1>2, <1>3, <1>4, <1>5, <1>6, <1>7 DEF DeliveryNext, RegistryNext, Tick, LinkAgents

-----------------------------------------------------------------------------
(* A transaction on messages or executions.                                *)
LEMMA TablesPreserve ==
  ASSUME DeliveryInv, DeliveryInv', WakeInv, DeliveryNext, Cascade
  PROVE  WakeInv'
  <1>1. /\ connections' = connections /\ issued' = issued /\ listeners' = listeners
        /\ written' = written
    BY DEF Cascade
  <1>2. \A x \in WakeRows : attempts'[x] = IF messages'[x[2]].state = "removed"
                                           THEN NoAttempt ELSE attempts[x]
    BY DEF Cascade
  <1>3. \A x \in WakeRows : NoAttempt \in Attempt /\ attempts[x] \in Attempt
    BY WakeAssumption DEF NoAttempt, Attempt, WakeInv, WakeTypeOK
  <1>4. WakeTypeOK'
    <2>1. attempts' \in [WakeRows -> Attempt]
      BY <1>3 DEF Cascade
    <2> QED BY <1>1, <2>1 DEF WakeInv, WakeTypeOK
  <1>5. \A x \in WakeRows, i \in Nat : Live(x, i)' <=> Live(x, i)
    BY <1>1 DEF Live, InHand
  <1>6. OneLive'
    BY <1>5 DEF OneLive, WakeInv
  <1>7. OnRecord'
    <2> SUFFICES ASSUME NEW x \in WakeRows, NEW i \in Nat, Live(x, i)',
                        messages'[x[2]].state # "removed"
                 PROVE  attempts'[x].attempt_id = i /\ attempts'[x].outcome \in Standing
      BY DEF OnRecord
    <2>1. messages[x[2]].state # "removed"
      BY RemovedStays, RowParts
    <2> QED BY <1>2, <1>5, <2>1 DEF OnRecord, WakeInv
  <1>8. FreshIds'
    <2>1. 0 <= issued
      BY DEF WakeInv, WakeTypeOK
    <2> QED BY <1>1, <1>2, <2>1 DEF FreshIds, WakeInv, NoAttempt
  <1>9. DistinctIds' /\ UnwrittenIds' /\ ListenerOK'
    BY <1>1 DEF DistinctIds, UnwrittenIds, ListenerOK, WakeInv
  <1>10. NoRowNoTries'
    BY <1>2 DEF NoRowNoTries, WakeInv, NoAttempt
  <1>11. Paced'
    <2>1. ASSUME NEW a \in Agents PROVE connections'[a].execution_id <= agents'[a].execution_id
      <3>1. /\ connections[a].execution_id \in Nat /\ agents[a].execution_id \in Nat
            /\ agents'[a].execution_id \in Nat
        BY DEF WakeInv, WakeTypeOK, DeliveryInv, DeliveryTypeOK, RegistryTypeOK, Agent
      <3>2. connections[a].execution_id <= agents[a].execution_id
        BY DEF WakeInv, Paced
      <3> QED BY <1>1, <3>1, <3>2, ExecutionsGrow
    <2> QED BY <1>1, <1>2, <2>1 DEF Paced, WakeInv, NoAttempt
  <1>12. WakesSpaced'
    <2> SUFFICES ASSUME NEW p \in Executions, NEW m \in MessageIds, NEW n \in MessageIds,
                        attempts'[<<p, m>>].outcome = "dispatching",
                        attempts'[<<p, n>>].outcome = "dispatching",
                        attempts'[<<p, m>>].attempt_id < attempts'[<<p, n>>].attempt_id
                 PROVE  attempts'[<<p, m>>].updated_at + WakeSpacing
                          <= attempts'[<<p, n>>].updated_at
      BY DEF WakesSpaced
    <2>1. <<p, m>> \in WakeRows /\ <<p, n>> \in WakeRows
      BY DEF WakeRows
    <2>2. /\ attempts'[<<p, m>>] = attempts[<<p, m>>]
          /\ attempts'[<<p, n>>] = attempts[<<p, n>>]
      BY <1>2, <2>1 DEF NoAttempt
    <2> QED BY <2>2 DEF WakesSpaced, WakeInv
  <1> QED BY <1>4, <1>6, <1>7, <1>8, <1>9, <1>10, <1>11, <1>12 DEF WakeInv

(* A listener stops.                                                       *)
LEMMA CrashPreserves ==
  ASSUME DeliveryInv, WakeInv, NEW l \in Listeners, Crash(l)
  PROVE  WakeInv'
  <1>1. /\ connections' = connections /\ issued' = issued /\ attempts' = attempts
        /\ written' = written /\ messages' = messages /\ agents' = agents
    BY DEF Crash, vars, registryVars, deliveryVars
  <1>2. \A k \in Listeners : listeners'[k] = IF k = l THEN Listening ELSE listeners[k]
    BY DEF Crash, WakeInv, WakeTypeOK
  <1>3. Listening \in Listener
    BY WakeAssumption DEF Listening, Listener
  <1>4. WakeTypeOK'
    <2>1. listeners' \in [Listeners -> Listener]
      BY <1>3 DEF Crash, WakeInv, WakeTypeOK
    <2> QED BY <1>1, <2>1 DEF WakeInv, WakeTypeOK
  <1>5. \A x \in WakeRows, i \in Nat : Live(x, i)' => Live(x, i)
    BY <1>1, <1>2 DEF Live, InHand, Listening
  <1>6. OneLive'
    BY <1>5 DEF OneLive, WakeInv
  <1>7. OnRecord'
    BY <1>1, <1>5 DEF OnRecord, WakeInv
  <1>8. FreshIds'
    <2>1. 0 <= issued
      BY DEF WakeInv, WakeTypeOK
    <2> QED BY <1>1, <1>2, <2>1 DEF FreshIds, WakeInv, Listening
  <1>9. DistinctIds' /\ UnwrittenIds' /\ ListenerOK'
    BY <1>1, <1>2 DEF DistinctIds, UnwrittenIds, ListenerOK, WakeInv, Unwritten, Listening
  <1>10. NoRowNoTries' /\ Paced' /\ WakesSpaced'
    BY <1>1 DEF NoRowNoTries, Paced, WakesSpaced, WakeInv
  <1> QED BY <1>4, <1>6, <1>7, <1>8, <1>9, <1>10 DEF WakeInv

(* A prompt is written, or is not because the provider was not there.      *)
LEMMA PostPreserves ==
  ASSUME DeliveryInv, WakeInv, NEW l \in Listeners,
         NEW outcome \in {"submitted", "unavailable", "uncertain"}, Post(l, outcome)
  PROVE  WakeInv'
  <1> DEFINE w == listeners[l]
  <1>1. /\ connections' = connections /\ issued' = issued /\ attempts' = attempts
        /\ messages' = messages /\ agents' = agents
    BY DEF Post, vars, registryVars, deliveryVars
  <1>2. w \in Listener /\ w.pc = "claimed"
    BY DEF Post, WakeInv, WakeTypeOK
  <1>3. /\ \A k \in Listeners \ {l} : listeners'[k] = listeners[k]
        /\ listeners'[l] = [w EXCEPT !.pc = "posted", !.outcome = outcome, !.batch = {}]
        /\ DOMAIN listeners' = Listeners
        /\ listeners' = [k \in Listeners |-> listeners'[k]]
    BY DEF Post, WakeInv, WakeTypeOK
  <1>4. /\ listeners'[l].pc = "posted" /\ listeners'[l].outcome = outcome
        /\ listeners'[l].batch = {} /\ listeners'[l].principal = w.principal
        /\ listeners'[l].attempt_id = w.attempt_id /\ listeners'[l] \in Listener
    BY <1>2, <1>3 DEF Listener
  <1>5. \A x \in WakeRows : written'[x] =
          IF outcome # "unavailable" /\ x[1] = w.principal /\ x[2] \in w.batch
          THEN written[x] \cup {w.attempt_id} ELSE written[x]
    BY DEF Post
  <1>6. w.attempt_id \in 1..MaxAttempts /\ w.attempt_id <= issued
    <2>1. w.attempt_id \in 0..MaxAttempts /\ w.attempt_id # 0
      BY <1>2 DEF WakeInv, ListenerOK, Listener
    <2> QED BY <2>1, WakeAssumption DEF WakeInv, FreshIds
  <1>7. WakeTypeOK'
    <2>1. listeners' \in [Listeners -> Listener]
      BY <1>3, <1>4 DEF WakeInv, WakeTypeOK
    <2>2. written' \in [WakeRows -> SUBSET (1..MaxAttempts)]
      <3>1. \A x \in WakeRows : written'[x] \in SUBSET (1..MaxAttempts)
        BY <1>5, <1>6 DEF WakeInv, WakeTypeOK
      <3>2. written' = [x \in WakeRows |-> written'[x]]
        BY DEF Post
      <3> QED BY <3>1, <3>2
    <2> QED BY <1>1, <2>1, <2>2 DEF WakeInv, WakeTypeOK
  <1>8. \A x \in WakeRows, i \in Nat : Live(x, i)' => Live(x, i)
    <2> SUFFICES ASSUME NEW x \in WakeRows, NEW i \in Nat, Live(x, i)' PROVE Live(x, i)
      OBVIOUS
    <2>1. CASE i \in written'[x]
      BY <1>2, <1>5, <2>1 DEF Live, InHand
    <2>2. ASSUME NEW k \in Listeners, InHand(k, x)', listeners'[k].attempt_id = i
          PROVE  Live(x, i)
      <3>1. k # l
        BY <1>4, <2>2 DEF InHand
      <3> QED BY <1>3, <2>2, <3>1 DEF Live, InHand
    <2> QED BY <2>1, <2>2 DEF Live
  <1>9. OneLive'
    BY <1>8 DEF OneLive, WakeInv
  <1>10. OnRecord'
    BY <1>1, <1>8 DEF OnRecord, WakeInv
  <1>11. FreshIds'
    <2>1. \A k \in Listeners : listeners'[k].attempt_id = listeners[k].attempt_id
      BY <1>3, <1>4
    <2> QED BY <1>1, <1>5, <1>6, <2>1 DEF FreshIds, WakeInv
  <1>12. DistinctIds'
    <2>1. \A k \in Listeners : /\ listeners'[k].attempt_id = listeners[k].attempt_id
                               /\ listeners'[k].pc # "idle" => listeners[k].pc # "idle"
      BY <1>2, <1>3, <1>4
    <2> QED BY <2>1 DEF DistinctIds, WakeInv
  <1>13. UnwrittenIds'
    <2> SUFFICES ASSUME NEW k \in Listeners, NEW x \in WakeRows, Unwritten(listeners'[k])
                 PROVE  listeners'[k].attempt_id \notin written'[x]
      BY DEF UnwrittenIds
    <2>1. CASE k = l
      BY <1>2, <1>4, <1>5, <2>1 DEF UnwrittenIds, Unwritten, WakeInv
    <2>2. CASE k # l
      <3>1. listeners'[k] = listeners[k] /\ listeners[k].attempt_id \notin written[x]
        BY <1>3, <2>2 DEF UnwrittenIds, WakeInv
      <3>2. listeners[k].attempt_id # w.attempt_id
        BY <1>2, <1>3, <2>2 DEF DistinctIds, Unwritten, WakeInv
      <3> QED BY <1>5, <3>1, <3>2
    <2> QED BY <2>1, <2>2
  <1>14. ListenerOK'
    <2> SUFFICES ASSUME NEW k \in Listeners
                 PROVE  /\ listeners'[k].pc # "idle" => /\ listeners'[k].principal \in Executions
                                                        /\ listeners'[k].attempt_id # 0
                        /\ listeners'[k].pc = "posted" => listeners'[k].outcome # "none"
      BY DEF ListenerOK
    <2>1. CASE k = l
      BY <1>2, <1>4, <2>1 DEF ListenerOK, WakeInv
    <2>2. CASE k # l
      BY <1>3, <2>2 DEF ListenerOK, WakeInv
    <2> QED BY <2>1, <2>2
  <1>15. NoRowNoTries' /\ Paced' /\ WakesSpaced'
    BY <1>1 DEF NoRowNoTries, Paced, WakesSpaced, WakeInv
  <1> QED BY <1>7, <1>9, <1>10, <1>11, <1>12, <1>13, <1>14, <1>15 DEF WakeInv

(* A report changes the rows of its own attempt only, and only while they  *)
(* dispatch.  When it says unavailable, no prompt of that attempt exists.  *)
LEMMA ReportPreserves ==
  ASSUME DeliveryInv, WakeInv, NEW l \in Listeners, Finish(l),
         requireCurrentExecution(listeners[l].principal)
  PROVE  WakeInv'
  <1> DEFINE w == listeners[l]
             Hit(x) == /\ x[1] = w.principal /\ attempts[x].attempt_id = w.attempt_id
                       /\ attempts[x].outcome = "dispatching"
  <1>1. /\ connections' = connections /\ issued' = issued /\ w.pc = "posted"
        /\ written' = written /\ messages' = messages /\ agents' = agents /\ now' = now
        /\ \A k \in Listeners : listeners'[k] = IF k = l THEN Listening ELSE listeners[k]
        /\ listeners' = [k \in Listeners |-> listeners'[k]]
    BY DEF Finish, vars, registryVars, deliveryVars, WakeInv, WakeTypeOK
  <1>2. /\ \A x \in WakeRows : attempts'[x] =
             IF Hit(x) THEN [attempts[x] EXCEPT !.outcome = w.outcome, !.updated_at = now]
             ELSE attempts[x]
        /\ attempts' = [x \in WakeRows |-> attempts'[x]]
    BY DEF Finish, FinishWake
  <1>3. w.outcome \in {"submitted", "unavailable", "uncertain"} /\ now \in Nat
    <2>1. w \in Listener /\ w.outcome # "none"
      BY <1>1 DEF WakeInv, WakeTypeOK, ListenerOK
    <2> QED BY <2>1 DEF Listener, DeliveryInv, DeliveryTypeOK, RegistryTypeOK
  <1>4. \A x \in WakeRows : attempts[x] \in Attempt
    BY DEF WakeInv, WakeTypeOK
  <1>5. \A x \in WakeRows :
          /\ attempts'[x] \in Attempt
          /\ attempts'[x].attempt_id = attempts[x].attempt_id
          /\ attempts'[x].tries = attempts[x].tries
          /\ Hit(x) => attempts'[x].outcome = w.outcome /\ attempts[x].outcome = "dispatching"
          /\ ~Hit(x) => attempts'[x] = attempts[x]
    BY <1>2, <1>3, <1>4 DEF Attempt
  <1> HIDE DEF Hit
  <1>6. WakeTypeOK'
    <2>1. attempts' \in [WakeRows -> Attempt]
      BY <1>2, <1>5
    <2>2. Listening \in Listener
      BY WakeAssumption DEF Listening, Listener
    <2>3. listeners' \in [Listeners -> Listener]
      BY <1>1, <2>2 DEF WakeInv, WakeTypeOK
    <2> QED BY <1>1, <2>1, <2>3 DEF WakeInv, WakeTypeOK
  <1>7. \A x \in WakeRows, i \in Nat : Live(x, i)' => Live(x, i)
    BY <1>1 DEF Live, InHand, Listening
  <1>8. OneLive'
    BY <1>7 DEF OneLive, WakeInv
  <1>9. OnRecord'
    <2> SUFFICES ASSUME NEW x \in WakeRows, NEW i \in Nat, Live(x, i),
                        messages[x[2]].state # "removed"
                 PROVE  attempts'[x].attempt_id = i /\ attempts'[x].outcome \in Standing
      BY <1>1, <1>7 DEF OnRecord
    <2>1. attempts[x].attempt_id = i /\ attempts[x].outcome \in Standing
      BY DEF OnRecord, WakeInv
    <2>2. CASE Hit(x) /\ w.outcome = "unavailable"
      <3>1. w.attempt_id = i
        BY <2>1, <2>2 DEF Hit
      <3>2. i \notin written[x]
        BY <1>1, <2>2, <3>1 DEF UnwrittenIds, Unwritten, WakeInv
      <3>3. PICK k \in Listeners : InHand(k, x) /\ listeners[k].attempt_id = i
        BY <3>2 DEF Live
      <3>4. k # l /\ listeners[k].pc # "idle"
        BY <1>1, <3>3 DEF InHand
      <3> QED BY <1>1, <3>1, <3>3, <3>4 DEF DistinctIds, WakeInv
    <2> QED BY <1>3, <1>5, <2>1, <2>2 DEF Standing
  <1>10. FreshIds'
    <2>1. 0 <= issued
      BY DEF WakeInv, WakeTypeOK
    <2> QED BY <1>1, <1>5, <2>1 DEF FreshIds, WakeInv, Listening
  <1>11. DistinctIds' /\ UnwrittenIds' /\ ListenerOK'
    BY <1>1 DEF DistinctIds, UnwrittenIds, ListenerOK, WakeInv, Unwritten, Listening
  <1>12. NoRowNoTries'
    BY <1>3, <1>5 DEF NoRowNoTries, WakeInv
  <1>13. \A x \in WakeRows :
           /\ attempts'[x].outcome # "none" => attempts[x].outcome # "none"
           /\ attempts'[x].outcome = "dispatching" => attempts'[x] = attempts[x]
    BY <1>3, <1>5
  <1>14. Paced'
    BY <1>1, <1>13 DEF Paced, WakeInv
  <1>15. WakesSpaced'
    BY <1>13 DEF WakesSpaced, WakeInv, WakeRows
  <1> QED BY <1>6, <1>8, <1>9, <1>10, <1>11, <1>12, <1>14, <1>15 DEF WakeInv

(* Somebody asks for another try: the attempts on record are live no more. *)
LEMMA RetryPreserves ==
  ASSUME DeliveryInv, WakeInv, NEW p \in KnownPrincipals, NEW S \in SUBSET MessageIds,
         RetryWake(p, S)
  PROVE  WakeInv'
  <1> DEFINE Asked(x) == x[1] = p /\ x[2] \in S
             Dropped(k, m) == /\ listeners[k].principal = p /\ m \in S
                              /\ listeners[k].attempt_id = attempts[<<p, m>>].attempt_id
  <1>1. /\ connections' = connections /\ issued' = issued
        /\ messages' = messages /\ agents' = agents
    BY DEF RetryWake, vars, registryVars, deliveryVars
  <1>2. /\ \A x \in WakeRows : attempts'[x] = IF Asked(x) THEN NoAttempt ELSE attempts[x]
        /\ attempts' = [x \in WakeRows |-> attempts'[x]]
    BY DEF RetryWake
  <1>3. /\ \A x \in WakeRows : written'[x] =
             IF Asked(x) THEN written[x] \ {attempts[x].attempt_id} ELSE written[x]
        /\ written' = [x \in WakeRows |-> written'[x]]
    BY DEF RetryWake
  <1>4. \A k \in Listeners : listeners[k] \in Listener
    BY DEF WakeInv, WakeTypeOK
  <1>5. /\ \A k \in Listeners : listeners'[k] = [listeners[k] EXCEPT
             !.batch = {m \in listeners[k].batch : ~Dropped(k, m)}]
        /\ listeners' = [k \in Listeners |-> listeners'[k]]
    <2>1. \A k \in Listeners : [listeners[k] EXCEPT !.batch = {m \in @ : ~Dropped(k, m)}]
            = [listeners[k] EXCEPT !.batch = {m \in listeners[k].batch : ~Dropped(k, m)}]
      BY <1>4 DEF Listener
    <2> QED BY <2>1 DEF RetryWake
  <1>6. \A k \in Listeners :
          /\ listeners'[k].pc = listeners[k].pc
          /\ listeners'[k].principal = listeners[k].principal
          /\ listeners'[k].attempt_id = listeners[k].attempt_id
          /\ listeners'[k].outcome = listeners[k].outcome
          /\ listeners'[k].batch = {m \in listeners[k].batch : ~Dropped(k, m)}
          /\ listeners'[k] \in Listener
    <2> SUFFICES ASSUME NEW k \in Listeners
                 PROVE  /\ listeners'[k].pc = listeners[k].pc
                        /\ listeners'[k].principal = listeners[k].principal
                        /\ listeners'[k].attempt_id = listeners[k].attempt_id
                        /\ listeners'[k].outcome = listeners[k].outcome
                        /\ listeners'[k].batch = {m \in listeners[k].batch : ~Dropped(k, m)}
                        /\ listeners'[k] \in Listener
      OBVIOUS
    <2> DEFINE kept == {m \in listeners[k].batch : ~Dropped(k, m)}
    <2>1. kept \in SUBSET MessageIds
      BY <1>4 DEF Listener
    <2>2. listeners'[k] = [listeners[k] EXCEPT !.batch = kept]
      BY <1>5
    <2>3. listeners[k] \in Listener
      BY <1>4
    <2> HIDE DEF kept
    <2>4. /\ listeners'[k].pc = listeners[k].pc
          /\ listeners'[k].principal = listeners[k].principal
          /\ listeners'[k].attempt_id = listeners[k].attempt_id
          /\ listeners'[k].outcome = listeners[k].outcome
          /\ listeners'[k].batch = kept /\ listeners'[k] \in Listener
      BY <2>1, <2>2, <2>3 DEF Listener
    <2> QED BY <2>4 DEF kept
  <1>7. NoAttempt \in Attempt
    BY WakeAssumption DEF NoAttempt, Attempt
  <1>8. WakeTypeOK'
    <2>1. attempts' \in [WakeRows -> Attempt]
      BY <1>2, <1>7 DEF WakeInv, WakeTypeOK
    <2>2. written' \in [WakeRows -> SUBSET (1..MaxAttempts)]
      <3>1. \A x \in WakeRows : written'[x] \in SUBSET (1..MaxAttempts)
        BY <1>3 DEF WakeInv, WakeTypeOK
      <3> QED BY <1>3, <3>1
    <2>3. listeners' \in [Listeners -> Listener]
      BY <1>5, <1>6
    <2> QED BY <1>1, <2>1, <2>2, <2>3 DEF WakeInv, WakeTypeOK
  <1>9. ASSUME NEW x \in WakeRows, NEW i \in Nat, Live(x, i)'
        PROVE  Live(x, i) /\ (Asked(x) => i # attempts[x].attempt_id)
    <2>1. CASE i \in written'[x]
      BY <1>3, <2>1 DEF Live
    <2>2. ASSUME NEW k \in Listeners, InHand(k, x)', listeners'[k].attempt_id = i
          PROVE  Live(x, i) /\ (Asked(x) => i # attempts[x].attempt_id)
      <3>1. /\ listeners[k].pc = "claimed" /\ listeners[k].principal = x[1]
            /\ x[2] \in listeners[k].batch /\ ~Dropped(k, x[2])
            /\ listeners[k].attempt_id = i
        BY <1>6, <2>2 DEF InHand
      <3>2. Live(x, i)
        BY <3>1 DEF Live, InHand
      <3>3. Asked(x) => x = <<p, x[2]>>
        BY RowParts
      <3> QED BY <3>1, <3>2, <3>3
    <2> QED BY <1>9, <2>1, <2>2 DEF Live
  <1>10. OneLive'
    BY <1>9 DEF OneLive, WakeInv
  <1>11. OnRecord'
    <2> SUFFICES ASSUME NEW x \in WakeRows, NEW i \in Nat, Live(x, i)',
                        messages[x[2]].state # "removed"
                 PROVE  attempts'[x].attempt_id = i /\ attempts'[x].outcome \in Standing
      BY <1>1 DEF OnRecord
    <2>1. attempts[x].attempt_id = i /\ attempts[x].outcome \in Standing
      BY <1>9 DEF OnRecord, WakeInv
    <2> QED BY <1>2, <1>9, <2>1
  <1>12. FreshIds'
    <2>1. 0 <= issued
      BY DEF WakeInv, WakeTypeOK
    <2> QED BY <1>1, <1>2, <1>3, <1>6, <2>1 DEF FreshIds, WakeInv, NoAttempt
  <1>13. DistinctIds' /\ UnwrittenIds' /\ ListenerOK'
    <2>1. \A x \in WakeRows : written'[x] \subseteq written[x]
      BY <1>3
    <2> QED BY <1>6, <2>1 DEF DistinctIds, UnwrittenIds, ListenerOK, WakeInv, Unwritten
  <1>14. NoRowNoTries'
    BY <1>2 DEF NoRowNoTries, WakeInv, NoAttempt
  <1>15. \A x \in WakeRows : attempts'[x].outcome # "none" => attempts'[x] = attempts[x]
    BY <1>2 DEF NoAttempt
  <1>16. Paced'
    BY <1>1, <1>15 DEF Paced, WakeInv
  <1>17. WakesSpaced'
    BY <1>15 DEF WakesSpaced, WakeInv, WakeRows
  <1> QED BY <1>8, <1>10, <1>11, <1>12, <1>13, <1>14, <1>16, <1>17 DEF WakeInv

(* A report that the bus refuses changes no row.                           *)
LEMMA FinishPreserves ==
  ASSUME DeliveryInv, WakeInv, NEW l \in Listeners, Finish(l)
  PROVE  WakeInv'
  <1>1. CASE requireCurrentExecution(listeners[l].principal)
    BY <1>1, ReportPreserves
  <1>2. CASE ~requireCurrentExecution(listeners[l].principal)
    <2>1. Crash(l)
      BY <1>2 DEF Finish, Crash
    <2> QED BY <2>1, CrashPreserves
  <1> QED BY <1>1, <1>2

-----------------------------------------------------------------------------
(* What the sweep makes of the rows.                                       *)
LEMMA SweptRows ==
  ASSUME DeliveryInv, WakeInv, NEW p \in KnownPrincipals, NEW x \in WakeRows
  PROVE  LET s == Swept(p)[x] IN
         /\ s \in Attempt
         /\ s.attempt_id = attempts[x].attempt_id /\ s.tries = attempts[x].tries
         /\ s = attempts[x] \/ (attempts[x].outcome = "dispatching" /\ s.outcome = "uncertain")
  <1>1. attempts[x] \in Attempt /\ now \in Nat
    BY DEF WakeInv, WakeTypeOK, DeliveryInv, DeliveryTypeOK, RegistryTypeOK
  <1>2. \/ Swept(p)[x] = attempts[x]
        \/ /\ attempts[x].outcome = "dispatching"
           /\ Swept(p)[x] = [attempts[x] EXCEPT !.outcome = "uncertain", !.updated_at = now]
    BY DEF Swept
  <1> QED BY <1>1, <1>2 DEF Attempt

(* A claim without an attempt sweeps, and connects.                        *)
LEMMA NothingDuePreserves ==
  ASSUME DeliveryInv, WakeInv, NEW p \in KnownPrincipals, requireCurrentExecution(p),
         attempts' = Swept(p), connections' = [connections EXCEPT ![p.agent] = Connected(p)],
         UNCHANGED <<issued, listeners, vars, written>>
  PROVE  WakeInv'
  <1>1. /\ issued' = issued /\ listeners' = listeners /\ written' = written
        /\ messages' = messages /\ agents' = agents
    BY DEF vars, registryVars, deliveryVars
  <1>2. p.agent \in Agents /\ p.execution \in Nat \ {0} /\ p \in Executions
    BY KnownExecutions
  <1>3. /\ connections \in [Agents -> [execution_id : Nat, last_attempt_at : Nat]]
        /\ agents[p.agent].execution_id = p.execution
    BY DEF WakeInv, WakeTypeOK, requireCurrentExecution
  <1>4. Connected(p) \in [execution_id : Nat, last_attempt_at : Nat]
        /\ Connected(p).execution_id = p.execution
    BY <1>2, <1>3 DEF Connected
  <1>5. \A x \in WakeRows :
          /\ attempts'[x] \in Attempt
          /\ attempts'[x].attempt_id = attempts[x].attempt_id
          /\ attempts'[x].tries = attempts[x].tries
          /\ \/ attempts'[x] = attempts[x]
             \/ attempts[x].outcome = "dispatching" /\ attempts'[x].outcome = "uncertain"
    BY SweptRows
  <1>6. WakeTypeOK'
    <2>1. attempts' = [x \in WakeRows |-> attempts'[x]]
      BY DEF Swept
    <2>2. attempts' \in [WakeRows -> Attempt]
      BY <1>5, <2>1
    <2>3. connections' \in [Agents -> [execution_id : Nat, last_attempt_at : Nat]]
      BY <1>2, <1>3, <1>4
    <2> QED BY <1>1, <2>2, <2>3 DEF WakeInv, WakeTypeOK
  <1>7. \A x \in WakeRows, i \in Nat : Live(x, i)' <=> Live(x, i)
    BY <1>1 DEF Live, InHand
  <1>8. OneLive'
    BY <1>7 DEF OneLive, WakeInv
  <1>9. OnRecord'
    <2>1. \A x \in WakeRows : attempts[x].outcome \in Standing
            => attempts'[x].outcome \in Standing
      BY <1>5 DEF Standing
    <2> QED BY <1>1, <1>5, <1>7, <2>1 DEF OnRecord, WakeInv
  <1>10. FreshIds' /\ NoRowNoTries'
    BY <1>1, <1>5 DEF FreshIds, NoRowNoTries, WakeInv
  <1>11. DistinctIds' /\ UnwrittenIds' /\ ListenerOK'
    BY <1>1 DEF DistinctIds, UnwrittenIds, ListenerOK, WakeInv
  <1>12. Paced'
    <2>1. \A a \in Agents : connections'[a] = IF a = p.agent THEN Connected(p) ELSE connections[a]
      BY <1>2, <1>3
    <2>2. ASSUME NEW a \in Agents PROVE connections'[a].execution_id <= agents'[a].execution_id
      BY <1>1, <1>2, <1>3, <1>4, <2>1 DEF Paced, WakeInv
    <2>3. ASSUME NEW x \in WakeRows
          PROVE  LET c == connections'[x[1].agent] IN
                 /\ attempts'[x].outcome # "none" => c.execution_id >= x[1].execution
                 /\ attempts'[x].outcome = "dispatching" /\ c.execution_id = x[1].execution =>
                      /\ attempts'[x].updated_at # 0
                      /\ attempts'[x].updated_at <= c.last_attempt_at
      <3>1. /\ x[1] \in Executions /\ x[1].agent \in Agents /\ x[1].execution \in Nat
            /\ connections[x[1].agent].execution_id \in Nat
        BY <1>3, RowParts
      <3>2. /\ attempts'[x].outcome # "none" =>
                 connections[x[1].agent].execution_id >= x[1].execution
            /\ attempts'[x].outcome = "dispatching" => attempts'[x] = attempts[x]
        BY <1>5 DEF Paced, WakeInv
      <3>3. CASE x[1].agent # p.agent
        <4>1. connections'[x[1].agent] = connections[x[1].agent]
          BY <2>1, <3>1, <3>3
        <4> QED BY <3>2, <4>1 DEF Paced, WakeInv
      <3>4. CASE x[1].agent = p.agent /\ connections[p.agent].execution_id = p.execution
        <4>1. connections'[x[1].agent] = connections[x[1].agent]
          BY <2>1, <3>1, <3>4 DEF Connected
        <4> QED BY <3>2, <4>1 DEF Paced, WakeInv
      <3>5. CASE x[1].agent = p.agent /\ connections[p.agent].execution_id # p.execution
        <4>1. connections[p.agent].execution_id < p.execution
          <5>1. connections[p.agent].execution_id <= agents[p.agent].execution_id
            BY <1>2 DEF Paced, WakeInv
          <5> QED BY <1>2, <1>3, <3>1, <3>5, <5>1
        <4>2. connections'[x[1].agent].execution_id = p.execution
          BY <1>4, <2>1, <3>1, <3>5
        <4> QED BY <1>2, <3>1, <3>2, <3>5, <4>1, <4>2
      <3> QED BY <3>3, <3>4, <3>5
    <2> QED BY <2>2, <2>3 DEF Paced
  <1>13. WakesSpaced'
    <2>1. \A x \in WakeRows : attempts'[x].outcome = "dispatching" => attempts'[x] = attempts[x]
      BY <1>5
    <2> QED BY <2>1 DEF WakesSpaced, WakeInv, WakeRows
  <1> QED BY <1>6, <1>8, <1>9, <1>10, <1>11, <1>12, <1>13 DEF WakeInv

(* A claim with an attempt: no attempt is live for a row that is due.      *)
LEMMA AttemptPreserves ==
  ASSUME DeliveryInv, WakeInv, NEW p \in KnownPrincipals, NEW l \in Listeners,
         listeners[l].pc = "idle", requireCurrentExecution(p), ~TooSoon(p),
         NEW batch \in SUBSET {m \in Available(messages, p.agent) : Due(p, m, Swept(p))},
         issued < MaxAttempts, issued' = issued + 1,
         attempts' = [x \in WakeRows |->
           IF x[1] = p /\ x[2] \in batch
           THEN [attempt_id |-> issued + 1, outcome |-> "dispatching",
                 tries |-> Swept(p)[x].tries + 1, updated_at |-> now]
           ELSE Swept(p)[x]],
         listeners' = [listeners EXCEPT ![l] =
           [pc |-> "claimed", principal |-> p, attempt_id |-> issued + 1,
            batch |-> batch, outcome |-> "none"]],
         connections' = [connections EXCEPT ![p.agent] =
           [execution_id |-> p.execution, last_attempt_at |-> now]],
         UNCHANGED <<vars, written>>
  PROVE  WakeInv'
  <1> DEFINE Taken(x) == x[1] = p /\ x[2] \in batch
  <1>1. written' = written /\ messages' = messages /\ agents' = agents
    BY DEF vars, registryVars, deliveryVars
  <1>2. p.agent \in Agents /\ p.execution \in Nat \ {0} /\ p \in Executions
    BY KnownExecutions
  <1>3. /\ connections \in [Agents -> [execution_id : Nat, last_attempt_at : Nat]]
        /\ agents[p.agent].execution_id = p.execution
        /\ connections[p.agent].execution_id <= p.execution
        /\ issued \in Nat /\ now \in Nat \ {0} /\ MaxAttempts \in Nat
    BY <1>2, WakeAssumption DEF WakeInv, WakeTypeOK, requireCurrentExecution, Paced,
       DeliveryInv, DeliveryTypeOK, RegistryTypeOK
  <1>4. \A x \in WakeRows :
          /\ Swept(p)[x] \in Attempt
          /\ Swept(p)[x].attempt_id = attempts[x].attempt_id
          /\ Swept(p)[x].tries = attempts[x].tries
          /\ \/ Swept(p)[x] = attempts[x]
             \/ attempts[x].outcome = "dispatching" /\ Swept(p)[x].outcome = "uncertain"
    BY SweptRows
  <1>5. \A x \in WakeRows :
          /\ Taken(x) => /\ attempts'[x].attempt_id = issued + 1
                         /\ attempts'[x].outcome = "dispatching"
                         /\ attempts'[x].tries = attempts[x].tries + 1
                         /\ attempts'[x].updated_at = now
          /\ ~Taken(x) => attempts'[x] = Swept(p)[x]
    BY <1>4
  <1>6. ASSUME NEW x \in WakeRows, Taken(x)
        PROVE  /\ attempts[x].outcome \in {"none", "unavailable"}
               /\ attempts[x].tries < WakeTries
               /\ messages[x[2]].state \in {"queued", "delivered"}
    <2>1. x = <<p, x[2]>> /\ x[2] \in MessageIds
      BY <1>6, RowParts
    <2>2. Due(p, x[2], Swept(p)) /\ x[2] \in Available(messages, p.agent)
      BY <1>6
    <2>3. messages[x[2]].state \in {"queued", "delivered"}
      BY <2>2 DEF Available
    <2>4. \/ Swept(p)[x].outcome = "none"
          \/ Swept(p)[x].outcome = "unavailable" /\ Swept(p)[x].tries < WakeTries
      BY <2>1, <2>2 DEF Due
    <2>5. \/ attempts[x].outcome = "none"
          \/ attempts[x].outcome = "unavailable" /\ attempts[x].tries < WakeTries
      BY <1>4, <2>4
    <2>6. attempts[x].outcome = "none" => attempts[x].tries < WakeTries
      BY WakeAssumption DEF WakeInv, NoRowNoTries
    <2> QED BY <2>3, <2>5, <2>6
  <1>7. /\ \A k \in Listeners \ {l} : listeners'[k] = listeners[k]
        /\ listeners'[l] = [pc |-> "claimed", principal |-> p, attempt_id |-> issued + 1,
                            batch |-> batch, outcome |-> "none"]
        /\ listeners' = [k \in Listeners |-> listeners'[k]]
    BY DEF WakeInv, WakeTypeOK
  <1>8. WakeTypeOK'
    <2>1. ASSUME NEW x \in WakeRows PROVE attempts'[x] \in Attempt
      <3>1. CASE Taken(x)
        <4>1. attempts[x].tries \in 0..WakeTries /\ attempts[x].tries < WakeTries
          BY <1>6, <3>1 DEF WakeInv, WakeTypeOK, Attempt
        <4>2. attempts[x].tries + 1 \in 0..WakeTries /\ issued + 1 \in 0..MaxAttempts
          BY <1>3, <4>1, WakeAssumption
        <4>3. attempts'[x] = [attempt_id |-> issued + 1, outcome |-> "dispatching",
                              tries |-> attempts[x].tries + 1, updated_at |-> now]
          BY <1>4, <3>1
        <4> QED BY <1>3, <4>2, <4>3 DEF Attempt
      <3> QED BY <1>4, <1>5, <3>1
    <2>2. attempts' \in [WakeRows -> Attempt]
      BY <2>1
    <2>3. listeners'[l] \in Listener
      <3>1. batch \in SUBSET MessageIds
        BY DEF Available
      <3>2. issued + 1 \in 0..MaxAttempts
        BY <1>3
      <3> QED BY <1>2, <1>7, <3>1, <3>2 DEF Listener
    <2>4. listeners' \in [Listeners -> Listener]
      BY <1>7, <2>3 DEF WakeInv, WakeTypeOK
    <2>5. connections' \in [Agents -> [execution_id : Nat, last_attempt_at : Nat]]
      BY <1>2, <1>3
    <2>6. issued' \in 0..MaxAttempts
      BY <1>3
    <2> QED BY <1>1, <2>2, <2>4, <2>5, <2>6 DEF WakeInv, WakeTypeOK
  <1>9. ASSUME NEW x \in WakeRows, NEW i \in Nat, Live(x, i)'
        PROVE  IF Taken(x) THEN i = issued + 1 ELSE Live(x, i)
    <2>1. ASSUME Taken(x) PROVE ~Live(x, i)
      <3>1. attempts[x].outcome \notin Standing /\ messages[x[2]].state # "removed"
        BY <1>6, <2>1 DEF Standing
      <3> QED BY <3>1 DEF OnRecord, WakeInv
    <2>2. CASE i \in written'[x]
      BY <1>1, <2>1, <2>2 DEF Live
    <2>3. ASSUME NEW k \in Listeners, InHand(k, x)', listeners'[k].attempt_id = i
          PROVE  IF Taken(x) THEN i = issued + 1 ELSE Live(x, i)
      <3>1. CASE k = l
        BY <1>7, <2>3, <3>1 DEF InHand
      <3>2. CASE k # l
        <4>1. Live(x, i)
          BY <1>7, <2>3, <3>2 DEF Live, InHand
        <4> QED BY <2>1, <4>1
      <3> QED BY <3>1, <3>2
    <2> QED BY <1>9, <2>2, <2>3 DEF Live
  <1>10. OneLive'
    <2> SUFFICES ASSUME NEW x \in WakeRows, NEW i \in Nat, NEW j \in Nat,
                        Live(x, i)', Live(x, j)'
                 PROVE  i = j
      BY DEF OneLive
    <2>1. CASE Taken(x)
      BY <1>9, <2>1
    <2>2. CASE ~Taken(x)
      BY <1>9, <2>2 DEF OneLive, WakeInv
    <2> QED BY <2>1, <2>2
  <1>11. OnRecord'
    <2> SUFFICES ASSUME NEW x \in WakeRows, NEW i \in Nat, Live(x, i)',
                        messages[x[2]].state # "removed"
                 PROVE  attempts'[x].attempt_id = i /\ attempts'[x].outcome \in Standing
      BY <1>1 DEF OnRecord
    <2>1. CASE Taken(x)
      BY <1>5, <1>9, <2>1 DEF Standing
    <2>2. CASE ~Taken(x)
      <3>1. attempts[x].attempt_id = i /\ attempts[x].outcome \in Standing
        BY <1>9, <2>2 DEF OnRecord, WakeInv
      <3> QED BY <1>4, <1>5, <2>2, <3>1 DEF Standing
    <2> QED BY <2>1, <2>2
  <1>12. FreshIds'
    <2>1. ASSUME NEW k \in Listeners PROVE listeners'[k].attempt_id <= issued'
      <3>1. listeners[k].attempt_id \in Nat /\ listeners[k].attempt_id <= issued
        BY DEF WakeInv, WakeTypeOK, FreshIds, Listener
      <3> QED BY <1>3, <1>7, <3>1
    <2>2. ASSUME NEW x \in WakeRows PROVE attempts'[x].attempt_id <= issued'
      <3>1. attempts[x].attempt_id \in Nat /\ attempts[x].attempt_id <= issued
        BY DEF WakeInv, WakeTypeOK, FreshIds, Attempt
      <3> QED BY <1>3, <1>4, <1>5, <3>1
    <2>3. ASSUME NEW x \in WakeRows, NEW i \in written'[x] PROVE i <= issued'
      <3>1. i \in Nat /\ i <= issued
        BY <1>1 DEF WakeInv, WakeTypeOK, FreshIds
      <3> QED BY <1>3, <3>1
    <2> QED BY <2>1, <2>2, <2>3 DEF FreshIds
  <1>13. \A k \in Listeners : listeners[k].attempt_id # issued + 1
    <2>1. \A k \in Listeners : listeners[k].attempt_id \in Nat
      BY DEF WakeInv, WakeTypeOK, Listener
    <2> QED BY <1>3, <2>1 DEF WakeInv, FreshIds
  <1>14. DistinctIds'
    BY <1>7, <1>13 DEF DistinctIds, WakeInv
  <1>15. UnwrittenIds'
    <2>1. \A x \in WakeRows : issued + 1 \notin written[x]
      BY <1>3 DEF WakeInv, FreshIds
    <2>2. ASSUME NEW k \in Listeners, NEW x \in WakeRows, Unwritten(listeners'[k])
          PROVE  listeners'[k].attempt_id \notin written'[x]
      BY <1>1, <1>7, <2>1, <2>2 DEF UnwrittenIds, WakeInv
    <2> QED BY <2>2 DEF UnwrittenIds
  <1>16. ListenerOK'
    <2>1. listeners'[l].principal \in Executions /\ listeners'[l].attempt_id # 0
          /\ listeners'[l].pc # "posted"
      BY <1>2, <1>3, <1>7
    <2> QED BY <1>7, <2>1 DEF ListenerOK, WakeInv
  <1>17. NoRowNoTries'
    BY <1>4, <1>5 DEF NoRowNoTries, WakeInv
  <1>18. \A x \in WakeRows : x[1] = p /\ attempts[x].outcome = "dispatching" =>
           attempts[x].updated_at \in Nat /\ attempts[x].updated_at + WakeSpacing <= now
    <2> SUFFICES ASSUME NEW x \in WakeRows, x[1] = p, attempts[x].outcome = "dispatching"
                 PROVE  attempts[x].updated_at \in Nat
                        /\ attempts[x].updated_at + WakeSpacing <= now
      OBVIOUS
    <2>1. connections[p.agent].execution_id >= p.execution
      BY DEF Paced, WakeInv
    <2>2. connections[p.agent].execution_id = p.execution
      <3>1. connections[p.agent].execution_id \in Nat
        BY <1>2, <1>3
      <3>2. connections[p.agent].execution_id <= p.execution /\ p.execution \in Nat
        BY <1>2, <1>3
      <3> QED BY <2>1, <3>1, <3>2
    <2>3. /\ attempts[x].updated_at # 0 /\ attempts[x].updated_at \in Nat
          /\ attempts[x].updated_at <= connections[p.agent].last_attempt_at
          /\ connections[p.agent].last_attempt_at \in Nat
      BY <1>2, <1>3, <2>2 DEF Paced, WakeInv, WakeTypeOK, Attempt
    <2>4. connections[p.agent].last_attempt_at + WakeSpacing <= now
      BY <1>2, <1>3, <2>2, <2>3, WakeAssumption DEF TooSoon, Connected
    <2> QED BY <1>3, <2>3, <2>4, WakeAssumption
  <1>19. Paced'
    <2>1. \A a \in Agents : connections'[a] =
            IF a = p.agent THEN [execution_id |-> p.execution, last_attempt_at |-> now]
            ELSE connections[a]
      BY <1>2, <1>3
    <2>2. ASSUME NEW a \in Agents PROVE connections'[a].execution_id <= agents'[a].execution_id
      BY <1>1, <1>2, <1>3, <2>1 DEF Paced, WakeInv
    <2>3. ASSUME NEW x \in WakeRows
          PROVE  LET c == connections'[x[1].agent] IN
                 /\ attempts'[x].outcome # "none" => c.execution_id >= x[1].execution
                 /\ attempts'[x].outcome = "dispatching" /\ c.execution_id = x[1].execution =>
                      /\ attempts'[x].updated_at # 0
                      /\ attempts'[x].updated_at <= c.last_attempt_at
      <3>1. /\ x[1] \in Executions /\ x[1].agent \in Agents /\ x[1].execution \in Nat
            /\ connections[x[1].agent].execution_id \in Nat
        BY <1>3, RowParts
      <3>2. CASE Taken(x)
        BY <1>2, <1>3, <1>5, <2>1, <3>1, <3>2
      <3>3. CASE ~Taken(x)
        <4>1. /\ attempts'[x].outcome # "none" =>
                   connections[x[1].agent].execution_id >= x[1].execution
              /\ attempts'[x].outcome = "dispatching" => attempts'[x] = attempts[x]
          BY <1>4, <1>5, <3>3 DEF Paced, WakeInv
        <4>2. CASE x[1].agent # p.agent
          <5>1. connections'[x[1].agent] = connections[x[1].agent]
            BY <2>1, <3>1, <4>2
          <5> QED BY <4>1, <5>1 DEF Paced, WakeInv
        <4>3. CASE x[1].agent = p.agent
          <5>1. /\ connections'[x[1].agent].execution_id = p.execution
                /\ connections'[x[1].agent].last_attempt_at = now
            BY <2>1, <3>1, <4>3
          <5>2. x[1].execution = p.execution => x[1] = p
            BY <1>2, <3>1, <4>3 DEF Executions
          <5>3. ASSUME attempts'[x].outcome = "dispatching", x[1].execution = p.execution
                PROVE  attempts'[x].updated_at # 0 /\ attempts'[x].updated_at <= now
            <6>1. attempts[x].updated_at \in Nat /\ attempts[x].updated_at + WakeSpacing <= now
              BY <1>18, <4>1, <5>2, <5>3
            <6>2. connections[p.agent].execution_id = p.execution
              <7>1. connections[p.agent].execution_id >= p.execution
                BY <4>1, <4>3, <5>3
              <7>2. connections[p.agent].execution_id \in Nat
                BY <1>2, <1>3
              <7>3. connections[p.agent].execution_id <= p.execution /\ p.execution \in Nat
                BY <1>2, <1>3
              <7> QED BY <7>1, <7>2, <7>3
            <6>3. attempts[x].updated_at # 0
              BY <4>1, <4>3, <5>3, <6>2 DEF Paced, WakeInv
            <6> QED BY <1>3, <4>1, <5>3, <6>1, <6>3, WakeAssumption
          <5> QED BY <1>2, <1>3, <3>1, <4>1, <4>3, <5>1, <5>3
        <4> QED BY <4>2, <4>3
      <3> QED BY <3>2, <3>3
    <2> QED BY <2>2, <2>3 DEF Paced
  <1>20. WakesSpaced'
    <2> SUFFICES ASSUME NEW q \in Executions, NEW m \in MessageIds, NEW n \in MessageIds,
                        attempts'[<<q, m>>].outcome = "dispatching",
                        attempts'[<<q, n>>].outcome = "dispatching",
                        attempts'[<<q, m>>].attempt_id < attempts'[<<q, n>>].attempt_id
                 PROVE  attempts'[<<q, m>>].updated_at + WakeSpacing
                          <= attempts'[<<q, n>>].updated_at
      BY DEF WakesSpaced
    <2> DEFINE x == <<q, m>>
               y == <<q, n>>
    <2>1. x \in WakeRows /\ y \in WakeRows /\ x[1] = q /\ y[1] = q
      BY DEF WakeRows
    <2>2. /\ attempts[x].attempt_id \in Nat /\ attempts[x].attempt_id <= issued
          /\ attempts[y].attempt_id \in Nat /\ attempts[y].attempt_id <= issued
      BY <2>1 DEF WakeInv, WakeTypeOK, FreshIds, Attempt
    <2> HIDE DEF x, y
    <2>3. CASE Taken(x)
      <3>1. attempts'[y].attempt_id <= issued + 1
        BY <1>3, <1>4, <1>5, <2>1, <2>2
      <3>2. attempts'[y].attempt_id \in Nat
        BY <1>3, <1>4, <1>5, <2>1, <2>2
      <3> QED BY <1>3, <1>5, <2>1, <2>3, <3>1, <3>2 DEF x, y
    <2>4. CASE ~Taken(x)
      <3>1. attempts'[x] = attempts[x]
        BY <1>4, <1>5, <2>1, <2>4 DEF x
      <3>2. CASE Taken(y)
        BY <1>5, <1>18, <2>1, <3>1, <3>2 DEF x, y
      <3>3. CASE ~Taken(y)
        <4>1. attempts'[y] = attempts[y]
          BY <1>4, <1>5, <2>1, <3>3 DEF y
        <4> QED BY <3>1, <4>1 DEF x, y, WakesSpaced, WakeInv
      <3> QED BY <3>2, <3>3
    <2> QED BY <2>3, <2>4
  <1> QED BY <1>8, <1>10, <1>11, <1>12, <1>14, <1>15, <1>16, <1>17, <1>19, <1>20 DEF WakeInv

(* A claim.                                                                *)
LEMMA ClaimPreserves ==
  ASSUME DeliveryInv, WakeInv, NEW l \in Listeners, NEW p \in KnownPrincipals,
         ClaimWake(l, p)
  PROVE  WakeInv'
  <1> DEFINE due == {m \in Available(messages, p.agent) : Due(p, m, Swept(p))}
  <1>1. \A batch \in OldestFirst(messages, due, WakeBatch) : batch \in SUBSET due
    BY DEF OldestFirst
  <1>2. CASE issued' = issued
    BY <1>2, NothingDuePreserves DEF ClaimWake, WakeInv, WakeTypeOK
  <1>3. CASE issued' # issued
    <2>1. PICK batch \in OldestFirst(messages, due, WakeBatch) :
            /\ attempts' = [x \in WakeRows |->
                 IF x[1] = p /\ x[2] \in batch
                 THEN [attempt_id |-> issued + 1, outcome |-> "dispatching",
                       tries |-> Swept(p)[x].tries + 1, updated_at |-> now]
                 ELSE Swept(p)[x]]
            /\ listeners' = [listeners EXCEPT ![l] =
                 [pc |-> "claimed", principal |-> p, attempt_id |-> issued + 1,
                  batch |-> batch, outcome |-> "none"]]
      BY <1>3 DEF ClaimWake
    <2>2. /\ listeners[l].pc = "idle" /\ requireCurrentExecution(p) /\ ~TooSoon(p)
          /\ issued < MaxAttempts /\ issued' = issued + 1
          /\ connections' = [connections EXCEPT ![p.agent] =
               [execution_id |-> p.execution, last_attempt_at |-> now]]
          /\ UNCHANGED <<vars, written>>
      BY <1>3 DEF ClaimWake
    <2> QED BY <1>1, <2>1, <2>2, AttemptPreserves
  <1> QED BY <1>2, <1>3

-----------------------------------------------------------------------------
(* The invariant holds initially.                                          *)
LEMMA WakeInitInv == WakeInit => WakeInv
  <1> SUFFICES ASSUME WakeTablesInit, DeliveryInit PROVE WakeInv
    BY DEF WakeInit
  <1>1. NoAttempt \in Attempt /\ Listening \in Listener
    BY WakeAssumption DEF NoAttempt, Attempt, Listening, Listener
  <1>2. WakeTypeOK
    BY <1>1, WakeAssumption DEF WakeTablesInit, WakeTypeOK
  <1>3. /\ \A x \in WakeRows : attempts[x] = NoAttempt /\ written[x] = {}
        /\ \A l \in Listeners : listeners[l] = Listening
        /\ issued = 0
    BY DEF WakeTablesInit
  <1>4. OneLive /\ OnRecord
    BY <1>3 DEF OneLive, OnRecord, Live, InHand, Listening
  <1>5. FreshIds /\ DistinctIds /\ UnwrittenIds /\ ListenerOK /\ NoRowNoTries
    BY <1>3 DEF FreshIds, DistinctIds, UnwrittenIds, ListenerOK, NoRowNoTries, Unwritten,
                Listening, NoAttempt
  <1>6. Paced
    <2>1. \A a \in Agents : agents[a].execution_id \in Nat /\ connections[a].execution_id = 0
      BY DEF DeliveryInit, RegistryInit, NoAgent, WakeTablesInit
    <2> QED BY <1>3, <2>1 DEF Paced, NoAttempt
  <1>7. WakesSpaced
    BY <1>3 DEF WakesSpaced, WakeRows, NoAttempt
  <1> QED BY <1>2, <1>4, <1>5, <1>6, <1>7 DEF WakeInv

(* The invariant is inductive, relative to that of the tables below.       *)
LEMMA WakeInvPreserved ==
  ASSUME DeliveryInv, DeliveryInv', WakeInv, [WakeNext]_<<vars, wakeVars>>
  PROVE  WakeInv'
  <1>1. CASE UNCHANGED <<vars, wakeVars>>
    <2>1. /\ now' = now /\ agents' = agents /\ messages' = messages
          /\ connections' = connections /\ attempts' = attempts /\ issued' = issued
          /\ listeners' = listeners /\ written' = written
      BY <1>1 DEF vars, registryVars, deliveryVars, wakeVars
    <2>2. WakeTypeOK' /\ FreshIds' /\ DistinctIds' /\ NoRowNoTries'
      BY <2>1 DEF WakeInv, WakeTypeOK, FreshIds, DistinctIds, NoRowNoTries
    <2>3. OneLive' /\ OnRecord'
      BY <2>1 DEF WakeInv, OneLive, OnRecord, Live, InHand
    <2>4. UnwrittenIds' /\ ListenerOK'
      BY <2>1 DEF WakeInv, UnwrittenIds, Unwritten, ListenerOK
    <2>5. Paced' /\ WakesSpaced'
      BY <2>1 DEF WakeInv, Paced, WakesSpaced
    <2> QED BY <2>2, <2>3, <2>4, <2>5 DEF WakeInv
  <1> QED BY <1>1, TablesPreserve, ClaimPreserves, PostPreserves, FinishPreserves,
             CrashPreserves, RetryPreserves DEF WakeNext

(* It holds in every reachable state.                                      *)
LEMMA WakeInvHolds == WakeSpec => []WakeInv
  <1>1. WakeSpec => []DeliveryInv
    BY WakeIsDelivery, InvHolds, PTL
  <1> QED BY <1>1, WakeInitInv, WakeInvPreserved, PTL DEF WakeSpec

(* Types, and the limit on tries at an unavailable provider.               *)
THEOREM WakeTypeCorrectness == WakeSpec => []WakeTypeOK
  BY WakeInvHolds, PTL DEF WakeInv

(* "uncertain/submitted attempts never automatically replay"               *)
(* (spec/0.1/http.md): whatever listeners crash, overlap, lose answers or  *)
(* report late, a session is prompted again about a message only after an  *)
(* explicit retry.                                                         *)
THEOREM NoAutomaticReplay == WakeSpec => []ReplayOnlyOnRequest
  <1>1. WakeInv => ReplayOnlyOnRequest
    <2> SUFFICES ASSUME WakeInv, NEW x \in WakeRows, NEW i \in written[x], NEW j \in written[x]
                 PROVE  i = j
      BY DEF ReplayOnlyOnRequest
    <2>1. i \in Nat /\ j \in Nat
      BY DEF WakeInv, WakeTypeOK
    <2> QED BY <2>1 DEF WakeInv, OneLive, Live
  <1> QED BY <1>1, WakeInvHolds, PTL

(* A prompt that may have arrived stays on record.                         *)
THEOREM PromptsStayOnRecord == WakeSpec => []UncertaintyKept
  <1>1. WakeInv => UncertaintyKept
    <2> SUFFICES ASSUME WakeInv, NEW x \in WakeRows, NEW i \in written[x],
                        messages[x[2]].state # "removed"
                 PROVE  attempts[x].outcome \in Standing
      BY DEF UncertaintyKept, Standing
    <2>1. i \in Nat
      BY DEF WakeInv, WakeTypeOK
    <2> QED BY <2>1 DEF WakeInv, OnRecord, Live
  <1> QED BY <1>1, WakeInvHolds, PTL

(* Attempts of an execution under way at once began WakeSpacing apart.     *)
THEOREM SubmissionsAreSpaced == WakeSpec => []WakesSpaced
  BY WakeInvHolds, PTL DEF WakeInv

(* Nothing that may have reached a provider is repeated unasked or struck  *)
(* from the record, for every number of listeners and messages.            *)
THEOREM PromptsAreSound == WakeSpec => []PromptsSound
  BY NoAutomaticReplay, PromptsStayOnRecord, PTL DEF PromptsSound

(* Tries are limited and spaced, for every limit and spacing.              *)
THEOREM AttemptsAreBounded == WakeSpec => []AttemptsBounded
  BY WakeTypeCorrectness, SubmissionsAreSpaced, PTL DEF AttemptsBounded

-----------------------------------------------------------------------------
(* The long poll of the inbox.                                             *)

(* Every request in flight is a known execution's, and it is subscribed    *)
(* from Subscribe to the return or the next turn.                          *)
CallsOK ==
  /\ IsFiniteSet(Callers)
  /\ \A w \in Waiters :
       /\ InCall(w) => waiters[w].principal \in KnownPrincipals
       /\ waiters[w].channel = None <=> waiters[w].pc \in {"idle", "subscribe"}

(* No two agents share a channel.                                          *)
OwnChannels ==
  \A a, b \in Agents :
    a # b /\ signals[a].channel = signals[b].channel => signals[a].channel = None

PlaceInv == PlacesExact /\ CallsOK /\ OwnChannels

(* Nothing that its agent was notified of, or is going to be, is behind    *)
(* the request.                                                            *)
Untold(w) == waiters[w].channel \notin closed /\ pending[AgentOf(w)] = 0

(* Whoever ends an execution tells its waiters; a heartbeat may shorten    *)
(* the lease, but not to before the deadline.                              *)
StillCurrent(w) ==
  /\ agents[AgentOf(w)].execution_id = waiters[w].principal.execution
  /\ \/ waiters[w].lease <= agents[AgentOf(w)].lease_expires_at
     \/ waiters[w].deadline <= agents[AgentOf(w)].lease_expires_at

(* A deadline is closer than any lease or reservation made from now on,    *)
(* and a parked request wakes before it, before the lease it looked at and *)
(* before every reservation of its agent runs out.                         *)
TimersOK(w) ==
  /\ InCall(w) => /\ \A leaseMS \in LeaseTimes : waiters[w].deadline < now + leaseMS
                  /\ waiters[w].deadline <= now + ReservationTTL
  /\ waiters[w].pc = "parked" =>
       /\ waiters[w].wake_at <= waiters[w].deadline
       /\ waiters[w].wake_at <= waiters[w].lease
       /\ \A r \in HeldBy(AgentOf(w)) : waiters[w].wake_at <= reservations[r].expires_at
  /\ waiters[w].pc \in {"reserve", "arm", "parked"} /\ Untold(w) => StillCurrent(w)

WaitInv == DeliveryInv /\ PlaceInv /\ \A w \in Waiters : TimersOK(w)

(* What was found empty stays empty, until somebody is told, the timer     *)
(* goes off or a reservation runs out before there is a timer.             *)
NothingQueued(a) == \A m \in Available(messages, a) : messages[m].state # "queued"

Quiet(a) == \A r \in HeldBy(a) : reservations[r].expires_at > now

EmptyOK(w) ==
  /\ waiters[w].pc = "arm" /\ w \notin lapsed => Quiet(AgentOf(w))
  /\ /\ waiters[w].pc \in {"arm", "parked"} /\ w \notin lapsed /\ Untold(w)
     /\ waiters[w].pc = "parked" => waiters[w].wake_at > now
     => NothingQueued(AgentOf(w))

-----------------------------------------------------------------------------
(* One element more or less.                                               *)
LEMMA OneLess ==
  ASSUME NEW S, IsFiniteSet(S), NEW x \in S
  PROVE  /\ IsFiniteSet(S \ {x})
         /\ Cardinality(S) \in Nat \ {0}
         /\ Cardinality(S \ {x}) = Cardinality(S) - 1
         /\ Cardinality(S) = 1 <=> S \ {x} = {}
  <1>1. IsFiniteSet(S \ {x}) /\ Cardinality(S \ {x}) = Cardinality(S) - 1
    BY FS_RemoveElement
  <1>2. Cardinality(S) \in Nat /\ Cardinality(S \ {x}) \in Nat
    BY <1>1, FS_CardinalityType
  <1>3. Cardinality(S \ {x}) = 0 <=> S \ {x} = {}
    BY <1>1, FS_EmptySet
  <1> QED BY <1>1, <1>2, <1>3

(* One element more counts one more.                                       *)
LEMMA OneMore ==
  ASSUME NEW S, IsFiniteSet(S), NEW x, x \notin S
  PROVE  /\ IsFiniteSet(S \cup {x})
         /\ Cardinality(S) \in Nat
         /\ Cardinality(S \cup {x}) = Cardinality(S) + 1
         /\ Cardinality(S) = 0 <=> S = {}
  BY FS_AddElement, FS_CardinalityType, FS_EmptySet

(* Subsets of the callers are finite.                                      *)
LEMMA CallersFinite ==
  ASSUME CallsOK
  PROVE  \A a : /\ IsFiniteSet(CallersOf(a)) /\ IsFiniteSet(Subscribers(a))
                /\ Cardinality(CallersOf(a)) \in Nat /\ Cardinality(Subscribers(a)) \in Nat
  <1> TAKE a
  <1>1. CallersOf(a) \subseteq Callers /\ Subscribers(a) \subseteq Callers
    BY DEF CallersOf, Subscribers
  <1> QED BY <1>1, FS_Subset, FS_CardinalityType DEF CallsOK

(* Who a request in flight is.                                             *)
LEMMA CallerType ==
  ASSUME WaitTypeOK, CallsOK, NEW w \in Waiters, InCall(w)
  PROVE  /\ waiters[w].principal \in KnownPrincipals /\ AgentOf(w) \in Agents
         /\ waiters[w] \in Waiter /\ w \in Callers /\ w \in CallersOf(AgentOf(w))
  BY DEF WaitTypeOK, CallsOK, KnownPrincipals, AgentOf, Callers, CallersOf

(* A request gives up its subscription: every other listener keeps the     *)
(* channel it has.                                                         *)
LEMMA Unsubscribed ==
  ASSUME PlaceInv, NEW w \in Waiters, InCall(w), waiters[w].channel # None,
         signals' = unsubscribe(w, AgentOf(w)), closed' = closed,
         \A v \in Waiters \ {w} : waiters'[v] = waiters[v],
         waiters'[w].channel = None
  PROVE  /\ signals' \in [Agents -> [channel : ChannelIds \cup {None}, waiters : Nat]]
         /\ SignalsExact' /\ OwnChannels'
  <1>0. PICK a : a = AgentOf(w)
    OBVIOUS
  <1>1. /\ a \in Agents /\ w \in CallersOf(a) /\ WaitTypeOK /\ CallsOK
    BY <1>0, CallerType DEF PlaceInv, PlacesExact
  <1>2. Subscribers(a)' = Subscribers(a) \ {w}
    <2>1. w \notin Subscribers(a)'
      BY DEF Subscribers
    <2>2. \A v \in Waiters \ {w} : v \in Subscribers(a)' <=> v \in Subscribers(a)
      BY DEF Subscribers, CallersOf, Callers, InCall, AgentOf
    <2>3. Subscribers(a)' \subseteq Waiters /\ Subscribers(a) \subseteq Waiters
      BY DEF Subscribers, CallersOf, Callers
    <2> QED BY <2>1, <2>2, <2>3
  <1>3. ASSUME NEW b \in Agents \ {a}
        PROVE  Subscribers(b)' = Subscribers(b)
    <2>1. w \notin Subscribers(b)' /\ w \notin Subscribers(b)
      BY <1>0 DEF Subscribers, CallersOf
    <2>2. \A v \in Waiters \ {w} : v \in Subscribers(b)' <=> v \in Subscribers(b)
      BY DEF Subscribers, CallersOf, Callers, InCall, AgentOf
    <2>3. Subscribers(b)' \subseteq Waiters /\ Subscribers(b) \subseteq Waiters
      BY DEF Subscribers, CallersOf, Callers
    <2> QED BY <2>1, <2>2, <2>3
  <1>4. IsFiniteSet(Subscribers(a))
    BY <1>1, CallersFinite
  <1>5. \A b \in Agents : \A v \in Subscribers(b)' :
          v \in Subscribers(b) /\ waiters'[v].channel = waiters[v].channel
    BY DEF Subscribers, CallersOf, Callers, InCall, AgentOf
  <1>6. /\ signals[a].waiters = Cardinality(Subscribers(a))
        /\ \A v \in Subscribers(a) : waiters[v].channel = signals[a].channel
        /\ signals[a].channel = None <=> Subscribers(a) = {}
        /\ signals[a] \in [channel : ChannelIds \cup {None}, waiters : Nat]
        /\ None \notin ChannelIds
    BY <1>1, WaitAssumption DEF PlaceInv, PlacesExact, SignalsExact, WaitTypeOK
  <1>7. CASE w \in Subscribers(a)
    <2>1. signals[a].channel = waiters[w].channel
      BY <1>6, <1>7
    <2>2. /\ signals' = [signals EXCEPT ![a] =
               IF signals[a].waiters = 1 THEN NoSignal
               ELSE [channel |-> signals[a].channel, waiters |-> signals[a].waiters - 1]]
      BY <1>0, <2>1 DEF unsubscribe
    <2>3. /\ Cardinality(Subscribers(a)) \in Nat \ {0}
          /\ Cardinality(Subscribers(a) \ {w}) = Cardinality(Subscribers(a)) - 1
          /\ Cardinality(Subscribers(a)) = 1 <=> Subscribers(a) \ {w} = {}
      BY <1>4, <1>7, OneLess
    <2>4. /\ signals'[a] \in [channel : {signals[a].channel, None}, waiters : Nat]
          /\ signals'[a].waiters = Cardinality(Subscribers(a)')
          /\ signals'[a].channel = None <=> Subscribers(a)' = {}
      BY <1>1, <1>2, <1>6, <1>7, <2>2, <2>3 DEF NoSignal, WaitTypeOK
    <2>5. \A b \in Agents \ {a} : signals'[b] = signals[b]
      BY <1>1, <2>2 DEF WaitTypeOK
    <2>6. signals' \in [Agents -> [channel : ChannelIds \cup {None}, waiters : Nat]]
      BY <1>1, <1>6, <2>2, <2>4 DEF WaitTypeOK
    <2>7. SignalsExact'
      <3>1. signals'[a].channel \in {signals[a].channel, None}
        BY <2>4
      <3>2. \A v \in Subscribers(a)' : waiters'[v].channel = signals'[a].channel
        BY <1>5, <1>6, <2>4, <3>1, <1>1
      <3>3. signals'[a].waiters = Cardinality(Subscribers(a)')
            /\ (signals'[a].channel = None <=> Subscribers(a)' = {})
        BY <2>4
      <3>4. \A b \in Agents \ {a} :
              /\ signals'[b].waiters = Cardinality(Subscribers(b)')
              /\ \A v \in Subscribers(b)' : waiters'[v].channel = signals'[b].channel
              /\ signals'[b].channel = None <=> Subscribers(b)' = {}
        BY <1>3, <1>5, <2>5 DEF SignalsExact, PlaceInv, PlacesExact
      <3> QED BY <3>2, <3>3, <3>4 DEF SignalsExact
    <2>8. OwnChannels'
      <3>1. signals'[a].channel \in {signals[a].channel, None}
        BY <2>4
      <3> QED BY <1>1, <2>5, <3>1 DEF OwnChannels, PlaceInv
    <2> QED BY <2>6, <2>7, <2>8
  <1>8. CASE w \notin Subscribers(a)
    <2>1. Subscribers(a)' = Subscribers(a)
      BY <1>2, <1>8
    <2>2. waiters[w].channel \in closed
      BY <1>1, <1>8 DEF Subscribers
    <2>3. signals[a].channel # waiters[w].channel
      BY <1>6, <2>2 DEF Subscribers
    <2>4. signals' = signals
      BY <1>0, <2>3 DEF unsubscribe
    <2>5. SignalsExact'
      <3>1. \A b \in Agents : Subscribers(b)' = Subscribers(b)
        BY <1>3, <2>1
      <3> QED BY <1>5, <2>4, <3>1 DEF SignalsExact, PlaceInv, PlacesExact
    <2> QED BY <1>1, <2>4, <2>5 DEF OwnChannels, PlaceInv, WaitTypeOK
  <1> QED BY <1>7, <1>8

(* A request returns.                                                      *)
LEMMA ReturnPlaces ==
  ASSUME PlaceInv, NEW w \in Waiters, InCall(w), waiters[w].channel # None,
         Return(w), pending' \in [Agents -> Nat]
  PROVE  PlaceInv'
  <1>0. PICK a : a = AgentOf(w)
    OBVIOUS
  <1>1. /\ a \in Agents /\ w \in Callers /\ w \in CallersOf(a) /\ WaitTypeOK /\ CallsOK
        /\ BudgetExact
    BY <1>0, CallerType DEF PlaceInv, PlacesExact
  <1>2. /\ waiters' = [waiters EXCEPT ![w] = Idle]
        /\ signals' = unsubscribe(w, AgentOf(w))
        /\ budget' = [budget EXCEPT !.agent[a] = @ - 1, !.scope = @ - 1]
        /\ closed' = closed
    BY <1>0 DEF Return
  <1>3. /\ waiters'[w] = Idle
        /\ \A v \in Waiters \ {w} : waiters'[v] = waiters[v]
    BY <1>1, <1>2 DEF WaitTypeOK
  <1>4. /\ signals' \in [Agents -> [channel : ChannelIds \cup {None}, waiters : Nat]]
        /\ SignalsExact' /\ OwnChannels'
    BY <1>2, <1>3, Unsubscribed DEF Idle
  <1>5. Callers' = Callers \ {w}
    BY <1>3 DEF Callers, InCall, Idle
  <1>6. CallersOf(a)' = CallersOf(a) \ {w}
    BY <1>3, <1>5 DEF CallersOf, Callers, AgentOf
  <1>7. ASSUME NEW b \in Agents \ {a} PROVE CallersOf(b)' = CallersOf(b)
    <2>1. w \notin CallersOf(b)' /\ w \notin CallersOf(b)
      BY <1>0, <1>5 DEF CallersOf
    <2>2. \A v \in Waiters \ {w} : v \in CallersOf(b)' <=> v \in CallersOf(b)
      BY <1>3, <1>5 DEF CallersOf, AgentOf
    <2>3. CallersOf(b)' \subseteq Waiters /\ CallersOf(b) \subseteq Waiters
      BY DEF CallersOf, Callers
    <2> QED BY <2>1, <2>2, <2>3
  <1>8. /\ IsFiniteSet(Callers) /\ IsFiniteSet(CallersOf(a))
    BY <1>1, CallersFinite DEF CallsOK
  <1>9. /\ IsFiniteSet(Callers') /\ Cardinality(Callers') = Cardinality(Callers) - 1
        /\ Cardinality(Callers) \in Nat \ {0}
    BY <1>1, <1>5, <1>8, OneLess
  <1>10. /\ Cardinality(CallersOf(a)') = Cardinality(CallersOf(a)) - 1
         /\ Cardinality(CallersOf(a)) \in Nat \ {0}
    BY <1>1, <1>6, <1>8, OneLess
  <1>11. BudgetExact' /\ budget' \in [agent : [Agents -> Nat], scope : Nat]
    <2>1. budget \in [agent : [Agents -> Nat], scope : Nat]
      BY <1>1 DEF WaitTypeOK
    <2>2. /\ budget'.scope = budget.scope - 1
          /\ budget'.agent = [budget.agent EXCEPT ![a] = budget.agent[a] - 1]
          /\ budget' = [agent |-> budget'.agent, scope |-> budget'.scope]
      BY <1>2, <2>1
    <2>3. budget.scope = Cardinality(Callers)
          /\ \A b \in Agents : budget.agent[b] = Cardinality(CallersOf(b))
      BY <1>1 DEF BudgetExact
    <2>4. budget'.scope = Cardinality(Callers') /\ budget'.scope \in Nat
      BY <1>9, <2>2, <2>3
    <2>5. /\ budget'.agent[a] = Cardinality(CallersOf(a)') /\ budget'.agent[a] \in Nat
          /\ \A b \in Agents \ {a} : budget'.agent[b] = budget.agent[b]
          /\ budget'.agent \in [Agents -> Nat]
      BY <1>1, <1>10, <2>1, <2>2, <2>3
    <2>6. BudgetExact'
      BY <1>7, <2>3, <2>4, <2>5 DEF BudgetExact
    <2> QED BY <2>2, <2>4, <2>5, <2>6
  <1>12. WaitTypeOK'
    <2>1. waiters' \in [Waiters -> Waiter]
      BY <1>1, <1>2 DEF WaitTypeOK, Waiter, Idle
    <2> QED BY <1>1, <1>2, <1>4, <1>11, <2>1 DEF WaitTypeOK
  <1>13. CallsOK'
    BY <1>1, <1>3, <1>9 DEF CallsOK, InCall, Idle
  <1> QED BY <1>4, <1>11, <1>12, <1>13 DEF PlaceInv, PlacesExact

(* A request that stays in flight for the same execution keeps its place   *)
(* in the budget.                                                          *)
LEMMA StaysInFlight ==
  ASSUME PlaceInv, NEW w \in Waiters, InCall(w), InCall(w)', budget' = budget,
         \A v \in Waiters \ {w} : waiters'[v] = waiters[v],
         waiters'[w].principal = waiters[w].principal
  PROVE  /\ Callers' = Callers /\ (\A b : CallersOf(b)' = CallersOf(b))
         /\ BudgetExact' /\ IsFiniteSet(Callers)
  <1>1. Callers' = Callers
    BY DEF Callers, InCall
  <1>2. ASSUME NEW b PROVE CallersOf(b)' = CallersOf(b)
    BY <1>1 DEF CallersOf, Callers, AgentOf
  <1> QED BY <1>1, <1>2 DEF BudgetExact, PlaceInv, PlacesExact, CallsOK

(* A request starts over.                                                  *)
LEMMA StartOverPlaces ==
  ASSUME PlaceInv, NEW w \in Waiters, InCall(w), waiters[w].channel # None,
         StartOver(w), pending' \in [Agents -> Nat]
  PROVE  PlaceInv'
  <1>1. WaitTypeOK /\ CallsOK /\ waiters[w] \in Waiter /\ waiters[w].principal \in KnownPrincipals
    BY CallerType DEF PlaceInv, PlacesExact
  <1>2. /\ waiters' = [waiters EXCEPT ![w] = [waiters[w] EXCEPT !.pc = "subscribe",
                         !.channel = None, !.lease = 0, !.wake_at = 0]]
        /\ signals' = unsubscribe(w, AgentOf(w))
        /\ budget' = budget /\ closed' = closed
    BY DEF StartOver
  <1>3. /\ waiters'[w] \in Waiter /\ waiters'[w].pc = "subscribe" /\ waiters'[w].channel = None
        /\ waiters'[w].principal = waiters[w].principal
        /\ waiters' \in [Waiters -> Waiter]
        /\ \A v \in Waiters \ {w} : waiters'[v] = waiters[v]
    BY <1>1, <1>2 DEF WaitTypeOK, Waiter
  <1>4. /\ signals' \in [Agents -> [channel : ChannelIds \cup {None}, waiters : Nat]]
        /\ SignalsExact' /\ OwnChannels'
    BY <1>2, <1>3, Unsubscribed
  <1>5. Callers' = Callers /\ BudgetExact' /\ IsFiniteSet(Callers)
    BY <1>2, <1>3, StaysInFlight DEF InCall
  <1>6. WaitTypeOK'
    BY <1>1, <1>2, <1>3, <1>4 DEF WaitTypeOK
  <1>7. CallsOK'
    BY <1>1, <1>3, <1>5 DEF CallsOK, InCall
  <1> QED BY <1>4, <1>5, <1>6, <1>7 DEF PlaceInv, PlacesExact

(* A subscribed request goes on to its next step.                          *)
LEMMA MovePlaces ==
  ASSUME PlaceInv, NEW w \in Waiters, NEW x \in Waiter, waiters[w].channel # None,
         x.pc \notin {"idle", "subscribe"},
         x.principal = waiters[w].principal, x.channel = waiters[w].channel,
         waiters' = [waiters EXCEPT ![w] = x],
         UNCHANGED <<budget, signals, closed>>, pending' \in [Agents -> Nat]
  PROVE  PlaceInv'
  <1>1. WaitTypeOK /\ CallsOK /\ SignalsExact /\ OwnChannels
    BY DEF PlaceInv, PlacesExact
  <1>2. /\ waiters'[w] = x /\ waiters' \in [Waiters -> Waiter]
        /\ \A v \in Waiters \ {w} : waiters'[v] = waiters[v]
    BY <1>1 DEF WaitTypeOK
  <1>3. InCall(w) /\ InCall(w)'
    BY <1>1, <1>2 DEF CallsOK, InCall
  <1>4. /\ Callers' = Callers /\ BudgetExact' /\ IsFiniteSet(Callers)
        /\ \A b : CallersOf(b)' = CallersOf(b)
    BY <1>2, <1>3, StaysInFlight
  <1>5. \A v \in Waiters : waiters'[v].channel = waiters[v].channel
    BY <1>2
  <1>6. ASSUME NEW b PROVE Subscribers(b)' = Subscribers(b)
    <2>1. CallersOf(b)' = CallersOf(b) /\ CallersOf(b) \subseteq Waiters /\ closed' = closed
      BY <1>4 DEF CallersOf, Callers
    <2>2. \A v \in CallersOf(b) : waiters'[v].channel = waiters[v].channel
      BY <1>5, <2>1
    <2> QED BY <2>1, <2>2 DEF Subscribers
  <1>7. \A b : Subscribers(b) \subseteq Waiters
    BY DEF Subscribers, CallersOf, Callers
  <1>8. SignalsExact'
    BY <1>1, <1>5, <1>6, <1>7 DEF SignalsExact
  <1>9. WaitTypeOK' /\ OwnChannels'
    BY <1>1, <1>2 DEF WaitTypeOK, OwnChannels
  <1>10. CallsOK'
    BY <1>1, <1>2, <1>3, <1>4 DEF CallsOK, InCall
  <1> QED BY <1>4, <1>8, <1>9, <1>10 DEF PlaceInv, PlacesExact

(* A request takes its place in the budget.                                *)
LEMMA StartPlaces ==
  ASSUME PlaceInv, NEW w \in Waiters, NEW p \in KnownPrincipals, NEW wait \in WaitTimes,
         now \in Nat, StartWait(w, p, wait)
  PROVE  PlaceInv'
  <1>0. PICK a : a = p.agent
    OBVIOUS
  <1>1. /\ WaitTypeOK /\ CallsOK /\ SignalsExact /\ OwnChannels /\ BudgetExact /\ ~InCall(w)
        /\ a \in Agents /\ p \in Principals /\ wait \in Nat
    BY <1>0, WaitAssumption
       DEF PlaceInv, PlacesExact, StartWait, KnownPrincipals, Principals
  <1>2. /\ waiters' = [waiters EXCEPT ![w] =
             [Idle EXCEPT !.pc = "subscribe", !.principal = p, !.deadline = now + wait]]
        /\ budget' = [budget EXCEPT !.agent[a] = @ + 1, !.scope = @ + 1]
        /\ signals' = signals /\ closed' = closed /\ pending' = pending
    BY <1>0 DEF StartWait, acquire
  <1>3. /\ waiters' \in [Waiters -> Waiter]
        /\ waiters'[w].pc = "subscribe" /\ waiters'[w].channel = None
        /\ waiters'[w].principal = p
        /\ \A v \in Waiters \ {w} : waiters'[v] = waiters[v]
    <2> DEFINE x == [Idle EXCEPT !.pc = "subscribe", !.principal = p, !.deadline = now + wait]
    <2>1. Idle \in Waiter /\ Idle.channel = None
      BY DEF Idle, Waiter
    <2>2. x \in Waiter
      <3>1. now + wait \in Nat
        BY <1>1
      <3> QED BY <1>1, <2>1, <3>1 DEF Waiter
    <2>3. x.pc = "subscribe" /\ x.channel = None /\ x.principal = p
      BY <2>1 DEF Waiter
    <2>4. waiters' = [waiters EXCEPT ![w] = x]
      BY <1>2
    <2> HIDE DEF x
    <2> QED BY <1>1, <2>2, <2>3, <2>4 DEF WaitTypeOK
  <1>4. Callers' = Callers \cup {w} /\ w \notin Callers
    BY <1>1, <1>3 DEF Callers, InCall
  <1>5. CallersOf(a)' = CallersOf(a) \cup {w} /\ w \notin CallersOf(a)
    <2>1. \A v \in Callers : AgentOf(v)' = AgentOf(v)
      BY <1>3, <1>4 DEF AgentOf, Callers
    <2>2. AgentOf(w)' = a
      BY <1>0, <1>3 DEF AgentOf
    <2> QED BY <1>4, <2>1, <2>2 DEF CallersOf
  <1>6. ASSUME NEW b \in Agents \ {a} PROVE CallersOf(b)' = CallersOf(b)
    <2>1. \A v \in Callers : AgentOf(v)' = AgentOf(v)
      BY <1>3, <1>4 DEF AgentOf, Callers
    <2>2. AgentOf(w)' = a
      BY <1>0, <1>3 DEF AgentOf
    <2> QED BY <1>4, <2>1, <2>2 DEF CallersOf
  <1>7. ASSUME NEW b \in Agents PROVE Subscribers(b)' = Subscribers(b)
    <2>1. \A v \in CallersOf(b) : waiters'[v] = waiters[v]
      BY <1>3, <1>4 DEF CallersOf, Callers
    <2>2. CallersOf(b) \subseteq CallersOf(b)' /\ CallersOf(b)' \subseteq CallersOf(b) \cup {w}
      BY <1>5, <1>6
    <2>3. w \notin CallersOf(b)
      BY <1>4 DEF CallersOf
    <2> QED BY <1>2, <1>3, <2>1, <2>2, <2>3 DEF Subscribers
  <1>8. IsFiniteSet(Callers) /\ IsFiniteSet(CallersOf(a))
    BY <1>1, CallersFinite DEF CallsOK
  <1>9. /\ IsFiniteSet(Callers') /\ Cardinality(Callers') = Cardinality(Callers) + 1
        /\ Cardinality(Callers) \in Nat
    BY <1>4, <1>8, OneMore
  <1>10. /\ Cardinality(CallersOf(a)') = Cardinality(CallersOf(a)) + 1
         /\ Cardinality(CallersOf(a)) \in Nat
    BY <1>5, <1>8, OneMore
  <1>11. BudgetExact' /\ budget' \in [agent : [Agents -> Nat], scope : Nat]
    <2>1. budget \in [agent : [Agents -> Nat], scope : Nat]
      BY <1>1 DEF WaitTypeOK
    <2>2. /\ budget'.scope = budget.scope + 1
          /\ budget'.agent = [budget.agent EXCEPT ![a] = budget.agent[a] + 1]
          /\ budget' = [agent |-> budget'.agent, scope |-> budget'.scope]
      BY <1>2, <2>1
    <2>3. budget.scope = Cardinality(Callers)
          /\ \A b \in Agents : budget.agent[b] = Cardinality(CallersOf(b))
      BY <1>1 DEF BudgetExact
    <2>4. budget'.scope = Cardinality(Callers') /\ budget'.scope \in Nat
      BY <1>9, <2>2, <2>3
    <2>5. /\ budget'.agent[a] = Cardinality(CallersOf(a)') /\ budget'.agent[a] \in Nat
          /\ \A b \in Agents \ {a} : budget'.agent[b] = budget.agent[b]
          /\ budget'.agent \in [Agents -> Nat]
      BY <1>1, <1>10, <2>1, <2>2, <2>3
    <2>6. BudgetExact'
      BY <1>6, <2>3, <2>4, <2>5 DEF BudgetExact
    <2> QED BY <2>2, <2>4, <2>5, <2>6
  <1>12. SignalsExact'
    <2>1. \A b \in Agents : Subscribers(b) \subseteq Waiters \ {w}
      BY <1>4 DEF Subscribers, CallersOf, Callers
    <2>2. \A b \in Agents : \A v \in Subscribers(b) : waiters'[v] = waiters[v]
      BY <1>3, <2>1
    <2>3. signals' = signals /\ SignalsExact
      BY <1>1, <1>2
    <2>4. ASSUME NEW b \in Agents
          PROVE  /\ signals'[b].waiters = Cardinality(Subscribers(b)')
                 /\ \A v \in Subscribers(b)' : waiters'[v].channel = signals'[b].channel
                 /\ signals'[b].channel = None <=> Subscribers(b)' = {}
      BY <1>7, <2>2, <2>3 DEF SignalsExact
    <2> QED BY <2>4 DEF SignalsExact
  <1>13. WaitTypeOK' /\ OwnChannels'
    BY <1>1, <1>2, <1>3, <1>11 DEF WaitTypeOK, OwnChannels
  <1>14. CallsOK'
    BY <1>1, <1>3, <1>9 DEF CallsOK, InCall
  <1> QED BY <1>11, <1>12, <1>13, <1>14 DEF PlaceInv, PlacesExact

(* A request subscribes: it joins the channel of its agent, or makes one   *)
(* nobody refers to.                                                       *)
LEMMA SubscribePlaces ==
  ASSUME PlaceInv, NEW w \in Waiters, Subscribe(w)
  PROVE  PlaceInv'
  <1>0. PICK a : a = AgentOf(w)
    OBVIOUS
  <1>1. /\ WaitTypeOK /\ CallsOK /\ SignalsExact /\ OwnChannels
        /\ waiters[w].pc = "subscribe" /\ InCall(w) /\ waiters[w].channel = None
    BY DEF PlaceInv, PlacesExact, Subscribe, CallsOK, InCall
  <1>2. /\ a \in Agents /\ w \in CallersOf(a) /\ waiters[w] \in Waiter
    BY <1>0, <1>1, CallerType
  <1>3. PICK c \in ChannelIds :
       /\ IF signals[a].channel = None THEN c \notin Referenced ELSE c = signals[a].channel
       /\ signals' = [signals EXCEPT ![a] = [channel |-> c, waiters |-> signals[a].waiters + 1]]
       /\ closed' = IF signals[a].channel = None THEN closed \ {c} ELSE closed
       /\ waiters' = [waiters EXCEPT ![w] =
            [waiters[w] EXCEPT !.pc = "authenticate", !.channel = c]]
    BY <1>0 DEF Subscribe, subscribe
  <1>4. budget' = budget /\ pending' = pending /\ c # None
    BY WaitAssumption DEF Subscribe
  <1>5. /\ waiters'[w].pc = "authenticate" /\ waiters'[w].channel = c
        /\ waiters'[w].principal = waiters[w].principal
        /\ waiters' \in [Waiters -> Waiter]
        /\ \A v \in Waiters \ {w} : waiters'[v] = waiters[v]
    BY <1>1, <1>2, <1>3 DEF WaitTypeOK, Waiter
  <1>6. /\ Callers' = Callers /\ BudgetExact' /\ IsFiniteSet(Callers)
        /\ \A b : CallersOf(b)' = CallersOf(b)
    BY <1>1, <1>4, <1>5, StaysInFlight DEF InCall
  <1>7. /\ signals[a] \in [channel : ChannelIds \cup {None}, waiters : Nat]
        /\ signals[a].waiters = Cardinality(Subscribers(a))
        /\ \A v \in Subscribers(a) : waiters[v].channel = signals[a].channel
        /\ signals[a].channel = None <=> Subscribers(a) = {}
    BY <1>1, <1>2 DEF SignalsExact, WaitTypeOK
  <1>8. c \notin closed'
    <2>1. CASE signals[a].channel = None
      BY <1>3, <2>1
    <2>2. CASE signals[a].channel # None
      BY <1>3, <1>7, <2>2 DEF Subscribers
    <2> QED BY <2>1, <2>2
  <1>9. \A v \in Waiters \ {w} : waiters[v].channel \in closed' <=> waiters[v].channel \in closed
    <2>1. CASE signals[a].channel = None
      BY <1>3, <2>1 DEF Referenced
    <2>2. CASE signals[a].channel # None
      BY <1>3, <2>2
    <2> QED BY <2>1, <2>2
  <1>10. Subscribers(a)' = Subscribers(a) \cup {w} /\ w \notin Subscribers(a)
    <2>1. w \in Subscribers(a)' /\ w \notin Subscribers(a)
      BY <1>1, <1>2, <1>4, <1>5, <1>6, <1>8 DEF Subscribers
    <2>2. \A v \in Waiters \ {w} : v \in Subscribers(a)' <=> v \in Subscribers(a)
      BY <1>5, <1>6, <1>9 DEF Subscribers
    <2>3. Subscribers(a)' \subseteq Waiters /\ Subscribers(a) \subseteq Waiters
      BY DEF Subscribers, CallersOf, Callers
    <2> QED BY <2>1, <2>2, <2>3
  <1>11. ASSUME NEW b \in Agents \ {a} PROVE Subscribers(b)' = Subscribers(b)
    <2>1. w \notin Subscribers(b)' /\ w \notin Subscribers(b)
      BY <1>0, <1>6 DEF Subscribers, CallersOf
    <2>2. \A v \in Waiters \ {w} : v \in Subscribers(b)' <=> v \in Subscribers(b)
      BY <1>5, <1>6, <1>9 DEF Subscribers
    <2>3. Subscribers(b)' \subseteq Waiters /\ Subscribers(b) \subseteq Waiters
      BY DEF Subscribers, CallersOf, Callers
    <2> QED BY <2>1, <2>2, <2>3
  <1>12. Cardinality(Subscribers(a)') = signals[a].waiters + 1
    <2>1. IsFiniteSet(Subscribers(a))
      BY <1>1, CallersFinite
    <2> QED BY <1>7, <1>10, <2>1, OneMore
  <1>13. /\ signals'[a].channel = c /\ signals'[a].waiters = signals[a].waiters + 1
         /\ \A b \in Agents \ {a} : signals'[b] = signals[b]
         /\ signals' \in [Agents -> [channel : ChannelIds \cup {None}, waiters : Nat]]
    BY <1>1, <1>2, <1>3, <1>7 DEF WaitTypeOK
  <1>14. SignalsExact'
    <2>1. \A v \in Subscribers(a)' : waiters'[v].channel = c
      <3>1. \A v \in Subscribers(a) : v \in Waiters \ {w} /\ waiters'[v].channel = c
        <4>1. \A v \in Subscribers(a) : v \in Waiters \ {w}
          BY <1>10 DEF Subscribers, CallersOf, Callers
        <4>2. Subscribers(a) # {} => c = signals[a].channel
          BY <1>3, <1>7
        <4> QED BY <1>5, <1>7, <4>1, <4>2
      <3> QED BY <1>5, <1>10, <3>1
    <2>2. ASSUME NEW b \in Agents \ {a}
          PROVE  /\ signals'[b].waiters = Cardinality(Subscribers(b)')
                 /\ \A v \in Subscribers(b)' : waiters'[v].channel = signals'[b].channel
                 /\ signals'[b].channel = None <=> Subscribers(b)' = {}
      <3>1. \A v \in Subscribers(b) : waiters'[v].channel = waiters[v].channel
        BY <1>0, <1>5 DEF Subscribers, CallersOf, Callers
      <3> QED BY <1>1, <1>11, <1>13, <3>1 DEF SignalsExact
    <2>3. /\ signals'[a].waiters = Cardinality(Subscribers(a)')
          /\ \A v \in Subscribers(a)' : waiters'[v].channel = signals'[a].channel
          /\ signals'[a].channel = None <=> Subscribers(a)' = {}
      BY <1>4, <1>10, <1>12, <1>13, <2>1
    <2> QED BY <2>2, <2>3 DEF SignalsExact
  <1>15. OwnChannels'
    <2>1. \A b \in Agents \ {a} : signals[b].channel # c
      BY <1>1, <1>2, <1>3, <1>4 DEF OwnChannels, Referenced
    <2> QED BY <1>1, <1>13, <2>1 DEF OwnChannels
  <1>16. WaitTypeOK'
    BY <1>1, <1>3, <1>4, <1>5, <1>13 DEF WaitTypeOK
  <1>17. CallsOK'
    <2>1. IsFiniteSet(Callers')
      BY <1>6
    <2>2. \A v \in Waiters : InCall(v)' => waiters'[v].principal \in KnownPrincipals
      BY <1>1, <1>5 DEF CallsOK, InCall
    <2> QED BY <1>1, <1>4, <1>5, <2>1, <2>2 DEF CallsOK
  <1> QED BY <1>6, <1>14, <1>15, <1>16, <1>17 DEF PlaceInv, PlacesExact

(* A notification closes the channel of its agent and no other.            *)
LEMMA NotifyPlaces ==
  ASSUME PlaceInv, NEW a \in Agents, notify(a)
  PROVE  PlaceInv'
  <1>1. /\ WaitTypeOK /\ CallsOK /\ SignalsExact /\ OwnChannels /\ BudgetExact
    BY DEF PlaceInv, PlacesExact
  <1>2. /\ pending' = [pending EXCEPT ![a] = pending[a] - 1] /\ pending[a] > 0
        /\ closed' = closed \cup ({signals[a].channel} \ {None})
        /\ signals' = [signals EXCEPT ![a] = NoSignal]
        /\ waiters' = waiters /\ budget' = budget
    BY DEF notify
  <1>3. /\ Callers' = Callers /\ \A b : CallersOf(b)' = CallersOf(b)
    BY <1>2 DEF Callers, CallersOf, InCall, AgentOf
  <1>4. BudgetExact' /\ CallsOK'
    BY <1>1, <1>2, <1>3 DEF BudgetExact, CallsOK, InCall
  <1>5. Subscribers(a)' = {}
    BY <1>1, <1>2, <1>3 DEF SignalsExact, Subscribers
  <1>6. ASSUME NEW b \in Agents \ {a} PROVE Subscribers(b)' = Subscribers(b)
    <2>1. ASSUME NEW v \in Subscribers(b) PROVE waiters[v].channel # signals[a].channel
      <3>1. waiters[v].channel = signals[b].channel /\ waiters[v].channel # None
        BY <1>1 DEF SignalsExact, Subscribers
      <3> QED BY <1>1, <3>1 DEF OwnChannels
    <2> QED BY <1>2, <1>3, <2>1 DEF Subscribers
  <1>7. Cardinality({}) = 0
    BY FS_EmptySet
  <1>8. signals'[a] = NoSignal /\ \A b \in Agents \ {a} : signals'[b] = signals[b]
    BY <1>1, <1>2 DEF WaitTypeOK
  <1>9. SignalsExact'
    <2>1. ASSUME NEW b \in Agents \ {a}
          PROVE  /\ signals'[b].waiters = Cardinality(Subscribers(b)')
                 /\ \A v \in Subscribers(b)' : waiters'[v].channel = signals'[b].channel
                 /\ signals'[b].channel = None <=> Subscribers(b)' = {}
      BY <1>1, <1>2, <1>6, <1>8 DEF SignalsExact
    <2>2. /\ signals'[a].waiters = Cardinality(Subscribers(a)')
          /\ \A v \in Subscribers(a)' : waiters'[v].channel = signals'[a].channel
          /\ signals'[a].channel = None <=> Subscribers(a)' = {}
      BY <1>5, <1>7, <1>8 DEF NoSignal
    <2> QED BY <2>1, <2>2 DEF SignalsExact
  <1>10. OwnChannels'
    BY <1>1, <1>8 DEF OwnChannels, NoSignal
  <1>11. WaitTypeOK'
    <2>1. pending' \in [Agents -> Nat]
      BY <1>1, <1>2 DEF WaitTypeOK
    <2>2. signals[a].channel \in ChannelIds \cup {None}
      BY <1>1 DEF WaitTypeOK
    <2> QED BY <1>1, <1>2, <2>1, <2>2 DEF WaitTypeOK, NoSignal
  <1> QED BY <1>4, <1>9, <1>10, <1>11 DEF PlaceInv, PlacesExact

-----------------------------------------------------------------------------
(* What a transaction of the store does to those it tells nothing.         *)

(* A reservation stays as it is, or runs for its whole time.               *)
HeldKept ==
  \A a \in Agents : \A r \in HeldBy(a)' :
    \/ r \in HeldBy(a) /\ reservations'[r].expires_at = reservations[r].expires_at
    \/ reservations'[r].expires_at = now + ReservationTTL

(* The execution stays, with its lease or one renewed now.                 *)
LeaseKept(a) ==
  /\ agents'[a].execution_id = agents[a].execution_id
  /\ \/ agents[a].lease_expires_at <= agents'[a].lease_expires_at
     \/ \E leaseMS \in LeaseTimes : agents'[a].lease_expires_at = now + leaseMS

(* No message is put back into the queue of the agent.                     *)
QueueKept(a) ==
  \A m \in MessageIds : messages'[m].state = "queued" /\ messages'[m].to = a =>
    /\ messages[m].state = "queued" /\ messages[m].to = a
    /\ messages[m].expires_at = messages'[m].expires_at

Effect(S) ==
  /\ now' \in Nat /\ now <= now' /\ HeldKept
  /\ \A a \in Agents \ S : LeaseKept(a) /\ (Quiet(a) => QueueKept(a))

(* Deleting reservations makes none.                                       *)
LEMMA DeleteKeepsHeld ==
  ASSUME DeliveryInv, NEW R, reservations' = deleteReservations(R)
  PROVE  HeldKept
  <1>1. \A r \in Held' : r \in Held /\ reservations'[r] = reservations[r]
    BY DeleteHeld DEF DeliveryInv
  <1> QED BY <1>1 DEF HeldKept, HeldBy

(* Reservations that do not change are kept,                               *)
LEMMA SameHeld ==
  ASSUME reservations' = reservations
  PROVE  HeldKept
  BY DEF HeldKept, HeldBy, Held

(* and so is the lease of an agent that does not change.                   *)
LEMMA SameLease ==
  ASSUME DeliveryInv, agents' = agents, NEW a \in Agents
  PROVE  LeaseKept(a)
  <1>1. agents[a].lease_expires_at \in Nat
    BY DEF DeliveryInv, DeliveryTypeOK, RegistryTypeOK, Agent
  <1> QED BY <1>1 DEF LeaseKept

(* Expiry puts nothing into a queue, and a release only the messages of    *)
(* the agents whose reservations it releases.                              *)
LEMMA ExpireQueue ==
  ASSUME NEW msgs \in [MessageIds -> Message], NEW t, NEW m \in MessageIds,
         expireMessages(msgs, t)[m].state = "queued"
  PROVE  expireMessages(msgs, t)[m] = msgs[m]
  BY DEF expireMessages, Message

(* Releasing what others hold fills no queue of the agent.                 *)
LEMMA ReleaseQueue ==
  ASSUME NEW msgs \in [MessageIds -> Message], NEW a, NEW m \in MessageIds,
         NEW R \in SUBSET {r \in ReservationIds : reservations[r].agent # a},
         releaseReservations(msgs, R)[m].state = "queued",
         releaseReservations(msgs, R)[m].to = a
  PROVE  releaseReservations(msgs, R)[m] = msgs[m]
  <1>1. CASE /\ msgs[m].state = "reserved" /\ msgs[m].reservation_id \in R
             /\ msgs[m].to = reservations[msgs[m].reservation_id].agent
    <2>1. releaseReservations(msgs, R)[m].to = msgs[m].to
      BY <1>1 DEF releaseReservations, Message
    <2> QED BY <1>1, <2>1
  <1>2. CASE ~ /\ msgs[m].state = "reserved" /\ msgs[m].reservation_id \in R
               /\ msgs[m].to = reservations[msgs[m].reservation_id].agent
    BY <1>2 DEF releaseReservations
  <1> QED BY <1>1, <1>2

(* The operations on executions.                                           *)
LEMMA ExecutionEffect ==
  ASSUME DeliveryInv, NEW S,
         \/ Tick /\ UNCHANGED deliveryVars
         \/ \E token \in 1..MaxTokens, a \in Agents, leaseMS \in LeaseTimes,
               connectTo \in SUBSET Agents, workspace \in BOOLEAN :
              RegisterAgent(token, a, leaseMS, connectTo, workspace) /\ S = {a}
         \/ \E token \in 1..MaxTokens, a, b \in Agents :
              LinkAgents(token, a, b) /\ UNCHANGED deliveryVars
         \/ \E p \in KnownPrincipals, lifecycle \in ReportedLifecycles, leaseMS \in LeaseTimes :
              Heartbeat(p, lifecycle, leaseMS)
         \/ \E p \in KnownPrincipals : RetireAgent(p) /\ S = {p.agent}
         \/ RotateScopeToken /\ S = Agents
  PROVE  Effect(S)
  <1>1. /\ now \in Nat /\ messages \in [MessageIds -> Message]
        /\ agents \in [Agents -> Agent]
        /\ \A a \in Agents : agents[a].lease_expires_at \in Nat
    BY DEF DeliveryInv, DeliveryTypeOK, RegistryTypeOK, Agent
  <1>2. ASSUME UNCHANGED deliveryVars PROVE HeldKept /\ \A a \in Agents : QueueKept(a)
    BY <1>2, SameHeld DEF deliveryVars, QueueKept
  <1>3. ASSUME NEW b \in Agents,
               messages' = releaseReservations(messages, HeldBy(b)),
               reservations' = deleteReservations(HeldBy(b))
        PROVE  HeldKept /\ \A a \in Agents \ {b} : QueueKept(a)
    <2>1. HeldKept
      BY <1>3, DeleteKeepsHeld
    <2>2. ASSUME NEW a \in Agents \ {b}, NEW m \in MessageIds,
                 messages'[m].state = "queued", messages'[m].to = a
          PROVE  messages'[m] = messages[m]
      <3>1. HeldBy(b) \in SUBSET {r \in ReservationIds : reservations[r].agent # a}
        BY DEF HeldBy, Held
      <3>2. PICK left : left = releaseReservations(messages, HeldBy(b))
        OBVIOUS
      <3>3. messages' = left /\ left[m].state = "queued" /\ left[m].to = a
        BY <1>3, <2>2, <3>2
      <3>4. left[m] = messages[m]
        BY <1>1, <3>1, <3>2, <3>3, ReleaseQueue
      <3> QED BY <3>3, <3>4
    <2> QED BY <2>1, <2>2 DEF QueueKept
  <1>4. ASSUME Tick, UNCHANGED deliveryVars PROVE Effect(S)
    <2>1. now' = now + 1 /\ agents' = agents
      BY <1>4 DEF Tick
    <2> QED BY <1>1, <1>2, <1>4, <2>1, SameLease DEF Effect
  <1>5. ASSUME NEW token, NEW b \in Agents, NEW leaseMS, NEW connectTo, NEW workspace,
               RegisterAgent(token, b, leaseMS, connectTo, workspace), S = {b}
        PROVE  Effect(S)
    <2>1. /\ now' = now
          /\ \A a \in Agents \ {b} : agents'[a] = agents[a]
      BY <1>1, <1>5 DEF RegisterAgent, RegisterRow
    <2>2. HeldKept /\ \A a \in Agents \ {b} : QueueKept(a)
      BY <1>3, <1>5 DEF RegisterAgent
    <2> QED BY <1>1, <1>5, <2>1, <2>2 DEF Effect, LeaseKept
  <1>6. ASSUME NEW token, NEW a, NEW b, LinkAgents(token, a, b), UNCHANGED deliveryVars
        PROVE  Effect(S)
    <2>1. now' = now /\ agents' = agents
      BY <1>6 DEF LinkAgents
    <2> QED BY <1>1, <1>2, <1>6, <2>1, SameLease DEF Effect
  <1>7. ASSUME NEW p \in KnownPrincipals, NEW lifecycle, NEW leaseMS \in LeaseTimes,
               Heartbeat(p, lifecycle, leaseMS)
        PROVE  Effect(S)
    <2>1. p.agent \in Agents
      BY DEF KnownPrincipals
    <2>2. /\ now' = now /\ UNCHANGED deliveryVars
          /\ agents' = [agents EXCEPT ![p.agent].lifecycle = lifecycle,
                                      ![p.agent].lease_expires_at = now + leaseMS]
      BY <1>7 DEF Heartbeat, HeartbeatRow
    <2>3. \A a \in Agents : LeaseKept(a)
      BY <1>1, <2>1, <2>2 DEF LeaseKept, Agent
    <2> QED BY <1>1, <1>2, <2>2, <2>3 DEF Effect
  <1>8. ASSUME NEW p \in KnownPrincipals, RetireAgent(p), S = {p.agent} PROVE Effect(S)
    <2>1. p.agent \in Agents
      BY DEF KnownPrincipals
    <2>2. /\ now' = now
          /\ agents' = [agents EXCEPT ![p.agent].lifecycle = "offline",
                                      ![p.agent].lease_expires_at = 0]
      BY <1>8 DEF RetireAgent, RetireRow
    <2>3. \A a \in Agents \ S : LeaseKept(a)
      BY <1>1, <1>8, <2>1, <2>2 DEF LeaseKept, Agent
    <2>4. HeldKept /\ \A a \in Agents \ {p.agent} : QueueKept(a)
      BY <1>3, <1>8, <2>1 DEF RetireAgent
    <2> QED BY <1>1, <1>8, <2>2, <2>3, <2>4 DEF Effect
  <1>9. ASSUME RotateScopeToken, S = Agents PROVE Effect(S)
    <2>1. now' = now /\ HeldKept
      BY <1>9, DeleteKeepsHeld DEF RotateScopeToken, RotateRows
    <2> QED BY <1>1, <1>9, <2>1 DEF Effect
  <1> QED BY <1>4, <1>5, <1>6, <1>7, <1>8, <1>9

(* A transaction that begins with expiry, and queues nothing itself.       *)
LEMMA ExpireEffect ==
  ASSUME DeliveryInv, NEW a \in Agents,
         \A m \in MessageIds : messages'[m].state = "queued" /\ messages'[m].to = a =>
           messages'[m].expires_at = expireMessages(messages, now)[m].expires_at
             /\ expireMessages(messages, now)[m].state = "queued"
             /\ expireMessages(messages, now)[m].to = a
  PROVE  QueueKept(a)
  <1>1. messages \in [MessageIds -> Message]
    BY DEF DeliveryInv, DeliveryTypeOK
  <1> QED BY <1>1, ExpireQueue DEF QueueKept

(* The operations on the inbox.                                            *)
LEMMA SendEffect ==
  ASSUME DeliveryInv, NEW sender \in Participants, NEW in \in SendInputs, NEW S,
         in.to \in Agents => in.to \in S,
         sendMessageTx(sender, in), UNCHANGED <<registryVars, reservations>>
  PROVE  Effect(S)
  <1> DEFINE msgs == expireMessages(messages, now)
  <1>1. now' = now /\ now \in Nat /\ agents' = agents /\ reservations' = reservations
        /\ msgs \in [MessageIds -> Message]
    BY ExpiredRows DEF registryVars, DeliveryInv, DeliveryTypeOK, RegistryTypeOK
  <1>2. \/ messages' = msgs
        \/ \E id \in MessageIds : messages' = InsertMessage(msgs, id, sender, in, now)
    BY DEF sendMessageTx
  <1> HIDE DEF msgs
  <1>3. ASSUME NEW a \in Agents \ S, NEW m \in MessageIds,
               messages'[m].state = "queued", messages'[m].to = a
        PROVE  /\ messages'[m].expires_at = msgs[m].expires_at
               /\ msgs[m].state = "queued" /\ msgs[m].to = a
    <2>1. CASE messages' = msgs
      BY <1>3, <2>1
    <2>2. ASSUME NEW id \in MessageIds, messages' = InsertMessage(msgs, id, sender, in, now)
          PROVE  /\ messages'[m].expires_at = msgs[m].expires_at
                 /\ msgs[m].state = "queued" /\ msgs[m].to = a
      <3>1. m # id
        BY <1>3, <2>2 DEF InsertMessage, NewMessage
      <3> QED BY <1>1, <1>3, <2>2, <3>1 DEF InsertMessage, Message
    <2> QED BY <1>2, <2>1, <2>2
  <1>4. \A a \in Agents \ S : QueueKept(a)
    BY <1>3, ExpireEffect DEF msgs
  <1> QED BY <1>1, <1>4, SameHeld, SameLease DEF Effect

(* A reserve ends no execution and fills no queue unannounced.             *)
LEMMA ReserveEffect ==
  ASSUME DeliveryInv, NEW p \in KnownPrincipals, NEW limit, NEW S, ReserveInbox(p, limit)
  PROVE  Effect(S)
  <1> DEFINE expired == {r \in Held : reservations[r].expires_at <= now}
             expmsgs == expireMessages(messages, now)
             msgs    == releaseReservations(expmsgs, expired)
             left    == deleteReservations(expired)
  <1>1. /\ now' = now /\ now \in Nat /\ agents' = agents
        /\ expmsgs \in [MessageIds -> Message]
        /\ msgs \in [MessageIds -> Message]
    BY ExpiredRows, ReleaseType
       DEF ReserveInbox, registryVars, DeliveryInv, DeliveryTypeOK, RegistryTypeOK
  <1>2. \/ messages' = msgs /\ reservations' = left
        \/ \E T \in SUBSET MessageIds, id \in ReservationIds :
             /\ messages' = [m \in MessageIds |->
                  IF m \in T
                  THEN [msgs[m] EXCEPT !.state = "reserved", !.reservation_id = id]
                  ELSE msgs[m]]
             /\ reservations' = [left EXCEPT ![id] =
                  [row |-> "held", agent |-> p.agent,
                   expires_at |-> now + ReservationTTL, execution |-> p.execution]]
    <2>1. \/ messages' = msgs /\ reservations' = left
          \/ \E T \in OldestFirst(msgs, Available(msgs, p.agent), limit), id \in ReservationIds :
               /\ messages' = [m \in MessageIds |->
                    IF m \in T
                    THEN [msgs[m] EXCEPT !.state = "reserved", !.reservation_id = id]
                    ELSE msgs[m]]
               /\ reservations' = [left EXCEPT ![id] =
                    [row |-> "held", agent |-> p.agent,
                     expires_at |-> now + ReservationTTL, execution |-> p.execution]]
      BY Zenon DEF ReserveInbox
    <2> HIDE DEF msgs, left
    <2>2. OldestFirst(msgs, Available(msgs, p.agent), limit) \subseteq SUBSET MessageIds
      BY DEF OldestFirst, Available
    <2> QED BY <2>1, <2>2
  <1>3. \A r \in ReservationIds : left[r].row = "held" =>
          r \in Held /\ left[r] = reservations[r]
    BY DEF deleteReservations, NoReservation, Held
  <1>4. left \in [ReservationIds -> Reservation]
    BY DeleteType DEF DeliveryInv, DeliveryTypeOK
  <1>5. ASSUME NEW a \in Agents, Quiet(a), NEW m \in MessageIds,
               msgs[m].state = "queued", msgs[m].to = a
        PROVE  msgs[m] = expmsgs[m]
    <2>1. expired \in SUBSET {r \in ReservationIds : reservations[r].agent # a}
      BY <1>1, <1>5 DEF Quiet, DeliveryInv, DeliveryTypeOK, Reservation, Held, HeldBy
    <2> HIDE DEF expired, expmsgs
    <2> QED BY <1>1, <1>5, <2>1, ReleaseQueue
  <1> HIDE DEF expired, expmsgs, msgs, left
  <1>6. HeldKept
    <2>1. CASE reservations' = left
      BY <1>3, <2>1 DEF HeldKept, HeldBy, Held
    <2>2. ASSUME NEW id \in ReservationIds,
                 reservations' = [left EXCEPT ![id] =
                  [row |-> "held", agent |-> p.agent,
                   expires_at |-> now + ReservationTTL, execution |-> p.execution]]
          PROVE  HeldKept
      <3>1. \A r \in ReservationIds \ {id} : reservations'[r] = left[r]
        BY <1>4, <2>2
      <3>2. reservations'[id].expires_at = now + ReservationTTL
        BY <1>4, <2>2
      <3> QED BY <1>3, <3>1, <3>2 DEF HeldKept, HeldBy, Held
    <2> QED BY <1>2, <2>1, <2>2
  <1>7. ASSUME NEW a \in Agents, Quiet(a) PROVE QueueKept(a)
    <2>1. \A m \in MessageIds : messages'[m].state = "queued" /\ messages'[m].to = a =>
            messages'[m] = expmsgs[m]
      <3>1. CASE messages' = msgs
        BY <1>5, <1>7, <3>1
      <3>2. ASSUME NEW T \in SUBSET MessageIds, NEW id \in ReservationIds,
                   messages' = [m \in MessageIds |->
                     IF m \in T
                     THEN [msgs[m] EXCEPT !.state = "reserved", !.reservation_id = id]
                     ELSE msgs[m]]
            PROVE  \A m \in MessageIds :
                     messages'[m].state = "queued" /\ messages'[m].to = a =>
                       messages'[m] = expmsgs[m]
        BY <1>1, <1>5, <1>7, <3>2 DEF Message
      <3> QED BY <1>2, <3>1, <3>2
    <2> QED BY <2>1, ExpireEffect DEF expmsgs
  <1> QED BY <1>1, <1>6, <1>7, SameLease DEF Effect

(* Nor does a commit;                                                      *)
LEMMA CommitEffect ==
  ASSUME DeliveryInv, NEW p \in KnownPrincipals, NEW r \in ReservationIds,
         NEW t \in LaterInTx, NEW S, CommitInbox(p, r, t)
  PROVE  Effect(S)
  <1>1. /\ now' = t /\ now \in Nat /\ t \in Nat /\ now <= t /\ agents' = agents
        /\ expireMessages(messages, now) \in [MessageIds -> Message]
    <2>1. now \in Nat /\ TxTime \in Nat
      BY DeliveryAssumption DEF DeliveryInv, DeliveryTypeOK, RegistryTypeOK
    <2> QED BY <2>1, ExpiredRows DEF CommitInbox, ClockOnly, LaterInTx
  <1>2. HeldKept
    BY DeleteKeepsHeld DEF CommitInbox
  <1>3. ASSUME NEW a \in Agents, Quiet(a) PROVE QueueKept(a)
    <2> DEFINE expmsgs == expireMessages(messages, now)
    <2>1. r \in HeldBy(p.agent) /\ messages \in [MessageIds -> Message]
          /\ expmsgs \in [MessageIds -> Message]
      BY <1>1 DEF CommitInbox, DeliveryInv, DeliveryTypeOK
    <2> HIDE DEF expmsgs
    <2>2. CASE reservations[r].expires_at <= now
      <3>1. a # p.agent
        BY <1>1, <1>3, <2>1, <2>2
           DEF Quiet, HeldBy, Held, DeliveryInv, DeliveryTypeOK, Reservation
      <3>2. PICK R : R = {r}
        OBVIOUS
      <3>3. R \in SUBSET {x \in ReservationIds : reservations[x].agent # a}
        BY <2>1, <3>1, <3>2 DEF HeldBy, Held
      <3>4. messages' = releaseReservations(messages, R)
        BY <2>2, <3>2 DEF CommitInbox
      <3>5. \A m \in MessageIds : messages'[m].state = "queued" /\ messages'[m].to = a =>
              messages'[m] = messages[m]
        BY <2>1, <3>3, <3>4, ReleaseQueue
      <3> QED BY <3>5 DEF QueueKept
    <2>3. CASE ~ (reservations[r].expires_at <= now)
      <3>1. messages' = Committed(expmsgs, p, r, t)
        BY <2>3 DEF CommitInbox, expmsgs
      <3>2. \A m \in MessageIds : messages'[m].state = "queued" => messages'[m] = expmsgs[m]
        BY <2>1, <3>1 DEF Committed, Message
      <3> QED BY <3>2, ExpireEffect DEF expmsgs
    <2> QED BY <2>2, <2>3
  <1> QED BY <1>1, <1>2, <1>3, SameLease DEF Effect

(* a release fills the queue of its own agent, and says so;                *)
LEMMA ReleaseEffect ==
  ASSUME DeliveryInv, NEW p \in KnownPrincipals, NEW r \in ReservationIds,
         ReleaseInbox(p, r)
  PROVE  Effect({p.agent})
  <1> DEFINE expmsgs == expireMessages(messages, now)
             R       == {r} \cap HeldBy(p.agent)
             msgs    == releaseReservations(expmsgs, R)
  <1>1. /\ now' = now /\ now \in Nat /\ agents' = agents
        /\ expmsgs \in [MessageIds -> Message] /\ messages' = msgs
    BY ExpiredRows DEF ReleaseInbox, registryVars, DeliveryInv, DeliveryTypeOK, RegistryTypeOK
  <1>2. HeldKept
    BY DeleteKeepsHeld DEF ReleaseInbox
  <1>3. ASSUME NEW a \in Agents \ {p.agent} PROVE QueueKept(a)
    <2>1. R \in SUBSET {x \in ReservationIds : reservations[x].agent # a}
      BY DEF HeldBy, Held
    <2> HIDE DEF R, expmsgs
    <2>2. \A m \in MessageIds : msgs[m].state = "queued" /\ msgs[m].to = a => msgs[m] = expmsgs[m]
      BY <1>1, <2>1, ReleaseQueue
    <2> QED BY <1>1, <2>2, ExpireEffect DEF expmsgs
  <1> QED BY <1>1, <1>2, <1>3, SameLease DEF Effect

(* an acknowledgement fills none,                                          *)
LEMMA AcknowledgeEffect ==
  ASSUME DeliveryInv, NEW p \in KnownPrincipals, NEW T \in SUBSET MessageIds,
         NEW t \in LaterInTx, NEW S, AcknowledgeMessages(p, T, t)
  PROVE  Effect(S)
  <1> DEFINE msgs == expireMessages(messages, now)
  <1>1. /\ now' = t /\ now \in Nat /\ t \in Nat /\ now <= t /\ agents' = agents
        /\ msgs \in [MessageIds -> Message] /\ reservations' = reservations
    <2>1. now \in Nat /\ TxTime \in Nat
      BY DeliveryAssumption DEF DeliveryInv, DeliveryTypeOK, RegistryTypeOK
    <2>2. now' = t /\ agents' = agents /\ reservations' = reservations
      BY DEF AcknowledgeMessages, ClockOnly
    <2>3. t \in Nat /\ now <= t
      BY <2>1 DEF LaterInTx
    <2>4. msgs \in [MessageIds -> Message]
      BY ExpiredRows
    <2> QED BY <2>1, <2>2, <2>3, <2>4
  <1>2. \A m \in MessageIds : messages'[m].state = "queued" => messages'[m] = msgs[m]
    <2> HIDE DEF msgs
    <2>1. messages' = [m \in MessageIds |->
       IF m \in T /\ msgs[m].to = p.agent /\ msgs[m].state = "delivered"
       THEN [msgs[m] EXCEPT !.state = "acknowledged", !.acknowledged_at = t]
       ELSE msgs[m]]
      BY DEF AcknowledgeMessages, msgs
    <2> QED BY <1>1, <2>1 DEF Message
  <1>3. \A a \in Agents : QueueKept(a)
    BY <1>2, ExpireEffect
  <1> QED BY <1>1, <1>3, SameHeld, SameLease DEF Effect

(* nor does reading by a human,                                            *)
LEMMA ReadEffect ==
  ASSUME DeliveryInv, NEW h, NEW T, NEW S, ReadHumanMessages(h, T)
  PROVE  Effect(S)
  <1> DEFINE msgs == expireMessages(messages, now)
  <1>1. /\ now' = now /\ now \in Nat /\ agents' = agents
        /\ msgs \in [MessageIds -> Message] /\ reservations' = reservations
    BY ExpiredRows
       DEF ReadHumanMessages, registryVars, DeliveryInv, DeliveryTypeOK, RegistryTypeOK
  <1>2. \A m \in MessageIds : messages'[m].state = "queued" => messages'[m] = msgs[m]
    <2> HIDE DEF msgs
    <2>1. messages' = [m \in MessageIds |->
       IF m \in T /\ msgs[m].to = h /\ msgs[m].state \in {"queued", "delivered"}
       THEN [msgs[m] EXCEPT !.state = "acknowledged", !.acknowledged_at = now,
                            !.delivered_at = IF msgs[m].delivered_at = 0 THEN now
                                             ELSE msgs[m].delivered_at]
       ELSE msgs[m]]
      BY DEF ReadHumanMessages, msgs
    <2> QED BY <1>1, <2>1 DEF Message
  <1>3. \A a \in Agents : QueueKept(a)
    BY <1>2, ExpireEffect
  <1> QED BY <1>1, <1>3, SameHeld, SameLease DEF Effect

(* nor does retention.                                                     *)
LEMMA PruneEffect ==
  ASSUME DeliveryInv, NEW token, NEW before, NEW execute, NEW S,
         PruneMessages(token, before, execute, {})
  PROVE  Effect(S)
  <1> DEFINE msgs == expireMessages(messages, now)
  <1>1. /\ now' = now /\ now \in Nat /\ agents' = agents
        /\ msgs \in [MessageIds -> Message] /\ reservations' = reservations
    BY ExpiredRows
       DEF PruneMessages, registryVars, DeliveryInv, DeliveryTypeOK, RegistryTypeOK
  <1>2. \A m \in MessageIds : messages'[m].state = "queued" => messages'[m] = msgs[m]
    <2>1. \A m \in MessageIds : messages'[m] \in {NoRow("removed"), msgs[m]}
      BY DEF PruneMessages
    <2>2. NoRow("removed").state = "removed"
      BY DEF NoRow
    <2> HIDE DEF msgs
    <2> QED BY <2>1, <2>2
  <1>3. \A a \in Agents : QueueKept(a)
    BY <1>2, ExpireEffect
  <1> QED BY <1>1, <1>3, SameHeld, SameLease DEF Effect

(* A transaction, and the agents it notifies.                              *)
Announced == \E S \in SUBSET Agents : Notifies(S) /\ Effect(S)

(* So every operation announces the queues it fills and the executions it  *)
(* ends.                                                                   *)
LEMMA OperationsAnnounced ==
  ASSUME DeliveryInv, ExecutionOps \/ InboxOps
  PROVE  Announced
  <1>1. CASE ExecutionOps
    <2>1. \A p \in KnownPrincipals : {p.agent} \in SUBSET Agents
      BY DEF KnownPrincipals
    <2>2. ASSUME NEW S \in SUBSET Agents, Notifies(S), Effect(S) PROVE Announced
      BY <2>2 DEF Announced
    <2>3. ASSUME Tick, UNCHANGED deliveryVars, Notifies({}) PROVE Announced
      BY <2>2, <2>3, ExecutionEffect
    <2>4. ASSUME NEW token \in 1..MaxTokens, NEW a \in Agents, NEW leaseMS \in LeaseTimes,
                 NEW connectTo \in SUBSET Agents, NEW workspace \in BOOLEAN,
                 RegisterAgent(token, a, leaseMS, connectTo, workspace), Notifies({a})
          PROVE  Announced
      BY <2>2, <2>4, ExecutionEffect
    <2>5. ASSUME NEW token \in 1..MaxTokens, NEW a \in Agents, NEW b \in Agents,
                 LinkAgents(token, a, b), UNCHANGED deliveryVars, Notifies({})
          PROVE  Announced
      BY <2>2, <2>5, ExecutionEffect
    <2>6. ASSUME NEW p \in KnownPrincipals, NEW lifecycle \in ReportedLifecycles,
                 NEW leaseMS \in LeaseTimes, Heartbeat(p, lifecycle, leaseMS), Notifies({})
          PROVE  Announced
      BY <2>2, <2>6, ExecutionEffect
    <2>7. ASSUME NEW p \in KnownPrincipals, RetireAgent(p), Notifies({p.agent})
          PROVE  Announced
      BY <2>1, <2>2, <2>7, ExecutionEffect
    <2>8. ASSUME RotateScopeToken, Notifies(Agents) PROVE Announced
      BY <2>2, <2>8, ExecutionEffect
    <2> HIDE DEF Announced
    <2> QED BY <1>1, <2>3, <2>4, <2>5, <2>6, <2>7, <2>8, Zenon DEF ExecutionOps
  <1>2. CASE InboxOps
    <2>1. \A in \in SendInputs : {in.to} \cap Agents \in SUBSET Agents
      OBVIOUS
    <2>2. /\ Humans \subseteq Participants
          /\ \A p \in KnownPrincipals : p.agent \in Participants /\ {p.agent} \in SUBSET Agents
      BY DEF KnownPrincipals, Participants
    <2>3. ASSUME NEW S \in SUBSET Agents, Notifies(S), Effect(S) PROVE Announced
      BY <2>3 DEF Announced
    <2>4. ASSUME NEW sender \in Participants, NEW in \in SendInputs, sendMessageTx(sender, in),
                 UNCHANGED <<registryVars, reservations>>, Notifies({in.to} \cap Agents)
          PROVE  Announced
      BY <2>1, <2>3, <2>4, SendEffect
    <2>5. ASSUME NEW p \in KnownPrincipals, NEW m \in MessageIds, Receipt(p, m), Notifies({})
          PROVE  Announced
      <3>1. now' = now /\ agents' = agents /\ reservations' = reservations
            /\ messages' = expireMessages(messages, now)
        BY <2>5 DEF Receipt, registryVars
      <3>2. \A a \in Agents : QueueKept(a)
        BY <3>1, ExpireEffect
      <3>3. now \in Nat
        BY DEF DeliveryInv, DeliveryTypeOK, RegistryTypeOK
      <3>4. Effect({})
        BY <3>1, <3>2, <3>3, SameHeld, SameLease DEF Effect
      <3> QED BY <2>3, <2>5, <3>4
    <2>6. ASSUME NEW p \in KnownPrincipals, NEW r \in ReservationIds, ReleaseOp(p, r)
          PROVE  Announced
      BY <2>2, <2>3, <2>6, ReleaseEffect DEF ReleaseOp
    <2>7. ASSUME NEW p \in KnownPrincipals, NEW limit \in InboxLimits,
                 ReserveInbox(p, limit), Notifies({})
          PROVE  Announced
      BY <2>3, <2>7, ReserveEffect
    <2>8. ASSUME NEW p \in KnownPrincipals, NEW r \in ReservationIds, NEW t \in LaterInTx,
                 CommitOp(p, r, t)
          PROVE  Announced
      BY <2>3, <2>8, CommitEffect DEF CommitOp
    <2>9. ASSUME NEW p \in KnownPrincipals, NEW T \in SUBSET MessageIds, NEW t \in LaterInTx,
                 AcknowledgeMessages(p, T, t), Notifies({})
          PROVE  Announced
      BY <2>3, <2>9, AcknowledgeEffect
    <2>10. ASSUME NEW h \in Humans, NEW T \in SUBSET MessageIds,
                  ReadHumanMessages(h, T), Notifies({})
           PROVE  Announced
      BY <2>3, <2>10, ReadEffect
    <2>11. ASSUME NEW token, NEW before, NEW execute,
                  PruneMessages(token, before, execute, {}), Notifies({})
           PROVE  Announced
      BY <2>3, <2>11, PruneEffect
    <2>12. ASSUME NEW p \in KnownPrincipals, NEW in \in SendInputs,
                  SendMessage(p, in), Notifies({in.to} \cap Agents)
           PROVE  Announced
      BY <2>2, <2>4, <2>12 DEF SendMessage
    <2>13. ASSUME NEW h \in Humans, NEW in \in SendInputs,
                  SendHumanMessage(h, in), Notifies({in.to} \cap Agents)
           PROVE  Announced
      BY <2>2, <2>4, <2>13 DEF SendHumanMessage
    <2> HIDE DEF Announced
    <2> QED BY <1>2, <2>5, <2>6, <2>7, <2>8, <2>9, <2>10, <2>11, <2>12, <2>13, Zenon DEF InboxOps
  <1> QED BY <1>1, <1>2

-----------------------------------------------------------------------------
(* What a step keeps of a request that is not its own.                     *)

(* The types the timers are compared with.                                 *)
Timed ==
  /\ now \in Nat
  /\ \A a \in Agents : agents[a].lease_expires_at \in Nat
  /\ \A r \in ReservationIds : reservations[r].expires_at \in Nat

(* Leases and reservations are times.                                      *)
LEMMA TimedHolds ==
  ASSUME DeliveryInv
  PROVE  Timed
  BY DEF Timed, DeliveryInv, DeliveryTypeOK, RegistryTypeOK, Agent, Reservation

(* The timers of a request that does not move stay right.                  *)
LEMMA TimersKept ==
  ASSUME Timed, Timed', WaitTypeOK, CallsOK, NEW w \in Waiters, TimersOK(w),
         waiters'[w] = waiters[w], now <= now', HeldKept,
         InCall(w) /\ Untold(w)' => Untold(w) /\ LeaseKept(AgentOf(w))
  PROVE  TimersOK(w)'
  <1>1. CASE ~InCall(w)
    BY <1>1 DEF TimersOK, InCall
  <1>2. CASE InCall(w)
    <2>1. PICK x, a : x = waiters[w] /\ a = AgentOf(w)
      OBVIOUS
    <2>2. /\ a \in Agents /\ x.deadline \in Nat /\ x.lease \in Nat /\ x.wake_at \in Nat
          /\ AgentOf(w)' = a /\ waiters'[w] = x
      BY <1>2, <2>1, CallerType DEF Waiter, AgentOf
    <2>3. /\ \A leaseMS \in LeaseTimes : leaseMS \in Nat /\ x.deadline < now + leaseMS
          /\ x.deadline <= now + ReservationTTL /\ ReservationTTL \in Nat
          /\ now \in Nat /\ now' \in Nat
      BY <1>2, <2>1, RegistryAssumption, DeliveryAssumption DEF TimersOK, Timed
    <2>4. /\ \A leaseMS \in LeaseTimes : x.deadline < now' + leaseMS
          /\ x.deadline <= now' + ReservationTTL
      BY <2>2, <2>3
    <2>5. ASSUME x.pc = "parked"
          PROVE  /\ x.wake_at <= x.deadline /\ x.wake_at <= x.lease
                 /\ \A r \in HeldBy(a)' : x.wake_at <= reservations'[r].expires_at
      <3>1. /\ x.wake_at <= x.deadline /\ x.wake_at <= x.lease
            /\ \A r \in HeldBy(a) : x.wake_at <= reservations[r].expires_at
        BY <2>1, <2>5 DEF TimersOK
      <3>2. ASSUME NEW r \in HeldBy(a)' PROVE x.wake_at <= reservations'[r].expires_at
        <4>1. CASE r \in HeldBy(a) /\ reservations'[r].expires_at = reservations[r].expires_at
          BY <3>1, <4>1
        <4>2. CASE reservations'[r].expires_at = now + ReservationTTL
          BY <2>2, <2>3, <3>1, <4>2
        <4> QED BY <2>2, <4>1, <4>2 DEF HeldKept
      <3> QED BY <3>1, <3>2
    <2>6. ASSUME x.pc \in {"reserve", "arm", "parked"}, Untold(w)'
          PROVE  /\ agents'[a].execution_id = x.principal.execution
                 /\ \/ x.lease <= agents'[a].lease_expires_at
                    \/ x.deadline <= agents'[a].lease_expires_at
      <3>1. StillCurrent(w) /\ LeaseKept(a)
        BY <1>2, <2>1, <2>6 DEF TimersOK
      <3>2. agents[a].lease_expires_at \in Nat /\ agents'[a].lease_expires_at \in Nat
        BY <2>2 DEF Timed
      <3>3. /\ agents[a].execution_id = x.principal.execution
            /\ \/ x.lease <= agents[a].lease_expires_at
               \/ x.deadline <= agents[a].lease_expires_at
        BY <2>1, <3>1 DEF StillCurrent
      <3>4. agents'[a].execution_id = x.principal.execution
        BY <3>1, <3>3 DEF LeaseKept
      <3>5. CASE agents[a].lease_expires_at <= agents'[a].lease_expires_at
        BY <2>2, <3>2, <3>3, <3>4, <3>5
      <3>6. CASE \E leaseMS \in LeaseTimes : agents'[a].lease_expires_at = now + leaseMS
        <4>1. PICK leaseMS \in LeaseTimes : agents'[a].lease_expires_at = now + leaseMS
          BY <3>6
        <4> QED BY <2>2, <2>3, <3>4, <4>1
      <3> QED BY <3>1, <3>5, <3>6 DEF LeaseKept
    <2> QED BY <2>2, <2>4, <2>5, <2>6 DEF TimersOK, StillCurrent
  <1> QED BY <1>1, <1>2

(* What is remembered of a request.                                        *)
LEMMA Remembered ==
  ASSUME Remember, Timed', NEW w \in Waiters, w \notin lapsed'
  PROVE  /\ waiters'[w].pc \in {"arm", "parked"} => w \notin lapsed
         /\ waiters'[w].pc = "arm" => Quiet(AgentOf(w))'
  <1>1. waiters'[w].pc \in {"arm", "parked"} => w \notin lapsed
    BY DEF Remember
  <1>2. ASSUME waiters'[w].pc = "arm" PROVE Quiet(AgentOf(w))'
    <2>1. \A r \in HeldBy(AgentOf(w))' : ~ (reservations'[r].expires_at <= now')
      BY <1>2 DEF Remember
    <2>2. \A r \in HeldBy(AgentOf(w))' : r \in ReservationIds
      BY DEF HeldBy, Held
    <2> QED BY <2>1, <2>2 DEF Quiet, Timed
  <1> QED BY <1>1, <1>2

(* A queue that was empty stays so while nobody is told.                   *)
LEMMA EmptyKept ==
  ASSUME DeliveryInv, DeliveryInv', WaitTypeOK, CallsOK, Remember,
         NEW w \in Waiters, EmptyOK(w), TimersOK(w),
         waiters'[w] = waiters[w], now <= now',
         InCall(w) /\ Untold(w)' => Untold(w) /\ (Quiet(AgentOf(w)) => QueueKept(AgentOf(w)))
  PROVE  EmptyOK(w)'
  <1>1. CASE ~InCall(w)
    BY <1>1 DEF EmptyOK, InCall
  <1>2. CASE InCall(w)
    <2>1. PICK x, a : x = waiters[w] /\ a = AgentOf(w)
      OBVIOUS
    <2>2. /\ AgentOf(w)' = a /\ waiters'[w] = x /\ Timed /\ Timed'
          /\ x.wake_at \in Nat
      <3>1. Timed'
        BY DEF Timed, DeliveryInv, DeliveryTypeOK, RegistryTypeOK, Agent, Reservation
      <3> QED BY <2>1, <3>1, TimedHolds DEF AgentOf, WaitTypeOK, Waiter
    <2>3. ASSUME x.pc \in {"arm", "parked"}, Untold(w)', w \notin lapsed',
                 x.pc = "parked" => x.wake_at > now'
          PROVE  NothingQueued(a)'
      <3>0. /\ Untold(w) /\ w \notin lapsed /\ (x.pc = "parked" => x.wake_at > now)
            /\ Quiet(a) => QueueKept(a)
        BY <1>2, <2>1, <2>2, <2>3, Remembered DEF Timed
      <3>1. NothingQueued(a) /\ QueueKept(a)
        <4>1. NothingQueued(a)
          BY <2>1, <2>3, <3>0 DEF EmptyOK
        <4>2. CASE x.pc = "arm"
          BY <2>1, <3>0, <4>1, <4>2 DEF EmptyOK
        <4>3. CASE x.pc = "parked"
          <5>1. \A r \in HeldBy(a) : /\ x.wake_at <= reservations[r].expires_at
                                     /\ reservations[r].expires_at \in Nat
            BY <2>1, <2>2, <4>3 DEF TimersOK, HeldBy, Held, Timed
          <5>2. Quiet(a)
            BY <2>2, <3>0, <4>3, <5>1 DEF Quiet, Timed
          <5> QED BY <3>0, <4>1, <5>2
        <4> QED BY <2>3, <4>2, <4>3
      <3>2. /\ now \in Nat /\ now' \in Nat
            /\ \A m \in MessageIds : messages[m].expires_at \in Nat
        BY DEF DeliveryInv, DeliveryTypeOK, RegistryTypeOK, Message
      <3>3. ASSUME NEW m \in Available(messages, a)', messages'[m].state = "queued"
            PROVE  FALSE
        <4>1. /\ m \in MessageIds /\ messages'[m].to = a
              /\ ~ (messages'[m].expires_at # 0 /\ messages'[m].expires_at <= now')
          BY DEF Available, Overdue
        <4>2. /\ messages[m].state = "queued" /\ messages[m].to = a
              /\ messages[m].expires_at = messages'[m].expires_at
          BY <3>1, <3>3, <4>1 DEF QueueKept
        <4>3. m \in Available(messages, a)
          BY <3>2, <4>1, <4>2 DEF Available, Overdue
        <4> QED BY <3>1, <4>2, <4>3 DEF NothingQueued
      <3> QED BY <3>3 DEF NothingQueued
    <2>4. x.pc = "arm" /\ w \notin lapsed' => Quiet(AgentOf(w))'
      BY <2>2, Remembered
    <2> QED BY <2>2, <2>3, <2>4 DEF EmptyOK
  <1> QED BY <1>1, <1>2

-----------------------------------------------------------------------------
(* The steps.                                                              *)

(* Timed and the rest of the store when a step leaves the store alone.     *)
LEMMA StoreSame ==
  ASSUME DeliveryInv, UNCHANGED vars
  PROVE  /\ DeliveryInv' /\ Effect({}) /\ now' = now
         /\ agents' = agents /\ messages' = messages /\ reservations' = reservations
  <1>1. /\ now' = now /\ agents' = agents /\ messages' = messages
        /\ reservations' = reservations
    BY DEF vars, registryVars, deliveryVars
  <1>2. now \in Nat /\ \A a \in Agents : QueueKept(a)
    BY <1>1 DEF DeliveryInv, DeliveryTypeOK, RegistryTypeOK, QueueKept
  <1> QED BY <1>1, <1>2, InvPreserved, SameHeld, SameLease DEF Effect

(* What a step of request w keeps of the others.                           *)
LEMMA OthersKept ==
  ASSUME WaitInv, DeliveryInv', Effect({}), NEW w \in Waiters, pending' = pending,
         \A v \in Waiters \ {w} : waiters'[v] = waiters[v],
         \A v \in Waiters \ {w} : waiters[v].channel \in closed => waiters[v].channel \in closed'
  PROVE  /\ \A v \in Waiters \ {w} : TimersOK(v)'
         /\ Remember /\ (\A v \in Waiters : EmptyOK(v)) =>
              \A v \in Waiters \ {w} : EmptyOK(v)'
  <1>1. WaitTypeOK /\ CallsOK /\ DeliveryInv /\ now <= now' /\ HeldKept
    BY DEF WaitInv, PlaceInv, PlacesExact, Effect
  <1>2. Timed /\ Timed'
    <2>1. Timed
      BY <1>1, TimedHolds
    <2>2. Timed'
      BY DEF Timed, DeliveryInv, DeliveryTypeOK, RegistryTypeOK, Agent, Reservation
    <2> QED BY <2>1, <2>2
  <1>3. ASSUME NEW v \in Waiters \ {w}, InCall(v), Untold(v)'
        PROVE  Untold(v) /\ LeaseKept(AgentOf(v)) /\ (Quiet(AgentOf(v)) => QueueKept(AgentOf(v)))
    <2>1. AgentOf(v) \in Agents
      BY <1>1, <1>3, CallerType
    <2>2. Untold(v)
      BY <1>3 DEF Untold, AgentOf
    <2> QED BY <2>1, <2>2 DEF Effect
  <1>4. \A v \in Waiters \ {w} : TimersOK(v)'
    BY <1>1, <1>2, <1>3, TimersKept DEF WaitInv
  <1>5. ASSUME Remember, \A v \in Waiters : EmptyOK(v)
        PROVE  \A v \in Waiters \ {w} : EmptyOK(v)'
    BY <1>1, <1>3, <1>5, EmptyKept DEF WaitInv
  <1> QED BY <1>4, <1>5

(* The outcome of a step of request w.                                     *)
RequestsKept ==
  /\ WaitInv'
  /\ Remember /\ (\A v \in Waiters : EmptyOK(v)) => \A v \in Waiters : EmptyOK(v)'

(* A step of one request that gives no signal keeps the others'.           *)
LEMMA StepKeeps ==
  ASSUME WaitInv, DeliveryInv', PlaceInv', Effect({}), NEW w \in Waiters, pending' = pending,
         \A v \in Waiters \ {w} : waiters'[v] = waiters[v],
         \A v \in Waiters \ {w} : waiters[v].channel \in closed => waiters[v].channel \in closed',
         TimersOK(w)',
         Remember /\ (\A v \in Waiters : EmptyOK(v)) => EmptyOK(w)'
  PROVE  RequestsKept
  <1>1. \A v \in Waiters : TimersOK(v)'
    BY OthersKept
  <1>2. Remember /\ (\A v \in Waiters : EmptyOK(v)) => \A v \in Waiters : EmptyOK(v)'
    BY OthersKept
  <1> QED BY <1>1, <1>2 DEF RequestsKept, WaitInv

(* A return leaves nothing to keep of the request.                         *)
LEMMA ReturnKeeps ==
  ASSUME WaitInv, DeliveryInv', Effect({}), NEW w \in Waiters, pending' = pending,
         waiters[w].pc \notin {"idle", "subscribe"}, Return(w)
  PROVE  RequestsKept
  <1>1. WaitTypeOK /\ CallsOK /\ PlaceInv
    BY DEF WaitInv, PlaceInv, PlacesExact
  <1>2. InCall(w) /\ waiters[w].channel # None /\ pending' \in [Agents -> Nat]
    BY <1>1 DEF CallsOK, InCall, WaitTypeOK
  <1>3. PlaceInv'
    BY <1>1, <1>2, ReturnPlaces
  <1>4. /\ waiters'[w] = Idle /\ closed' = closed
        /\ \A v \in Waiters \ {w} : waiters'[v] = waiters[v]
    BY <1>1 DEF Return, WaitTypeOK
  <1>5. TimersOK(w)' /\ EmptyOK(w)'
    BY <1>4 DEF TimersOK, EmptyOK, InCall, Idle
  <1> QED BY <1>3, <1>4, <1>5, StepKeeps

(* A request that goes round again.                                        *)
LEMMA StartOverKeeps ==
  ASSUME WaitInv, UNCHANGED vars, NEW w \in Waiters, pending' = pending,
         waiters[w].pc \in {"arm", "parked"}, StartOver(w)
  PROVE  RequestsKept
  <1>1. WaitTypeOK /\ CallsOK /\ PlaceInv /\ DeliveryInv /\ TimersOK(w)
    BY DEF WaitInv, PlaceInv, PlacesExact
  <1>2. InCall(w) /\ waiters[w].channel # None /\ pending' \in [Agents -> Nat]
    BY <1>1 DEF CallsOK, InCall, WaitTypeOK
  <1>3. PlaceInv'
    BY <1>1, <1>2, StartOverPlaces
  <1>4. DeliveryInv' /\ Effect({}) /\ now' = now
    BY <1>1, StoreSame
  <1>5. /\ waiters'[w].pc = "subscribe" /\ waiters'[w].deadline = waiters[w].deadline
        /\ closed' = closed
        /\ \A v \in Waiters \ {w} : waiters'[v] = waiters[v]
    BY <1>1 DEF StartOver, WaitTypeOK, Waiter
  <1>6. TimersOK(w)' /\ EmptyOK(w)'
    BY <1>1, <1>2, <1>4, <1>5 DEF TimersOK, EmptyOK, InCall
  <1> QED BY <1>3, <1>4, <1>5, <1>6, StepKeeps

(* A request begins.                                                       *)
LEMMA StartKeeps ==
  ASSUME WaitInv, NEW w \in Waiters, NEW p \in KnownPrincipals, NEW wait \in WaitTimes,
         StartWait(w, p, wait)
  PROVE  RequestsKept
  <1>1. WaitTypeOK /\ PlaceInv /\ DeliveryInv /\ now \in Nat
    BY DEF WaitInv, PlaceInv, PlacesExact, DeliveryInv, DeliveryTypeOK, RegistryTypeOK
  <1>2. PlaceInv'
    BY <1>1, StartPlaces
  <1>3. UNCHANGED vars /\ closed' = closed /\ pending' = pending
    BY DEF StartWait
  <1>4. DeliveryInv' /\ Effect({}) /\ now' = now
    BY <1>1, <1>3, StoreSame
  <1>5. /\ waiters'[w].pc = "subscribe" /\ waiters'[w].deadline = now + wait
        /\ \A v \in Waiters \ {w} : waiters'[v] = waiters[v]
    <2>1. Idle \in Waiter
      BY DEF Idle, Waiter
    <2>2. waiters' = [waiters EXCEPT ![w] =
            [Idle EXCEPT !.pc = "subscribe", !.principal = p, !.deadline = now + wait]]
      BY DEF StartWait
    <2> QED BY <1>1, <2>1, <2>2 DEF WaitTypeOK, Waiter
  <1>6. TimersOK(w)' /\ EmptyOK(w)'
    <2>1. /\ \A leaseMS \in LeaseTimes : leaseMS \in Nat /\ wait < leaseMS
          /\ wait <= ReservationTTL /\ wait \in Nat /\ ReservationTTL \in Nat
      BY WaitAssumption, RegistryAssumption, DeliveryAssumption
    <2>2. /\ \A leaseMS \in LeaseTimes : now + wait < now + leaseMS
          /\ now + wait <= now + ReservationTTL
      BY <1>1, <2>1
    <2> QED BY <1>4, <1>5, <2>2 DEF TimersOK, EmptyOK, InCall
  <1> QED BY <1>2, <1>3, <1>4, <1>5, <1>6, StepKeeps

(* It takes its place and its channel.                                     *)
LEMMA SubscribeKeeps ==
  ASSUME WaitInv, NEW w \in Waiters, Subscribe(w)
  PROVE  RequestsKept
  <1>1. WaitTypeOK /\ PlaceInv /\ DeliveryInv /\ TimersOK(w)
    BY DEF WaitInv, PlaceInv, PlacesExact
  <1>2. PlaceInv'
    BY <1>1, SubscribePlaces
  <1>3. UNCHANGED vars /\ pending' = pending /\ waiters[w].pc = "subscribe"
    BY DEF Subscribe
  <1>4. DeliveryInv' /\ Effect({}) /\ now' = now
    BY <1>1, <1>3, StoreSame
  <1>5. PICK c \in ChannelIds :
       /\ IF signals[AgentOf(w)].channel = None THEN c \notin Referenced
                                                ELSE c = signals[AgentOf(w)].channel
       /\ closed' = IF signals[AgentOf(w)].channel = None THEN closed \ {c} ELSE closed
       /\ waiters' = [waiters EXCEPT ![w].pc = "authenticate", ![w].channel = c]
    BY DEF Subscribe, subscribe
  <1>6. /\ waiters'[w].pc = "authenticate" /\ waiters'[w].deadline = waiters[w].deadline
        /\ \A v \in Waiters \ {w} : waiters'[v] = waiters[v]
    BY <1>1, <1>5 DEF WaitTypeOK, Waiter
  <1>7. \A v \in Waiters \ {w} : waiters[v].channel \in closed => waiters[v].channel \in closed'
    <2>1. CASE signals[AgentOf(w)].channel = None
      BY <1>5, <2>1 DEF Referenced
    <2>2. CASE signals[AgentOf(w)].channel # None
      BY <1>5, <2>2
    <2> QED BY <2>1, <2>2
  <1>8. TimersOK(w)' /\ EmptyOK(w)'
    BY <1>1, <1>3, <1>4, <1>6 DEF TimersOK, EmptyOK, InCall
  <1> QED BY <1>2, <1>3, <1>4, <1>6, <1>7, <1>8, StepKeeps

(* It authenticates.                                                       *)
LEMMA AuthenticateKeeps ==
  ASSUME WaitInv, NEW w \in Waiters, Authenticate(w)
  PROVE  RequestsKept
  <1>1. WaitTypeOK /\ CallsOK /\ PlaceInv /\ DeliveryInv /\ TimersOK(w)
    BY DEF WaitInv, PlaceInv, PlacesExact
  <1>2. /\ UNCHANGED vars /\ pending' = pending /\ waiters[w].pc = "authenticate" /\ InCall(w)
        /\ waiters[w].channel # None
    BY <1>1 DEF Authenticate, Return, CallsOK, InCall
  <1>3. DeliveryInv' /\ Effect({}) /\ now' = now /\ agents' = agents
    BY <1>1, <1>2, StoreSame
  <1>4. CASE ~requireCurrentExecution(waiters[w].principal)
    BY <1>2, <1>3, <1>4, ReturnKeeps DEF Authenticate
  <1>5. CASE requireCurrentExecution(waiters[w].principal)
    <2> DEFINE x == [waiters[w] EXCEPT !.pc = "reserve",
                                       !.lease = agents[AgentOf(w)].lease_expires_at]
    <2>1. waiters' = [waiters EXCEPT ![w] = x] /\ UNCHANGED <<budget, signals, closed>>
      BY <1>5 DEF Authenticate
    <2>2. /\ waiters[w] \in Waiter /\ AgentOf(w) \in Agents
          /\ agents[AgentOf(w)].lease_expires_at \in Nat
      BY <1>1, <1>2, CallerType, TimedHolds DEF Timed
    <2>3. /\ x \in Waiter /\ x.pc = "reserve" /\ x.principal = waiters[w].principal
          /\ x.channel = waiters[w].channel /\ x.deadline = waiters[w].deadline
          /\ x.lease = agents[AgentOf(w)].lease_expires_at
      BY <2>2 DEF Waiter
    <2> HIDE DEF x
    <2>4. PlaceInv'
      <3>1. pending' \in [Agents -> Nat]
        BY <1>1, <1>2 DEF WaitTypeOK
      <3> QED BY <1>1, <1>2, <2>1, <2>3, <3>1, MovePlaces
    <2>5. waiters'[w] = x /\ \A v \in Waiters \ {w} : waiters'[v] = waiters[v]
      BY <1>1, <2>1 DEF WaitTypeOK
    <2>6. TimersOK(w)'
      <3>1. StillCurrent(w)'
        BY <1>3, <1>5, <2>2, <2>3, <2>5 DEF StillCurrent, AgentOf, requireCurrentExecution
      <3> QED BY <1>1, <1>2, <1>3, <2>3, <2>5, <3>1 DEF TimersOK, InCall
    <2>7. EmptyOK(w)'
      BY <2>3, <2>5 DEF EmptyOK
    <2> QED BY <1>2, <1>3, <2>1, <2>4, <2>5, <2>6, <2>7, StepKeeps
  <1> QED BY <1>4, <1>5

(* It fails or is cancelled and gives its place back.                      *)
LEMMA FailKeeps ==
  ASSUME WaitInv, NEW w \in Waiters, Fail(w) \/ Cancel(w)
  PROVE  RequestsKept
  <1>1. /\ UNCHANGED vars /\ pending' = pending /\ Return(w)
        /\ waiters[w].pc \notin {"idle", "subscribe"}
    BY DEF Fail, Cancel, Return
  <1>2. DeliveryInv' /\ Effect({})
    BY <1>1, StoreSame DEF WaitInv
  <1> QED BY <1>1, <1>2, ReturnKeeps

(* It is woken.                                                            *)
LEMMA WakeKeeps ==
  ASSUME WaitInv, NEW w \in Waiters, Wake(w)
  PROVE  RequestsKept
  BY StartOverKeeps DEF Wake, StartOver

(* A reserve that reserved nothing found nothing.                          *)
LEMMA FoundNothing ==
  ASSUME DeliveryInv, NEW p, NEW limit, ReserveInbox(p, limit), ~GotReservation
  PROVE  Available(messages, p.agent)' = {}
  <1> DEFINE expired == {r \in Held : reservations[r].expires_at <= now}
             msgs    == releaseReservations(expireMessages(messages, now), expired)
             left    == deleteReservations(expired)
  <1>1. now' = now
    BY DEF ReserveInbox, registryVars
  <1>2. \/ Available(msgs, p.agent) = {} /\ messages' = msgs
        \/ \E id \in ReservationIds :
             /\ reservations[id].row = "unused"
             /\ reservations' = [left EXCEPT ![id] =
                  [row |-> "held", agent |-> p.agent,
                   expires_at |-> now + ReservationTTL, execution |-> p.execution]]
    BY Zenon DEF ReserveInbox
  <1>3. left \in [ReservationIds -> Reservation]
    BY DeleteType DEF DeliveryInv, DeliveryTypeOK
  <1>4. ASSUME NEW id \in ReservationIds, reservations[id].row = "unused",
               reservations' = [left EXCEPT ![id] =
                  [row |-> "held", agent |-> p.agent,
                   expires_at |-> now + ReservationTTL, execution |-> p.execution]]
        PROVE  FALSE
    <2> HIDE DEF left
    <2>1. reservations'[id].row = "held"
      BY <1>3, <1>4
    <2> QED BY <1>4, <2>1 DEF GotReservation
  <1> HIDE DEF msgs, left
  <1>5. Available(msgs, p.agent) = {} /\ messages' = msgs
    BY <1>2, <1>4
  <1> QED BY <1>1, <1>5 DEF Available, Overdue

(* It reserves.                                                            *)
LEMMA ReserveKeeps ==
  ASSUME WaitInv, NEW w \in Waiters, NEW limit \in InboxLimits, Reserve(w, limit)
  PROVE  RequestsKept
  <1>0. PICK p : p = waiters[w].principal
    OBVIOUS
  <1>1. WaitTypeOK /\ CallsOK /\ PlaceInv /\ DeliveryInv /\ TimersOK(w)
    BY DEF WaitInv, PlaceInv, PlacesExact
  <1>2. /\ pending' = pending /\ waiters[w].pc = "reserve" /\ InCall(w)
        /\ waiters[w].channel # None /\ ReserveInbox(p, limit)
    BY <1>0, <1>1 DEF Reserve, Return, CallsOK, InCall
  <1>3. /\ waiters[w] \in Waiter /\ p \in KnownPrincipals /\ AgentOf(w) \in Agents
        /\ AgentOf(w) = p.agent
    BY <1>0, <1>1, <1>2, CallerType DEF AgentOf
  <1>4. DeliveryInv' /\ Effect({}) /\ now' = now /\ agents' = agents
    BY <1>1, <1>2, <1>3, ReservePreserves, ReserveEffect DEF ReserveInbox, registryVars
  <1>5. CASE GotReservation
    BY <1>2, <1>4, <1>5, ReturnKeeps DEF Reserve
  <1>6. CASE ~GotReservation
    <2> DEFINE x == [waiters[w] EXCEPT !.pc = "arm"]
    <2>1. waiters' = [waiters EXCEPT ![w] = x] /\ UNCHANGED <<budget, signals, closed>>
      BY <1>6 DEF Reserve
    <2>2. /\ x \in Waiter /\ x.pc = "arm" /\ x.principal = waiters[w].principal
          /\ x.channel = waiters[w].channel /\ x.deadline = waiters[w].deadline
          /\ x.lease = waiters[w].lease
      BY <1>3 DEF Waiter
    <2> HIDE DEF x
    <2>3. PlaceInv'
      <3>1. pending' \in [Agents -> Nat]
        BY <1>1, <1>2 DEF WaitTypeOK
      <3> QED BY <1>1, <1>2, <2>1, <2>2, <3>1, MovePlaces
    <2>4. waiters'[w] = x /\ \A v \in Waiters \ {w} : waiters'[v] = waiters[v]
      BY <1>1, <2>1 DEF WaitTypeOK
    <2>5. TimersOK(w)'
      <3>1. Untold(w)' => Untold(w)
        BY <1>2, <2>1, <2>2, <2>4 DEF Untold, AgentOf
      <3>2. StillCurrent(w) => StillCurrent(w)'
        BY <1>4, <2>2, <2>4 DEF StillCurrent, AgentOf
      <3> QED BY <1>1, <1>2, <1>4, <2>2, <2>4, <3>1, <3>2 DEF TimersOK, InCall
    <2>6. Remember => EmptyOK(w)'
      <3>1. NothingQueued(p.agent)'
        BY <1>1, <1>2, <1>6, FoundNothing DEF NothingQueued
      <3>2. AgentOf(w)' = p.agent /\ waiters'[w].pc = "arm"
        BY <1>0, <2>2, <2>4 DEF AgentOf
      <3>3. Timed'
        BY <1>4 DEF Timed, DeliveryInv, DeliveryTypeOK, RegistryTypeOK, Agent, Reservation
      <3> QED BY <3>1, <3>2, <3>3, Remembered DEF EmptyOK
    <2> QED BY <1>2, <1>4, <2>1, <2>3, <2>4, <2>5, <2>6, StepKeeps
  <1> QED BY <1>5, <1>6

(* The timer goes off at the first of its instants.                        *)
LEMMA WakeAtFirst ==
  ASSUME Timed, WaitTypeOK, NEW w \in Waiters
  PROVE  /\ WakeAt(w) \in Nat
         /\ WakeAt(w) <= waiters[w].deadline /\ WakeAt(w) <= waiters[w].lease
         /\ \A r \in HeldBy(AgentOf(w)) : WakeAt(w) <= reservations[r].expires_at
  <1> DEFINE S == {waiters[w].deadline, waiters[w].lease}
                    \cup (IF PollInterval = 0 THEN {} ELSE {now + PollInterval})
                    \cup {reservations[r].expires_at : r \in HeldBy(AgentOf(w))}
  <1>1. S \subseteq Nat
    <2>1. waiters[w].deadline \in Nat /\ waiters[w].lease \in Nat
      BY DEF WaitTypeOK, Waiter
    <2>2. \A r \in HeldBy(AgentOf(w)) : reservations[r].expires_at \in Nat
      BY DEF HeldBy, Held, Timed
    <2>3. now + PollInterval \in Nat
      BY WaitAssumption DEF Timed
    <2> QED BY <2>1, <2>2, <2>3
  <1>2. /\ waiters[w].deadline \in S /\ waiters[w].lease \in S
        /\ \A r \in HeldBy(AgentOf(w)) : reservations[r].expires_at \in S
    OBVIOUS
  <1>3. WakeAt(w) = Min(S)
    BY DEF WakeAt
  <1> HIDE DEF S
  <1>4. \E x \in S : \A y \in S : x <= y
    BY <1>1, <1>2, FirstExists
  <1>5. Min(S) \in S /\ \A y \in S : Min(S) <= y
    BY <1>4 DEF Min
  <1> QED BY <1>1, <1>2, <1>3, <1>5

(* It reads the times to wait for.                                         *)
LEMMA ArmKeeps ==
  ASSUME WaitInv, NEW w \in Waiters, Arm(w)
  PROVE  RequestsKept
  <1>1. WaitTypeOK /\ CallsOK /\ PlaceInv /\ DeliveryInv /\ TimersOK(w)
    BY DEF WaitInv, PlaceInv, PlacesExact
  <1>2. /\ UNCHANGED vars /\ pending' = pending /\ waiters[w].pc = "arm" /\ InCall(w)
        /\ waiters[w].channel # None
    BY <1>1 DEF Arm, Return, StartOver, CallsOK, InCall
  <1>3. /\ DeliveryInv' /\ Effect({}) /\ now' = now
        /\ agents' = agents /\ messages' = messages /\ reservations' = reservations
    BY <1>1, <1>2, StoreSame
  <1>4. CASE Return(w)
    BY <1>2, <1>3, <1>4, ReturnKeeps
  <1>5. CASE StartOver(w)
    BY <1>2, <1>5, StartOverKeeps
  <1>6. CASE /\ waiters' = [waiters EXCEPT ![w].pc = "parked", ![w].wake_at = WakeAt(w)]
             /\ UNCHANGED <<budget, signals, closed, pending>>
    <2> DEFINE x == [waiters[w] EXCEPT !.pc = "parked", !.wake_at = WakeAt(w)]
    <2>1. waiters' = [waiters EXCEPT ![w] = x] /\ UNCHANGED <<budget, signals, closed>>
      BY <1>6
    <2>2. /\ waiters[w] \in Waiter /\ WakeAt(w) \in Nat
          /\ WakeAt(w) <= waiters[w].deadline /\ WakeAt(w) <= waiters[w].lease
          /\ \A r \in HeldBy(AgentOf(w)) : WakeAt(w) <= reservations[r].expires_at
      BY <1>1, TimedHolds, WakeAtFirst DEF WaitTypeOK
    <2>3. /\ x \in Waiter /\ x.pc = "parked" /\ x.principal = waiters[w].principal
          /\ x.channel = waiters[w].channel /\ x.deadline = waiters[w].deadline
          /\ x.lease = waiters[w].lease /\ x.wake_at = WakeAt(w)
      BY <2>2 DEF Waiter
    <2> HIDE DEF x
    <2>4. PlaceInv'
      <3>1. pending' \in [Agents -> Nat]
        BY <1>1, <1>2 DEF WaitTypeOK
      <3> QED BY <1>1, <1>2, <2>1, <2>3, <3>1, MovePlaces
    <2>5. waiters'[w] = x /\ \A v \in Waiters \ {w} : waiters'[v] = waiters[v]
      BY <1>1, <2>1 DEF WaitTypeOK
    <2>6. Untold(w)' => Untold(w)
      BY <1>2, <2>1, <2>3, <2>5 DEF Untold, AgentOf
    <2>7. PICK a : a = AgentOf(w)
      OBVIOUS
    <2>8. AgentOf(w)' = a /\ HeldBy(a)' = HeldBy(a)
      BY <1>3, <2>3, <2>5, <2>7 DEF AgentOf, HeldBy, Held
    <2>9. TimersOK(w)'
      <3>1. StillCurrent(w) => StillCurrent(w)'
        BY <1>3, <2>3, <2>5 DEF StillCurrent, AgentOf
      <3>2. \A r \in HeldBy(AgentOf(w))' : waiters'[w].wake_at <= reservations'[r].expires_at
        BY <1>3, <2>2, <2>3, <2>5, <2>7, <2>8
      <3> QED BY <1>1, <1>2, <1>3, <2>2, <2>3, <2>5, <2>6, <3>1, <3>2 DEF TimersOK, InCall
    <2>10. Remember /\ EmptyOK(w) => EmptyOK(w)'
      <3>1. NothingQueued(a) => NothingQueued(a)'
        BY <1>3 DEF NothingQueued, Available
      <3>2. Timed' /\ waiters'[w].pc = "parked"
        BY <1>3, <2>3, <2>5
           DEF Timed, DeliveryInv, DeliveryTypeOK, RegistryTypeOK, Agent, Reservation
      <3>3. Remember => (w \notin lapsed' => w \notin lapsed)
        BY <3>2, Remembered
      <3> QED BY <1>2, <2>6, <2>7, <2>8, <3>1, <3>2, <3>3 DEF EmptyOK
    <2> QED BY <1>2, <1>3, <2>1, <2>4, <2>5, <2>9, <2>10, StepKeeps
  <1> QED BY <1>4, <1>5, <1>6 DEF Arm

(* A notification reaches whoever listens.                                 *)
LEMMA NotifyKeeps ==
  ASSUME WaitInv, NEW a \in Agents, notify(a)
  PROVE  RequestsKept
  <1>1. WaitTypeOK /\ CallsOK /\ SignalsExact /\ PlaceInv /\ DeliveryInv
    BY DEF WaitInv, PlaceInv, PlacesExact
  <1>2. PlaceInv' /\ UNCHANGED vars
    BY <1>1, NotifyPlaces DEF notify
  <1>3. DeliveryInv' /\ Effect({}) /\ now' = now
    BY <1>1, <1>2, StoreSame
  <1>4. Timed /\ Timed' /\ now <= now' /\ HeldKept
    <2>1. Timed
      BY <1>1, TimedHolds
    <2>2. Timed'
      BY <1>3 DEF Timed, DeliveryInv, DeliveryTypeOK, RegistryTypeOK, Agent, Reservation
    <2> QED BY <1>3, <2>1, <2>2 DEF Effect
  <1>5. /\ waiters' = waiters
        /\ closed' = closed \cup ({signals[a].channel} \ {None})
        /\ pending' = [pending EXCEPT ![a] = pending[a] - 1]
    BY DEF notify
  <1>6. ASSUME NEW v \in Waiters, InCall(v), Untold(v)'
        PROVE  Untold(v) \/ waiters[v].pc = "subscribe"
    <2>1. AgentOf(v) \in Agents /\ v \in CallersOf(AgentOf(v))
      BY <1>1, <1>6, CallerType
    <2>2. CASE AgentOf(v) = a /\ waiters[v].channel # None
      <3>1. v \in Subscribers(a)
        BY <1>5, <1>6, <2>1, <2>2 DEF Subscribers, Untold
      <3>2. waiters[v].channel = signals[a].channel
        BY <1>1, <3>1 DEF SignalsExact
      <3> QED BY <1>5, <1>6, <2>2, <3>2 DEF Untold
    <2>3. CASE AgentOf(v) # a
      BY <1>1, <1>5, <1>6, <2>1, <2>3 DEF Untold, AgentOf, WaitTypeOK
    <2>4. CASE waiters[v].channel = None
      BY <1>1, <1>6, <2>4 DEF CallsOK, InCall
    <2> QED BY <2>2, <2>3, <2>4
  <1>7. ASSUME NEW v \in Waiters PROVE TimersOK(v)'
    <2>1. CASE waiters[v].pc = "subscribe"
      BY <1>3, <1>5, <2>1 DEF TimersOK, InCall, WaitInv
    <2>2. CASE waiters[v].pc # "subscribe"
      <3>1. InCall(v) => AgentOf(v) \in Agents
        BY <1>1, CallerType
      <3>2. InCall(v) /\ Untold(v)' => Untold(v) /\ LeaseKept(AgentOf(v))
        BY <1>3, <1>6, <2>2, <3>1 DEF Effect
      <3> QED BY <1>1, <1>4, <1>5, <3>2, TimersKept DEF WaitInv
    <2> QED BY <2>1, <2>2
  <1>8. ASSUME Remember, NEW v \in Waiters, EmptyOK(v) PROVE EmptyOK(v)'
    <2>1. CASE waiters[v].pc = "subscribe"
      BY <1>5, <2>1 DEF EmptyOK
    <2>2. CASE waiters[v].pc # "subscribe"
      <3>1. InCall(v) => AgentOf(v) \in Agents
        BY <1>1, CallerType
      <3>2. InCall(v) /\ Untold(v)' =>
              Untold(v) /\ (Quiet(AgentOf(v)) => QueueKept(AgentOf(v)))
        BY <1>3, <1>6, <2>2, <3>1 DEF Effect
      <3> QED BY <1>1, <1>3, <1>4, <1>5, <1>8, <3>2, EmptyKept DEF WaitInv
    <2> QED BY <2>1, <2>2
  <1> QED BY <1>2, <1>3, <1>7, <1>8 DEF RequestsKept, WaitInv

(* A transaction tells whom it concerns.                                   *)
LEMMA OperationKeeps ==
  ASSUME WaitInv, DeliveryInv', NEW S \in SUBSET Agents, Notifies(S), Effect(S)
  PROVE  RequestsKept
  <1>1. WaitTypeOK /\ CallsOK /\ DeliveryInv /\ now <= now' /\ HeldKept
    BY DEF WaitInv, PlaceInv, PlacesExact, Effect
  <1>2. /\ waiters' = waiters /\ budget' = budget /\ signals' = signals /\ closed' = closed
        /\ pending' = [a \in Agents |-> IF a \in S THEN pending[a] + 1 ELSE pending[a]]
    BY DEF Notifies
  <1>3. PlaceInv'
    <2>1. pending' \in [Agents -> Nat]
      BY <1>1, <1>2 DEF WaitTypeOK
    <2>2. /\ Callers' = Callers /\ (\A a : CallersOf(a)' = CallersOf(a))
          /\ \A a : Subscribers(a)' = Subscribers(a)
      BY <1>2 DEF Callers, CallersOf, Subscribers, InCall, AgentOf
    <2>3. WaitTypeOK' /\ CallsOK' /\ OwnChannels'
      BY <1>1, <1>2, <2>1, <2>2 DEF WaitTypeOK, CallsOK, OwnChannels, InCall, WaitInv, PlaceInv
    <2>4. BudgetExact' /\ SignalsExact'
      BY <1>2, <2>2 DEF BudgetExact, SignalsExact, WaitInv, PlaceInv, PlacesExact
    <2> QED BY <2>3, <2>4 DEF PlaceInv, PlacesExact
  <1>4. Timed /\ Timed'
    <2>1. Timed
      BY <1>1, TimedHolds
    <2>2. Timed'
      BY DEF Timed, DeliveryInv, DeliveryTypeOK, RegistryTypeOK, Agent, Reservation
    <2> QED BY <2>1, <2>2
  <1>5. ASSUME NEW v \in Waiters, InCall(v), Untold(v)'
        PROVE  /\ Untold(v) /\ LeaseKept(AgentOf(v))
               /\ Quiet(AgentOf(v)) => QueueKept(AgentOf(v))
    <2>1. PICK a : a = AgentOf(v)
      OBVIOUS
    <2>2. a \in Agents /\ pending[a] \in Nat
      BY <1>1, <1>5, <2>1, CallerType DEF WaitTypeOK
    <2>3. pending'[a] = 0 /\ waiters[v].channel \notin closed
      BY <1>2, <1>5, <2>1 DEF Untold, AgentOf
    <2>4. a \notin S /\ pending[a] = 0
      BY <1>2, <2>2, <2>3
    <2> QED BY <2>1, <2>2, <2>3, <2>4 DEF Untold, Effect
  <1>6. \A v \in Waiters : TimersOK(v)'
    BY <1>1, <1>2, <1>4, <1>5, TimersKept DEF WaitInv
  <1>7. ASSUME Remember, \A v \in Waiters : EmptyOK(v)
        PROVE  \A v \in Waiters : EmptyOK(v)'
    BY <1>1, <1>2, <1>5, <1>7, EmptyKept DEF WaitInv
  <1> QED BY <1>3, <1>6, <1>7 DEF RequestsKept, WaitInv

-----------------------------------------------------------------------------
(* The invariant at the beginning.                                         *)
LEMMA WaitInvInit ==
  ASSUME WaitInit
  PROVE  WaitInv /\ \A w \in Waiters : EmptyOK(w)
  <1>1. DeliveryInv
    BY InitInv DEF WaitInit
  <1>2. /\ waiters = [w \in Waiters |-> Idle]
        /\ budget = [agent |-> [a \in Agents |-> 0], scope |-> 0]
        /\ signals = [a \in Agents |-> NoSignal]
        /\ closed = {} /\ pending = [a \in Agents |-> 0]
    BY DEF WaitInit
  <1>3. /\ Idle \in Waiter /\ Idle.pc = "idle" /\ Idle.channel = None
        /\ NoSignal \in [channel : ChannelIds \cup {None}, waiters : Nat]
        /\ NoSignal.channel = None /\ NoSignal.waiters = 0
    BY DEF Idle, Waiter, NoSignal
  <1>4. /\ Callers = {} /\ (\A a : CallersOf(a) = {}) /\ \A a : Subscribers(a) = {}
    BY <1>2, <1>3 DEF Callers, CallersOf, Subscribers, InCall
  <1>5. IsFiniteSet({}) /\ Cardinality({}) = 0
    BY FS_EmptySet
  <1>6. WaitTypeOK /\ CallsOK /\ OwnChannels
    BY <1>2, <1>3, <1>4, <1>5 DEF WaitTypeOK, CallsOK, OwnChannels, InCall
  <1>7. BudgetExact /\ SignalsExact
    BY <1>2, <1>3, <1>4, <1>5 DEF BudgetExact, SignalsExact
  <1>8. \A w \in Waiters : TimersOK(w) /\ EmptyOK(w)
    BY <1>2, <1>3 DEF TimersOK, EmptyOK, InCall
  <1> QED BY <1>1, <1>6, <1>7, <1>8 DEF WaitInv, PlaceInv, PlacesExact

(* Every step keeps the invariant.                                         *)
LEMMA WaitInvNext ==
  ASSUME WaitInv, [WaitStep]_<<vars, waitVars>>
  PROVE  RequestsKept
  <1>1. ASSUME UNCHANGED <<vars, waitVars>> PROVE RequestsKept
    <2>1. UNCHANGED vars /\ waiters' = waiters /\ budget' = budget /\ signals' = signals
          /\ closed' = closed /\ pending' = pending
      BY <1>1 DEF waitVars
    <2>2. DeliveryInv' /\ Effect({})
      BY <2>1, StoreSame DEF WaitInv
    <2>3. Notifies({})
      <3>1. pending' = [a \in Agents |-> IF a \in {} THEN pending[a] + 1 ELSE pending[a]]
        BY <2>1 DEF WaitInv, PlaceInv, PlacesExact, WaitTypeOK
      <3> QED BY <2>1, <3>1 DEF Notifies
    <2> QED BY <2>2, <2>3, OperationKeeps
  <1>2. ASSUME ExecutionOps \/ InboxOps PROVE RequestsKept
    <2>1. DeliveryInv'
      <3>1. ExecutionOps => RegistryNext
        BY Zenon DEF ExecutionOps, RegistryNext
      <3>2. InboxOps => InboxNext \/ HumanNext
        BY Zenon DEF InboxOps, InboxNext, HumanNext, CommitOp, ReleaseOp
      <3> QED BY <1>2, <3>1, <3>2, InvPreserved DEF DeliveryNext, WaitInv
    <2>2. PICK S \in SUBSET Agents : Notifies(S) /\ Effect(S)
      BY <1>2, OperationsAnnounced DEF WaitInv, Announced
    <2> QED BY <2>1, <2>2, OperationKeeps
  <1> HIDE DEF RequestsKept
  <1>3. ASSUME NEW w \in Waiters, WaiterNext(w) \/ Cancel(w) PROVE RequestsKept
    BY <1>3, SubscribeKeeps, AuthenticateKeeps, ArmKeeps, WakeKeeps, ReserveKeeps, FailKeeps, Zenon
       DEF WaiterNext
  <1> QED BY <1>1, <1>2, <1>3, StartKeeps, NotifyKeeps, Zenon DEF WaitStep

(* So it always holds.                                                     *)
LEMMA WaitInvHolds == WaitSpec => []WaitInv
  <1>1. WaitInit => WaitInv
    BY WaitInvInit
  <1>2. WaitInv /\ [WaitNext]_allVars => WaitInv'
    BY WaitInvNext DEF RequestsKept, WaitNext, allVars
  <1> QED BY <1>1, <1>2, PTL DEF WaitSpec

(* Every place a request takes is given back once and only once, on every  *)
(* path out of Runtime.ReserveInbox: for every number of agents, requests  *)
(* and channels.                                                           *)
THEOREM PlacesAreExact == WaitSpec => []PlacesExact
  <1>1. WaitInv => PlacesExact
    BY DEF WaitInv, PlaceInv
  <1> QED BY <1>1, WaitInvHolds, PTL

(* A reservation that runs out wakes the parked requests of its agent      *)
(* (NextInboxReservationExpiry).                                           *)
THEOREM LapsesWake == WaitSpec => []LapseWakes
  <1>1. WaitInv => LapseWakes
    <2> SUFFICES ASSUME WaitInv, NEW w \in Waiters, Asleep(w), NEW r \in HeldBy(AgentOf(w))
                 PROVE  reservations[r].expires_at > now
      BY DEF LapseWakes
    <2>1. /\ waiters[w].wake_at <= reservations[r].expires_at /\ waiters[w].wake_at > now
      BY DEF WaitInv, TimersOK, Asleep
    <2>2. waiters[w].wake_at \in Nat /\ Timed /\ r \in ReservationIds
      BY TimedHolds DEF WaitInv, PlaceInv, PlacesExact, WaitTypeOK, Waiter, HeldBy, Held
    <2> QED BY <2>1, <2>2 DEF Timed
  <1> QED BY <1>1, WaitInvHolds, PTL

(* A parked request that nothing is about to wake belongs to the current   *)
(* execution of its agent: none sleeps on, with no signal, no notification *)
(* to come and a timer still ahead, once its execution was replaced,       *)
(* retired or revoked, or its lease ran out (Runtime.ReserveInbox).        *)
THEOREM WaitsKeepAuthority == WaitSpec => []WaitEndsWithAuthority
  <1>1. WaitInv => WaitEndsWithAuthority
    <2> SUFFICES ASSUME WaitInv, NEW w \in Waiters, Asleep(w)
                 PROVE  requireCurrentExecution(waiters[w].principal)
      BY DEF WaitEndsWithAuthority
    <2>1. PICK a, x : a = AgentOf(w) /\ x = waiters[w]
      OBVIOUS
    <2>2. /\ x.wake_at > now /\ x.wake_at <= x.deadline /\ x.wake_at <= x.lease
          /\ StillCurrent(w)
      BY <2>1 DEF WaitInv, TimersOK, Asleep, Untold
    <2>3. /\ x.wake_at \in Nat /\ x.deadline \in Nat /\ x.lease \in Nat /\ Timed
      BY <2>1, TimedHolds DEF WaitInv, PlaceInv, PlacesExact, WaitTypeOK, Waiter
    <2>4. a \in Agents
      BY <2>1, CallerType DEF Asleep, InCall, WaitInv, PlaceInv, PlacesExact
    <2> QED BY <2>1, <2>2, <2>3, <2>4 DEF StillCurrent, requireCurrentExecution, Timed, AgentOf
  <1> QED BY <1>1, WaitInvHolds, PTL

(* A request that sleeps missed no message that was never delivered, save  *)
(* one of a reservation that ran out between its look and its timer: no    *)
(* send, release, re-registration or later lapse goes past it.             *)
THEOREM NoQueuedWorkMissed == WaitSpec => []NoWorkMissed
  <1> DEFINE AllEmpty == \A w \in Waiters : EmptyOK(w)
  <1>1. WaitInit => AllEmpty
    BY WaitInvInit
  <1>2. WaitInv /\ AllEmpty /\ [WaitNext]_allVars => AllEmpty'
    <2> SUFFICES ASSUME WaitInv, AllEmpty, [WaitNext]_allVars PROVE AllEmpty'
      OBVIOUS
    <2>1. CASE WaitNext
      BY <2>1, WaitInvNext DEF RequestsKept, WaitNext
    <2>2. CASE UNCHANGED allVars
      BY <2>2 DEF allVars, waitVars, vars, registryVars, deliveryVars, EmptyOK, Quiet,
         HeldBy, Held, AgentOf, Untold, NothingQueued, Available, Overdue
    <2> QED BY <2>1, <2>2
  <1>3. AllEmpty => \A w \in Waiters \ lapsed : Asleep(w) =>
          \A m \in Available(messages, AgentOf(w)) : messages[m].state # "queued"
    BY DEF EmptyOK, Asleep, Untold, NothingQueued
  <1> HIDE DEF AllEmpty
  <1> QED BY <1>1, <1>2, <1>3, LapsesWake, WaitInvHolds, PTL DEF WaitSpec, NoWorkMissed

(* No request that waits on the server, for events or for messages, is     *)
(* left behind, keeps a place or outlives its authority: whatever the      *)
(* number of clients, agents and requests, and their limits.               *)
THEOREM LongPollsAreSound == EventWaitSpec /\ WaitSpec => []LongPollsSound
  BY WaitersMissNothing, PlacesAreReturned, WaitsKeepAuthority, PTL DEF LongPollsSound
=============================================================================
