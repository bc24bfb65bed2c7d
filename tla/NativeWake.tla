----------------------------- MODULE NativeWake -----------------------------
(***************************************************************************)
(* Native wake of idle agents: Store.ClaimWake, FinishWake and RetryWake   *)
(* (bus/native_wake.go) with the listener of internal/nativewake, over the *)
(* transactions of Delivery.                                               *)
(*                                                                         *)
(* A listener claims an attempt for a batch of pending messages, writes a  *)
(* prompt to the provider's session, and records the outcome.  It may stop *)
(* at any point, its answers may be lost, and two may overlap when one is  *)
(* restarted.  The prompt is no receipt: messages are not changed.         *)
(*                                                                         *)
(* The long poll of Runtime.ClaimWake is the one of InboxWait and is left  *)
(* out, and so are provider, last_seen_at and last_outcome, which only the *)
(* wake status shows, and the event of a recorded outcome.  FinishWake and *)
(* RetryWake read the clock more than once; nothing tells the instants     *)
(* apart.                                                                  *)
(***************************************************************************)
EXTENDS Delivery

CONSTANTS
  Listeners,     \* listener processes
  WakeSpacing,   \* two seconds between two attempts of an execution
  WakeStale,     \* thirty seconds, after which a dispatcher counts as lost
  WakeTries,     \* five attempts at an unavailable provider
  WakeBatch,     \* messages in an attempt, twenty
  MaxAttempts    \* bound: attempts made

ASSUME WakeAssumption ==
  /\ WakeSpacing \in Nat \ {0}
  /\ WakeStale \in Nat
  /\ WakeTries \in Nat \ {0}
  /\ WakeBatch \in Nat \ {0}
  /\ MaxAttempts \in Nat

VARIABLES
  connections,   \* wake_connections by agent: execution_id and last_attempt_at
  attempts,      \* wake_attempts by execution and message
  issued,        \* the attempt IDs drawn so far are 1..issued
  listeners,     \* the listener processes
  written        \* history: the attempts whose prompt may have reached the
                 \* provider, less those that an explicit retry released

wakeVars == <<connections, attempts, issued, listeners, written>>

Executions == [agent : Agents, execution : 1..MaxExecutions]
WakeRows   == Executions \X MessageIds   \* the keys of wake_attempts

(* No row has the outcome "none".                                          *)
Attempt == [attempt_id : 0..MaxAttempts,
            outcome : {"none", "dispatching", "submitted", "unavailable", "uncertain"},
            tries : 0..WakeTries, updated_at : Nat]

NoAttempt == [attempt_id |-> 0, outcome |-> "none", tries |-> 0, updated_at |-> 0]

(* batch is history: the messages of the attempt that no retry released    *)
(* since it was claimed.  The prompt names all of them.                    *)
Listener == [pc : {"idle", "claimed", "posted"}, principal : Executions \cup {None},
             attempt_id : 0..MaxAttempts, batch : SUBSET MessageIds,
             outcome : {"none", "submitted", "unavailable", "uncertain"}]

Listening == [pc |-> "idle", principal |-> None, attempt_id |-> 0, batch |-> {},
              outcome |-> "none"]

-----------------------------------------------------------------------------
(* Fault: an attempt without an outcome is taken for unavailable.          *)
Swept_Unavailable(p) ==
  [x \in WakeRows |->
     IF /\ x[1] = p /\ attempts[x].outcome = "dispatching"
        /\ attempts[x].updated_at + WakeStale < now
     THEN [attempts[x] EXCEPT !.outcome = "unavailable", !.updated_at = now]
     ELSE attempts[x]]

(* A dispatcher that did not report in time may have written to the        *)
(* provider.                                                               *)
Swept(p) ==
  [x \in WakeRows |->
     IF /\ x[1] = p /\ attempts[x].outcome = "dispatching"
        /\ attempts[x].updated_at + WakeStale < now
     THEN [attempts[x] EXCEPT !.outcome = "uncertain", !.updated_at = now]
     ELSE attempts[x]]

(* Fault: every claim starts the connection afresh.                        *)
Connected_Afresh(p) == [execution_id |-> p.execution, last_attempt_at |-> 0]

(* The connection of a new execution starts without a last attempt.        *)
Connected(p) ==
  IF connections[p.agent].execution_id = p.execution THEN connections[p.agent]
  ELSE [execution_id |-> p.execution, last_attempt_at |-> 0]

TooSoon(p) ==
  Connected(p).last_attempt_at # 0 /\ Connected(p).last_attempt_at + WakeSpacing > now

(* Fault: a retry of an unavailable provider is not limited.               *)
Due_Unlimited(p, m, rows) ==
  \/ rows[<<p, m>>].outcome = "none"
  \/ /\ rows[<<p, m>>].outcome = "unavailable"
     /\ rows[<<p, m>>].updated_at + WakeStale < now

(* Fault: an attempt whose outcome is unknown is tried again.              *)
Due_Uncertain(p, m, rows) ==
  \/ rows[<<p, m>>].outcome = "none"
  \/ /\ rows[<<p, m>>].outcome \in {"unavailable", "uncertain"}
     /\ rows[<<p, m>>].tries < WakeTries
     /\ rows[<<p, m>>].updated_at + WakeStale < now

(* Never tried, or the provider was not there some time ago.               *)
Due(p, m, rows) ==
  \/ rows[<<p, m>>].outcome = "none"
  \/ /\ rows[<<p, m>>].outcome = "unavailable" /\ rows[<<p, m>>].tries < WakeTries
     /\ rows[<<p, m>>].updated_at + WakeStale < now

(* The transaction of ClaimWake.  Without an attempt the listener claims   *)
(* again.                                                                  *)
ClaimWake(l, p) ==
  LET rows == Swept(p)
      due  == {m \in Available(messages, p.agent) : Due(p, m, rows)} IN
  /\ listeners[l].pc = "idle"
  /\ requireCurrentExecution(p)
  /\ \/ /\ TooSoon(p) \/ due = {}
        /\ attempts' = rows
        /\ connections' = [connections EXCEPT ![p.agent] = Connected(p)]
        /\ UNCHANGED <<issued, listeners>>
     \/ /\ ~TooSoon(p) /\ due # {}
        /\ issued < MaxAttempts
        /\ issued' = issued + 1
        /\ \E batch \in OldestFirst(messages, due, WakeBatch) :
             /\ attempts' = [x \in WakeRows |->
                  IF x[1] = p /\ x[2] \in batch
                  THEN [attempt_id |-> issued + 1, outcome |-> "dispatching",
                        tries |-> rows[x].tries + 1, updated_at |-> now]
                  ELSE rows[x]]
             /\ listeners' = [listeners EXCEPT ![l] =
                  [pc |-> "claimed", principal |-> p, attempt_id |-> issued + 1,
                   batch |-> batch, outcome |-> "none"]]
        /\ connections' = [connections EXCEPT ![p.agent] =
             [execution_id |-> p.execution, last_attempt_at |-> now]]
  /\ UNCHANGED <<vars, written>>

(* Post: unavailable means that nothing was written; otherwise the prompt  *)
(* may have arrived.                                                       *)
Post(l, outcome) ==
  LET w == listeners[l] IN
  /\ w.pc = "claimed"
  /\ listeners' = [listeners EXCEPT ![l].pc = "posted", ![l].outcome = outcome,
                                    ![l].batch = {}]
  /\ written' = [x \in WakeRows |->
       IF outcome # "unavailable" /\ x[1] = w.principal /\ x[2] \in w.batch
       THEN written[x] \cup {w.attempt_id} ELSE written[x]]
  /\ UNCHANGED <<vars, connections, attempts, issued>>

(* Only an attempt that still dispatches takes an outcome.  Any other is   *)
(* unknown, or recorded already.                                           *)
FinishWake(p, id, outcome) ==
  attempts' = [x \in WakeRows |->
    IF x[1] = p /\ attempts[x].attempt_id = id /\ attempts[x].outcome = "dispatching"
    THEN [attempts[x] EXCEPT !.outcome = outcome, !.updated_at = now] ELSE attempts[x]]

(* The listener reports, and goes on whether or not that succeeded.        *)
Finish(l) ==
  LET w == listeners[l] IN
  /\ w.pc = "posted"
  /\ IF requireCurrentExecution(w.principal)
     THEN FinishWake(w.principal, w.attempt_id, w.outcome)
     ELSE UNCHANGED attempts
  /\ listeners' = [listeners EXCEPT ![l] = Listening]
  /\ UNCHANGED <<vars, connections, issued, written>>

(* The listener stops, or an answer to or from it is lost.                 *)
Crash(l) ==
  /\ listeners[l].pc # "idle"
  /\ listeners' = [listeners EXCEPT ![l] = Listening]
  /\ UNCHANGED <<vars, connections, attempts, issued, written>>

(* A dispatcher that may still be at work.                                 *)
Dispatching(row) == row.outcome = "dispatching" /\ row.updated_at + WakeStale >= now

(* Somebody has looked at the provider's session and asks for another try. *)
RetryWake(p, S) ==
  /\ requireCurrentExecution(p)
  /\ S # {} /\ \A m \in S : ~Dispatching(attempts[<<p, m>>])
  /\ attempts' = [x \in WakeRows |->
       IF x[1] = p /\ x[2] \in S THEN NoAttempt ELSE attempts[x]]
  /\ written' = [x \in WakeRows |->
       IF x[1] = p /\ x[2] \in S THEN written[x] \ {attempts[x].attempt_id}
       ELSE written[x]]
  /\ listeners' = [l \in Listeners |-> [listeners[l] EXCEPT !.batch =
       {m \in @ : ~ (/\ listeners[l].principal = p /\ m \in S
                     /\ listeners[l].attempt_id = attempts[<<p, m>>].attempt_id)}]]
  /\ UNCHANGED <<vars, connections, issued>>

(* A message that retention removes takes its attempts along (ON DELETE    *)
(* CASCADE).                                                               *)
Cascade ==
  /\ attempts' = [x \in WakeRows |->
       IF messages'[x[2]].state = "removed" THEN NoAttempt ELSE attempts[x]]
  /\ UNCHANGED <<connections, issued, listeners, written>>

WakeTablesInit ==
  /\ connections = [a \in Agents |-> [execution_id |-> 0, last_attempt_at |-> 0]]
  /\ attempts = [x \in WakeRows |-> NoAttempt]
  /\ issued = 0
  /\ listeners = [l \in Listeners |-> Listening]
  /\ written = [x \in WakeRows |-> {}]

WakeInit == DeliveryInit /\ WakeTablesInit

WakeNext ==
  \/ DeliveryNext /\ Cascade
  \/ \E l \in Listeners, p \in KnownPrincipals : ClaimWake(l, p)
  \/ \E l \in Listeners, outcome \in {"submitted", "unavailable", "uncertain"} : Post(l, outcome)
  \/ \E l \in Listeners : Finish(l) \/ Crash(l)
  \/ \E p \in KnownPrincipals, S \in SUBSET MessageIds : RetryWake(p, S)

WakeSpec == WakeInit /\ [][WakeNext]_<<vars, wakeVars>>

-----------------------------------------------------------------------------
(* Type correctness, with the limit on tries.                              *)
WakeTypeOK ==
  /\ connections \in [Agents -> [execution_id : Nat, last_attempt_at : Nat]]
  /\ attempts \in [WakeRows -> Attempt]
  /\ issued \in 0..MaxAttempts
  /\ listeners \in [Listeners -> Listener]
  /\ written \in [WakeRows -> SUBSET (1..MaxAttempts)]

(* "uncertain/submitted attempts never automatically replay"               *)
(* (spec/0.1/http.md): a session is prompted twice about one message only  *)
(* when the first attempt was explicitly released, however listeners       *)
(* crash, overlap, lose their answers or report late.                      *)
ReplayOnlyOnRequest ==
  \A x \in WakeRows :
    \A i, j \in written[x] : i = j

(* A prompt that may have arrived stays on record until somebody releases  *)
(* it or the message goes: no lost or late report turns it into one that   *)
(* was not made, or that the provider was not there for.                   *)
UncertaintyKept ==
  \A x \in WakeRows :
    written[x] # {} /\ messages[x[2]].state # "removed" =>
      attempts[x].outcome \in {"dispatching", "submitted", "uncertain"}

(* "limits submissions to one per two seconds": attempts of one execution  *)
(* that are under way at the same time began WakeSpacing apart.            *)
WakesSpaced ==
  \A p \in Executions : \A m, n \in MessageIds :
    LET x == attempts[<<p, m>>]
        y == attempts[<<p, n>>] IN
    (x.outcome = "dispatching" /\ y.outcome = "dispatching" /\ x.attempt_id < y.attempt_id)
      => x.updated_at + WakeSpacing <= y.updated_at

(* Nothing that may have reached a provider is repeated unasked or struck  *)
(* from the record (ClaimWake, FinishWake, RetryWake).                     *)
PromptsSound == ReplayOnlyOnRequest /\ UncertaintyKept

(* A session is not bothered too often: tries of one message are limited,  *)
(* and attempts under way are spaced (ClaimWake).                          *)
AttemptsBounded == WakeTypeOK /\ WakesSpaced
=============================================================================
