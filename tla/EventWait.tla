----------------------------- MODULE EventWait -----------------------------
(***************************************************************************)
(* Long polling of the event log: Runtime.Events with a wait (events.go)   *)
(* over the signal of the scope (inbox_wait.go), and the operations of     *)
(* bus/runtime.go that commit a transaction and then notify the scope.     *)
(*                                                                         *)
(* The channel of the scope is the set of requests subscribed to it: its   *)
(* waiters are counted, and notify closes it for all of them at once and   *)
(* forgets it.  A commit and its notification are two steps.  Three kinds  *)
(* of commit come with no notification: CommitInbox of a reservation that  *)
(* expired answers with an error although it committed message.released,   *)
(* TaskPage commits the claims it sweeps, and another process on the same  *)
(* Postgres database signals only its own requests.                        *)
(***************************************************************************)
EXTENDS EventLog

CONSTANTS
  MaxScopeEventWaiters,   \* maxScopeEventWaiters
  Polls,                  \* Postgres: a parked request looks again every second
  MaxScopeTokens,         \* bound: tokens the scope has in turn
  MaxUnannounced          \* bound: commits whose notification is outstanding

ASSUME EventWaitAssumption ==
  /\ MaxScopeEventWaiters \in Nat \ {0}
  /\ Polls \in BOOLEAN
  /\ MaxScopeTokens \in Nat
  /\ MaxUnannounced \in Nat

VARIABLES
  calls,         \* the requests, one per client
  subscribed,    \* the requests on the current channel of the scope
  current,       \* the scope token in force
  unannounced,   \* committed operations that have not notified yet
  silent         \* history: revisions committed with no notification here

pollVars == <<calls, subscribed, current, unannounced, silent>>

NoCall == [pc |-> "idle", token |-> 0, late |-> FALSE, signaled |-> FALSE]

Waiting(c) == calls[c].pc # "idle"

Goto(c, pc) == calls' = [calls EXCEPT ![c].pc = pc]

EventWaitInit ==
  /\ EventInit
  /\ calls = [c \in Clients |-> NoCall]
  /\ subscribed = {}
  /\ current = 1
  /\ unannounced = 0
  /\ silent = {}

-----------------------------------------------------------------------------
(* Operations.                                                             *)

(* An operation commits; its caller notifies the scope afterwards.         *)
Commit(n, at) ==
  /\ unannounced < MaxUnannounced
  /\ unannounced' = unannounced + 1
  /\ Record(n, at)
  /\ UNCHANGED <<calls, subscribed, current, silent>>

(* So does the deletion of old events, which may move the floor.           *)
CommitPrune(n, at, before) ==
  /\ unannounced < MaxUnannounced
  /\ unannounced' = unannounced + 1
  /\ PruneScope(n, at, before)
  /\ UNCHANGED <<calls, subscribed, current, silent>>

CommitSilently(n, at) ==
  /\ Record(n, at)
  /\ silent' = silent \cup (log.revision + 1)..(log.revision + n)
  /\ UNCHANGED <<calls, subscribed, current, unannounced>>

(* RotateScopeToken ends the authority of every call in flight.            *)
RotateToken ==
  /\ current < MaxScopeTokens
  /\ unannounced < MaxUnannounced
  /\ current' = current + 1
  /\ unannounced' = unannounced + 1
  /\ UNCHANGED <<eventVars, calls, subscribed, silent>>

(* Fault: a request that has not reached its select yet is not woken.      *)
notifyScope_ParkedOnly ==
  /\ unannounced > 0
  /\ unannounced' = unannounced - 1
  /\ calls' = [c \in Clients |->
       [calls[c] EXCEPT !.signaled = @ \/ (c \in subscribed /\ calls[c].pc = "parked")]]
  /\ subscribed' = {}
  /\ UNCHANGED <<eventVars, current, silent>>

notifyScope ==
  /\ unannounced > 0
  /\ unannounced' = unannounced - 1
  /\ calls' = [c \in Clients |-> [calls[c] EXCEPT !.signaled = @ \/ c \in subscribed]]
  /\ subscribed' = {}
  /\ UNCHANGED <<eventVars, current, silent>>

-----------------------------------------------------------------------------
(* A request.                                                              *)

StartPoll(c) ==
  /\ ~Waiting(c)
  /\ calls' = [calls EXCEPT ![c] = [NoCall EXCEPT !.pc = "subscribe", !.token = current]]
  /\ UNCHANGED <<eventVars, subscribed, current, unannounced, silent>>

(* A request without a wait reads once.                                    *)
ReadNow(c, limit) ==
  /\ ~Waiting(c)
  /\ Events(c, limit)
  /\ UNCHANGED pollVars

(* Fault: an early return keeps its place on the channel.                  *)
EndPoll_StaysSubscribed(c) ==
  /\ calls' = [calls EXCEPT ![c] = NoCall]
  /\ UNCHANGED subscribed

EndPoll(c) ==
  /\ calls' = [calls EXCEPT ![c] = NoCall]
  /\ subscribed' = subscribed \ {c}

(* subscribeLimited: over the limit the answer is BACKPRESSURE, also when  *)
(* a request that was woken subscribes again.                              *)
SubscribeScope(c) ==
  /\ calls[c].pc = "subscribe"
  /\ IF Cardinality(subscribed) >= MaxScopeEventWaiters
     THEN EndPoll(c)
     ELSE /\ subscribed' = subscribed \cup {c}
          /\ Goto(c, "authority")
  /\ UNCHANGED <<eventVars, current, unannounced, silent>>

scopeAuthority(c) ==
  /\ calls[c].pc = "authority"
  /\ IF calls[c].token = current
     THEN Goto(c, "read") /\ UNCHANGED subscribed
     ELSE EndPoll(c)
  /\ UNCHANGED <<eventVars, current, unannounced, silent>>

(* The read found nothing to return.                                       *)
Empty(c) == cursor'[c] = cursor[c] /\ cursor[c] >= log.floor

(* Fault: authority is checked before the transaction, not in it.          *)
ReadEvents_NoRecheck(c, limit) ==
  /\ calls[c].pc = "read"
  /\ Events(c, limit)
  /\ IF Empty(c) /\ ~calls[c].late THEN Goto(c, "arm") /\ UNCHANGED subscribed ELSE EndPoll(c)
  /\ UNCHANGED <<current, unannounced, silent>>

(* Fault: only events end the wait.                                        *)
ReadEvents_NoDeadline(c, limit) ==
  /\ calls[c].pc = "read"
  /\ IF calls[c].token = current
     THEN /\ Events(c, limit)
          /\ IF Empty(c) THEN Goto(c, "arm") /\ UNCHANGED subscribed ELSE EndPoll(c)
     ELSE EndPoll(c) /\ UNCHANGED eventVars
  /\ UNCHANGED <<current, unannounced, silent>>

(* beginTx checks the token again in the transaction that reads.           *)
ReadEvents(c, limit) ==
  /\ calls[c].pc = "read"
  /\ IF calls[c].token = current
     THEN /\ Events(c, limit)
          /\ IF Empty(c) /\ ~calls[c].late THEN Goto(c, "arm") /\ UNCHANGED subscribed ELSE EndPoll(c)
     ELSE EndPoll(c) /\ UNCHANGED eventVars
  /\ UNCHANGED <<current, unannounced, silent>>

ArmPoll(c) ==
  /\ calls[c].pc = "arm"
  /\ Goto(c, "parked")
  /\ UNCHANGED <<eventVars, subscribed, current, unannounced, silent>>

(* The select: the signal, the timer of the deadline or, with Postgres, of *)
(* the next second.  The request unsubscribes and starts over.             *)
WakePoll(c) ==
  /\ calls[c].pc = "parked"
  /\ calls[c].signaled \/ calls[c].late \/ Polls
  /\ calls' = [calls EXCEPT ![c].pc = "subscribe", ![c].signaled = FALSE]
  /\ subscribed' = subscribed \ {c}
  /\ UNCHANGED <<eventVars, current, unannounced, silent>>

(* The client hangs up.                                                    *)
CancelPoll(c) ==
  /\ calls[c].pc = "parked"
  /\ EndPoll(c)
  /\ UNCHANGED <<eventVars, current, unannounced, silent>>

Deadline(c) ==
  /\ Waiting(c) /\ ~calls[c].late
  /\ calls' = [calls EXCEPT ![c].late = TRUE]
  /\ UNCHANGED <<eventVars, subscribed, current, unannounced, silent>>

Step(c) ==
  \/ SubscribeScope(c) \/ scopeAuthority(c) \/ ArmPoll(c) \/ WakePoll(c)
  \/ \E limit \in EventLimits : ReadEvents(c, limit)

EventWaitNext ==
  \/ \E n \in BatchSizes, at \in Instants : Commit(n, at) \/ CommitSilently(n, at)
  \/ \E n \in {0} \cup BatchSizes, at, before \in Instants : CommitPrune(n, at, before)
  \/ RotateToken \/ notifyScope
  \/ \E c \in Clients : StartPoll(c) \/ Step(c) \/ CancelPoll(c) \/ Deadline(c)
  \/ \E c \in Clients, limit \in EventLimits : ReadNow(c, limit)

(* The goroutine of a request runs and its timer fires; the goroutine of   *)
(* an operation goes on to its notification.                               *)
EventWaitFairness ==
  /\ \A c \in Clients : WF_<<eventVars, pollVars>>(Step(c)) /\ WF_<<eventVars, pollVars>>(Deadline(c))
  /\ WF_<<eventVars, pollVars>>(notifyScope)

EventWaitSpec ==
  EventWaitInit /\ [][EventWaitNext]_<<eventVars, pollVars>> /\ EventWaitFairness

-----------------------------------------------------------------------------
(* A parked request that no notification is on its way to has missed only  *)
(* events that were committed silently: whatever lies between its read and *)
(* its select, a commit that notifies wakes it (Runtime.Events).           *)
NothingMissed ==
  \A c \in Clients :
    calls[c].pc = "parked" /\ ~calls[c].signaled /\ unannounced = 0 =>
      {r \in log.rows : r > cursor[c]} \subseteq silent

(* A place on the channel belongs to a request that is in its call, so     *)
(* that no way of ending one eats into the limit for ever.                 *)
PlacesReturned ==
  /\ subscribed \subseteq {c \in Clients : calls[c].pc \in {"authority", "read", "arm", "parked"}}
  /\ Cardinality(subscribed) <= MaxScopeEventWaiters

(* A rotation of the scope token stops the reads of the calls in flight:   *)
(* none returns events to the old token.                                   *)
OldTokenReadsNothing ==
  [][\A c \in Clients : Waiting(c) /\ known'[c] # known[c] => calls[c].token = current]_<<eventVars, pollVars>>

(* Every wait ends, whatever the signals do meanwhile.                     *)
PollEnds == \A c \in Clients : Waiting(c) ~> ~Waiting(c)
=============================================================================
