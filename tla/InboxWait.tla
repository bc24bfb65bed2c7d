----------------------------- MODULE InboxWait -----------------------------
(***************************************************************************)
(* Long polling of the inbox: Runtime.ReserveInbox with waitMs (runtime.go)*)
(* over the signals of inbox_wait.go and the waiter budget of capacity.go, *)
(* composed with the transactions of Delivery.                             *)
(*                                                                         *)
(* A request that waits is a process: it subscribes to the signal of its   *)
(* agent, authenticates again, tries to reserve, and parks until the       *)
(* signal or a timer wakes it; then it starts over.  An operation commits  *)
(* its transaction first and notifies afterwards, in a step of its own:    *)
(* pending counts the notifications that are still to come.  Operations    *)
(* that only notify the event stream of the scope signal no inbox.         *)
(*                                                                         *)
(* All requests meet in one server process.  With Postgres another process *)
(* may commit without a signal here, and PollInterval bounds the wait.     *)
(***************************************************************************)
EXTENDS Delivery, FiniteSetsExt

CONSTANTS
  Waiters,                  \* requests in flight
  WaitTimes,                \* the waitMs values, at most maxInboxWaitMS
  PollInterval,             \* the one second of Postgres, 0 with SQLite
  ChannelIds,               \* identities of Go channels, reused once unreferenced
  MaxInboxWaitersPerAgent,  \* maxInboxWaitersPerAgent
  MaxInboxWaitersPerScope,  \* maxInboxWaitersPerScope
  MaxPending                \* bound: notifications outstanding per agent

(* The shortest lease and reservationTTL, 30 s, outlast the longest wait,  *)
(* 25 s.                                                                   *)
ASSUME WaitAssumption ==
  /\ WaitTimes \subseteq Nat \ {0}
  /\ \A wait \in WaitTimes, leaseMS \in LeaseTimes : wait < leaseMS
  /\ \A wait \in WaitTimes : wait <= ReservationTTL
  /\ PollInterval \in Nat
  /\ None \notin ChannelIds
  /\ MaxInboxWaitersPerAgent \in Nat
  /\ MaxInboxWaitersPerScope \in Nat
  /\ MaxPending \in Nat \ {0}

VARIABLES
  waiters,   \* the requests
  budget,    \* inboxWaitBudget.counts: per agent and for the scope
  signals,   \* runtimeSignals.channels: per agent a channel and its waiters
  closed,    \* the channels that were closed
  pending,   \* notifications of committed operations still to come
  lapsed     \* history: requests that a reservation ran out on as they armed

waitVars == <<waiters, budget, signals, closed, pending>>

Idle == [pc |-> "idle", principal |-> None, deadline |-> 0,
         lease |-> 0, wake_at |-> 0, channel |-> None]

Waiter == [pc : {"idle", "subscribe", "authenticate", "reserve", "arm", "parked"},
           principal : Principals \cup {None}, deadline : Nat,
           lease : Nat, wake_at : Nat, channel : ChannelIds \cup {None}]

NoSignal == [channel |-> None, waiters |-> 0]

InCall(w) == waiters[w].pc # "idle"
AgentOf(w) == waiters[w].principal.agent

-----------------------------------------------------------------------------
(* The signals of inbox_wait.go.                                           *)

Referenced == {signals[a].channel : a \in Agents} \cup {waiters[w].channel : w \in Waiters}

(* subscribe: join the channel of the key, or make one.                    *)
subscribe(w, a, next) ==
  /\ \E c \in ChannelIds :
       /\ IF signals[a].channel = None THEN c \notin Referenced ELSE c = signals[a].channel
       /\ signals' = [signals EXCEPT ![a] = [channel |-> c, waiters |-> signals[a].waiters + 1]]
       /\ closed' = IF signals[a].channel = None THEN closed \ {c} ELSE closed
       /\ waiters' = [waiters EXCEPT ![w].pc = next, ![w].channel = c]

(* Fault: a stale subscription is counted against the channel of others.   *)
unsubscribe_AnyChannel(w, a) ==
  IF signals[a].channel = None THEN signals
  ELSE [signals EXCEPT ![a] =
          IF signals[a].waiters = 1 THEN NoSignal
          ELSE [channel |-> signals[a].channel, waiters |-> signals[a].waiters - 1]]

(* unsubscribe: only the channel the request subscribed to counts.         *)
unsubscribe(w, a) ==
  IF signals[a].channel # waiters[w].channel THEN signals
  ELSE [signals EXCEPT ![a] =
          IF signals[a].waiters = 1 THEN NoSignal
          ELSE [channel |-> signals[a].channel, waiters |-> signals[a].waiters - 1]]

(* notify closes the channel and forgets it.                               *)
notify(a) ==
  /\ pending[a] > 0
  /\ pending' = [pending EXCEPT ![a] = pending[a] - 1]
  /\ closed' = closed \cup ({signals[a].channel} \ {None})
  /\ signals' = [signals EXCEPT ![a] = NoSignal]
  /\ UNCHANGED <<vars, waiters, budget>>

-----------------------------------------------------------------------------
(* A waiting request.                                                      *)

acquire(p) ==
  /\ budget.agent[p.agent] < MaxInboxWaitersPerAgent
  /\ budget.scope < MaxInboxWaitersPerScope
  /\ budget' = [budget EXCEPT !.agent[p.agent] = @ + 1, !.scope = @ + 1]

(* Over the budget the answer is BACKPRESSURE and nothing changes.         *)
StartWait(w, p, wait) ==
  /\ ~InCall(w)
  /\ requireCurrentExecution(p)
  /\ now + wait <= MaxTime
  /\ acquire(p)
  /\ waiters' = [waiters EXCEPT ![w] =
       [Idle EXCEPT !.pc = "subscribe", !.principal = p, !.deadline = now + wait]]
  /\ UNCHANGED <<vars, signals, closed, pending>>

(* Fault: a return forgets the budget.                                     *)
Return_KeepsBudget(w) ==
  /\ signals' = unsubscribe(w, AgentOf(w))
  /\ waiters' = [waiters EXCEPT ![w] = Idle]
  /\ UNCHANGED <<closed, pending, budget>>

(* Fault: a return gives the budget back twice.                            *)
Return_Twice(w) ==
  /\ signals' = unsubscribe(w, AgentOf(w))
  /\ budget' = [budget EXCEPT !.agent[AgentOf(w)] = @ - 2, !.scope = @ - 2]
  /\ waiters' = [waiters EXCEPT ![w] = Idle]
  /\ UNCHANGED <<closed, pending>>

(* Every return unsubscribes and gives the budget back.                    *)
Return(w) ==
  /\ signals' = unsubscribe(w, AgentOf(w))
  /\ budget' = [budget EXCEPT !.agent[AgentOf(w)] = @ - 1, !.scope = @ - 1]
  /\ waiters' = [waiters EXCEPT ![w] = Idle]
  /\ UNCHANGED <<closed, pending>>

Subscribe(w) ==
  /\ waiters[w].pc = "subscribe"
  /\ subscribe(w, AgentOf(w), "authenticate")
  /\ UNCHANGED <<vars, budget, pending>>

Authenticate(w) ==
  /\ waiters[w].pc = "authenticate"
  /\ IF requireCurrentExecution(waiters[w].principal)
     THEN /\ waiters' = [waiters EXCEPT ![w].pc = "reserve",
                                        ![w].lease = agents[AgentOf(w)].lease_expires_at]
          /\ UNCHANGED <<budget, signals, closed, pending>>
     ELSE Return(w)
  /\ UNCHANGED vars

(* The transaction found something to reserve.                             *)
GotReservation ==
  \E r \in ReservationIds : reservations[r].row = "unused" /\ reservations'[r].row = "held"

Reserve(w, limit) ==
  /\ waiters[w].pc = "reserve"
  /\ ReserveInbox(waiters[w].principal, limit)
  /\ IF GotReservation
     THEN Return(w)
     ELSE /\ waiters' = [waiters EXCEPT ![w].pc = "arm"]
          /\ UNCHANGED <<budget, signals, closed, pending>>

(* A call of the store fails: the execution lost its authority since it    *)
(* was authenticated, the database failed, or the request was cancelled.   *)
Fail(w) ==
  /\ waiters[w].pc \in {"authenticate", "reserve", "arm"}
  /\ Return(w)
  /\ UNCHANGED vars

(* The caller hangs up or the server stops.                                *)
Cancel(w) == waiters[w].pc = "parked" /\ Return(w) /\ UNCHANGED vars

(* Fault: the timer does not consider reservations that run out.           *)
WakeAt_NoReservation(w) ==
  Min({waiters[w].deadline, waiters[w].lease}
      \cup (IF PollInterval = 0 THEN {} ELSE {now + PollInterval}))

(* Fault: the timer does not consider the lease.                           *)
WakeAt_NoLease(w) ==
  Min({waiters[w].deadline}
      \cup (IF PollInterval = 0 THEN {} ELSE {now + PollInterval})
      \cup {reservations[r].expires_at : r \in HeldBy(AgentOf(w))})

(* The earliest of the deadline, the lease as it was authenticated, the    *)
(* poll, and NextInboxReservationExpiry.                                   *)
WakeAt(w) ==
  Min({waiters[w].deadline, waiters[w].lease}
      \cup (IF PollInterval = 0 THEN {} ELSE {now + PollInterval})
      \cup {reservations[r].expires_at : r \in HeldBy(AgentOf(w))})

StartOver(w) ==
  /\ signals' = unsubscribe(w, AgentOf(w))
  /\ waiters' = [waiters EXCEPT ![w].pc = "subscribe", ![w].channel = None,
                                ![w].lease = 0, ![w].wake_at = 0]
  /\ UNCHANGED <<budget, closed, pending>>

Arm(w) ==
  /\ waiters[w].pc = "arm"
  /\ IF now >= waiters[w].deadline THEN Return(w)
     ELSE IF WakeAt(w) <= now THEN StartOver(w)
     ELSE /\ waiters' = [waiters EXCEPT ![w].pc = "parked", ![w].wake_at = WakeAt(w)]
          /\ UNCHANGED <<budget, signals, closed, pending>>
  /\ UNCHANGED vars

(* Fault: there is no timer.                                               *)
Wake_SignalOnly(w) ==
  /\ waiters[w].pc = "parked"
  /\ waiters[w].channel \in closed
  /\ StartOver(w)
  /\ UNCHANGED vars

(* The signal or the timer.                                                *)
Wake(w) ==
  /\ waiters[w].pc = "parked"
  /\ waiters[w].channel \in closed \/ now >= waiters[w].wake_at
  /\ StartOver(w)
  /\ UNCHANGED vars

WaiterNext(w) ==
  \/ Subscribe(w) \/ Authenticate(w) \/ Arm(w) \/ Wake(w)
  \/ \E limit \in InboxLimits : Reserve(w, limit)
  \/ Fail(w)

-----------------------------------------------------------------------------
(* The other operations of the runtime: a transaction, and the agents      *)
(* whose waiters are to be notified after it.                              *)
Notifies(S) ==
  /\ \A a \in S : pending[a] < MaxPending
  /\ pending' = [a \in Agents |-> IF a \in S THEN pending[a] + 1 ELSE pending[a]]
  /\ UNCHANGED <<waiters, budget, signals, closed>>

ExecutionOps ==
  \/ Tick /\ UNCHANGED deliveryVars /\ Notifies({})
  \/ \E token \in 1..MaxTokens, a \in Agents, leaseMS \in LeaseTimes,
        connectTo \in SUBSET Agents, workspace \in BOOLEAN :
       RegisterAgent(token, a, leaseMS, connectTo, workspace) /\ Notifies({a})
  \/ \E token \in 1..MaxTokens, a, b \in Agents :
       LinkAgents(token, a, b) /\ UNCHANGED deliveryVars /\ Notifies({})
  \/ \E p \in KnownPrincipals, lifecycle \in ReportedLifecycles, leaseMS \in LeaseTimes :
       Heartbeat(p, lifecycle, leaseMS) /\ Notifies({})
  \/ \E p \in KnownPrincipals : RetireAgent(p) /\ Notifies({p.agent})
  \/ RotateScopeToken /\ Notifies(Agents)

(* Fault: a release notifies nobody.                                       *)
ReleaseOp_Silent(p, r) == ReleaseInbox(p, r) /\ Notifies({})

ReleaseOp(p, r) == ReleaseInbox(p, r) /\ Notifies({p.agent})

CommitOp(p, r, t) == CommitInbox(p, r, t) /\ Notifies({})

InboxOps ==
  \/ \E p \in KnownPrincipals, in \in SendInputs :
       SendMessage(p, in) /\ Notifies({in.to} \cap Agents)
  \/ \E h \in Humans, in \in SendInputs :
       SendHumanMessage(h, in) /\ Notifies({in.to} \cap Agents)
  \/ \E p \in KnownPrincipals, limit \in InboxLimits :
       ReserveInbox(p, limit) /\ Notifies({})
  \/ \E p \in KnownPrincipals, r \in ReservationIds, t \in LaterInTx : CommitOp(p, r, t)
  \/ \E p \in KnownPrincipals, r \in ReservationIds : ReleaseOp(p, r)
  \/ \E p \in KnownPrincipals, S \in SUBSET MessageIds, t \in LaterInTx :
       AcknowledgeMessages(p, S, t) /\ Notifies({})
  \/ \E p \in KnownPrincipals, m \in MessageIds : Receipt(p, m) /\ Notifies({})
  \/ \E h \in Humans, S \in SUBSET MessageIds : ReadHumanMessages(h, S) /\ Notifies({})
  \/ \E token \in 1..MaxTokens, before \in 1..MaxTime, execute \in BOOLEAN :
       PruneMessages(token, before, execute, {}) /\ Notifies({})

WaitInit ==
  /\ DeliveryInit
  /\ waiters = [w \in Waiters |-> Idle]
  /\ budget = [agent |-> [a \in Agents |-> 0], scope |-> 0]
  /\ signals = [a \in Agents |-> NoSignal]
  /\ closed = {}
  /\ pending = [a \in Agents |-> 0]
  /\ lapsed = {}

(* Remembers the requests that had found nothing, and were not parked yet, *)
(* when a reservation of their agent ran out: until they look again.       *)
Remember ==
  lapsed' = {w \in Waiters :
    \/ w \in lapsed /\ waiters'[w].pc \in {"arm", "parked"}
    \/ /\ waiters'[w].pc = "arm"
       /\ \E r \in HeldBy(AgentOf(w))' : reservations'[r].expires_at <= now'}

WaitStep ==
  \/ \E w \in Waiters, p \in KnownPrincipals, wait \in WaitTimes : StartWait(w, p, wait)
  \/ \E w \in Waiters : WaiterNext(w) \/ Cancel(w)
  \/ \E a \in Agents : notify(a)
  \/ ExecutionOps
  \/ InboxOps

WaitNext == WaitStep /\ Remember

allVars == <<vars, waitVars, lapsed>>

(* The clock advances, a handler that has committed goes on to notify, and *)
(* the goroutine of a request keeps running.  Nothing makes clients send,  *)
(* commit, release or acknowledge, and requests need not be cancelled.     *)
WaitFairness ==
  /\ WF_<<vars, waitVars>>(Tick /\ UNCHANGED deliveryVars /\ Notifies({}))
  /\ \A a \in Agents : WF_<<vars, waitVars>>(notify(a))
  /\ \A w \in Waiters : WF_<<vars, waitVars>>(WaiterNext(w))

WaitSpec == WaitInit /\ [][WaitNext]_allVars /\ WaitFairness

-----------------------------------------------------------------------------
WaitTypeOK ==
  /\ waiters \in [Waiters -> Waiter]
  /\ budget \in [agent : [Agents -> Nat], scope : Nat]
  /\ signals \in [Agents -> [channel : ChannelIds \cup {None}, waiters : Nat]]
  /\ closed \subseteq ChannelIds
  /\ pending \in [Agents -> Nat]

Callers      == {w \in Waiters : InCall(w)}
CallersOf(a) == {w \in Callers : AgentOf(w) = a}

(* The requests whose channel nobody closed yet.                           *)
Subscribers(a) ==
  {w \in CallersOf(a) : waiters[w].channel # None /\ waiters[w].channel \notin closed}

(* The budget counts the requests in flight and no more, whatever way they *)
(* return: neither a timeout nor an error, a replaced execution or a       *)
(* cancelled request leaks a slot.                                         *)
BudgetExact ==
  /\ \A a \in Agents : budget.agent[a] = Cardinality(CallersOf(a))
  /\ budget.scope = Cardinality(Callers)

(* The map of signals holds exactly the channels somebody still listens    *)
(* to, with the right count: a subscription of an older channel that ends  *)
(* after a notification takes nobody else's channel away.                  *)
SignalsExact ==
  \A a \in Agents :
    /\ signals[a].waiters = Cardinality(Subscribers(a))
    /\ \A w \in Subscribers(a) : waiters[w].channel = signals[a].channel
    /\ signals[a].channel = None <=> Subscribers(a) = {}

(* A parked request that nothing is about to wake.                         *)
Asleep(w) ==
  /\ waiters[w].pc = "parked"
  /\ waiters[w].channel \notin closed
  /\ waiters[w].wake_at > now
  /\ pending[AgentOf(w)] = 0

(* A reservation of the agent that runs out wakes its parked requests:     *)
(* either it was there when they parked, or it outlives their deadline.    *)
LapseWakes ==
  \A w \in Waiters : Asleep(w) =>
    \A r \in HeldBy(AgentOf(w)) : reservations[r].expires_at > now

(* A request of an execution that was replaced, retired or revoked, or     *)
(* whose lease ran out, does not stay parked.  The lease it looked at may  *)
(* have been shortened since; it still ends after the deadline.            *)
WaitEndsWithAuthority ==
  \A w \in Waiters : Asleep(w) => requireCurrentExecution(waiters[w].principal)

(* spec/0.1/README.md: "The wait ends when work becomes reservable".       *)
(* Nobody sleeps while a message that was never delivered can be reserved, *)
(* however sends, releases and re-registrations interleave with            *)
(* subscribing, reserving and parking.                                     *)
WaitEndsWithWork ==
  \A w \in Waiters : Asleep(w) =>
    \A m \in Available(messages, AgentOf(w)) : messages[m].state # "queued"

(* The one way to miss it is a reservation that runs out between a look at *)
(* the inbox and the timer: the send, release or re-registration that      *)
(* makes a message reservable always wakes a request, and so does a        *)
(* reservation that runs out once it is parked (runtime.go Inbox,          *)
(* runtimeSignals).                                                        *)
NoWorkMissed ==
  /\ LapseWakes
  /\ \A w \in Waiters \ lapsed : Asleep(w) =>
       \A m \in Available(messages, AgentOf(w)) : messages[m].state # "queued"

(* Every request that waits is answered.                                   *)
WaitsEnd == \A w \in Waiters : InCall(w) ~> ~InCall(w)

(* Every place a request took is given back once and only once, on every   *)
(* path out of Runtime.ReserveInbox: in the waiter budget and in the       *)
(* subscribers of its signal.                                              *)
PlacesExact == WaitTypeOK /\ BudgetExact /\ SignalsExact
=============================================================================
