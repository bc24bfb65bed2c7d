---------------------------- MODULE HostedBilling ----------------------------
(***************************************************************************)
(* Paid hosting of one workspace: buying a subscription, following what    *)
(* the payment provider knows, counting deliveries against the allowance,  *)
(* and closing billing before a deleted workspace's content goes.          *)
(*                                                                         *)
(* Every billing operation holds the workspace's billing lock and works on *)
(* a transaction (op.db), but the provider is another system: a customer   *)
(* may pay, a subscription end or a request arrive late between two calls, *)
(* and an operation may fail after the provider has done what it asked.    *)
(* Time is in hours; notifications of the provider only start a            *)
(* reconciliation, so one may start at any time, or never.                 *)
(***************************************************************************)
EXTENDS Naturals, Sequences, FiniteSets, FiniteSetsExt

CONSTANTS
  Intervals,      \* the plans: month, year
  CheckoutLife,   \* a checkout can be paid this long (24 hours)
  ReplayWindow,   \* and its creation be repeated this long (23 hours)
  Grace,          \* added before a checkout counts as never created (1 hour)
  Period,         \* length of a billing period
  MonthLength,    \* length of a calendar month
  DeliveryLimit,  \* deliveries of a month
  TrialLimit,     \* deliveries without a subscription (2000)
  TrialEnds,      \* when the trial of the account is over (14 days)
  MaxAttempts, MaxHours, MaxChanges, MaxFailures

ASSUME BillingTimes ==
  /\ {CheckoutLife, ReplayWindow, Period, MonthLength} \subseteq Nat \ {0}
  /\ ReplayWindow < CheckoutLife /\ Grace \in Nat
  /\ {DeliveryLimit, TrialLimit, TrialEnds, MaxAttempts, MaxHours, MaxChanges, MaxFailures} \subseteq Nat

VARIABLES
  hour,       \* the clock
  phase,      \* of the workspace: "open", "closing", "gone"
  billing,    \* committed rows: customer, subscription, attempts, invoices, paid_until
  op,         \* the operation that holds the billing lock
  sessions,   \* provider: checkout sessions, in order of creation
  subs,       \* provider: subscriptions
  late,       \* creation requests whose fate is unknown to the service
  changes,    \* provider changes so far (bound)
  failures,   \* failed operations so far (bound)
  usage,      \* month |-> deliveries charged
  trialOver   \* a payment has ended the trial

providerVars == <<sessions, subs, late>>
billingVars == <<hour, phase, billing, op, providerVars, changes, failures, usage, trialOver>>

NoOp == [kind |-> "none"]
NoBilling == [customer |-> FALSE, sub |-> 0, status |-> "none", attempts |-> <<>>,
              invoices |-> {}, paidUntil |-> 0]

BillingInit(start) ==
  /\ hour = start /\ phase = "open" /\ billing = NoBilling /\ op = NoOp
  /\ sessions = <<>> /\ subs = <<>> /\ late = {}
  /\ changes = 0 /\ failures = 0
  /\ usage = [m \in 0..(MaxHours \div MonthLength) |-> 0] /\ trialOver = FALSE

-----------------------------------------------------------------------------
(* The provider                                                            *)

Ended == {"canceled"}
SessionsOf(a) == {i \in DOMAIN sessions : sessions[i].attempt = a}
CanBeCreated(a, db) == hour < db.attempts[a].created + CheckoutLife

(* Creating a session is idempotent for an attempt, and refused once the   *)
(* expiry the request carries has passed.                                  *)
Create(a, interval, expires) ==
  sessions' = IF SessionsOf(a) = {} /\ hour < expires
              THEN Append(sessions, [attempt |-> a, interval |-> interval, status |-> "open",
                                     sub |-> 0, expires |-> expires])
              ELSE sessions

(* The customer pays an open checkout: a subscription starts, its first    *)
(* invoice funded.                                                         *)
Pay(i) ==
  /\ changes < MaxChanges /\ sessions[i].status = "open" /\ hour < sessions[i].expires
  /\ sessions' = [sessions EXCEPT ![i].status = "complete", ![i].sub = Len(subs) + 1]
  /\ subs' = Append(subs, [attempt |-> sessions[i].attempt, status |-> "active", start |-> hour,
                           funded |-> <<TRUE>>])
  /\ changes' = changes + 1
  /\ UNCHANGED <<hour, phase, billing, op, late, failures, usage, trialOver>>

TimeoutSession(i) ==
  /\ sessions[i].status = "open" /\ hour >= sessions[i].expires
  /\ sessions' = [sessions EXCEPT ![i].status = "expired"]
  /\ UNCHANGED <<hour, phase, billing, op, subs, late, changes, failures, usage, trialOver>>

PeriodEnd(s) == s.start + Len(s.funded) * Period

(* A period ends and is renewed, paid or not; an invoice is refunded,      *)
(* disputed or paid after all; the subscription is cancelled.              *)
Renew(k) ==
  /\ subs[k].status \notin Ended /\ hour >= PeriodEnd(subs[k])
  /\ \E paid \in BOOLEAN :
       subs' = [subs EXCEPT ![k].funded = Append(@, paid),
                            ![k].status = IF paid THEN "active" ELSE "past_due"]

SettleInvoice(k) ==
  LET n == Len(subs[k].funded)
  IN subs' = [subs EXCEPT ![k].funded[n] = ~@, ![k].status = IF subs[k].funded[n] THEN @ ELSE "active"]

Cancelled(k) == subs' = [subs EXCEPT ![k].status = "canceled"]

ProviderChange(k) ==
  /\ changes < MaxChanges /\ subs[k].status \notin Ended
  /\ Renew(k) \/ SettleInvoice(k) \/ Cancelled(k)
  /\ changes' = changes + 1
  /\ UNCHANGED <<hour, phase, billing, op, sessions, late, failures, usage, trialOver>>

(* A creation request the service gave up on arrives after all, or never.  *)
LateCreate(r) ==
  /\ late' = late \ {r}
  /\ Create(r.attempt, r.interval, r.expires) \/ UNCHANGED sessions
  /\ UNCHANGED <<hour, phase, billing, op, subs, changes, failures, usage, trialOver>>

-----------------------------------------------------------------------------
(* Operations                                                              *)

PendingAttempt(db) == {a \in DOMAIN db.attempts : db.attempts[a].state = "pending"}
The(A) == CHOOSE a \in A : TRUE
Subscribed(db) == db.sub # 0 /\ db.status \notin Ended

(* prepareCheckout records the selection before any checkout is created.   *)
(* Creating the customer is idempotent and costs nothing, so it is part of *)
(* the step.                                                               *)
prepareCheckout(interval) ==
  /\ op = NoOp /\ phase = "open"
  /\ hour + CheckoutLife + Grace < MaxHours   \* bound: time to see every checkout expire
  /\ billing' = [billing EXCEPT
       !.customer = TRUE,
       !.attempts = IF PendingAttempt(billing) = {} /\ ~Subscribed(billing) /\ Len(@) < MaxAttempts
                    THEN Append(@, [interval |-> interval, created |-> hour, session |-> 0,
                                    state |-> "pending"])
                    ELSE @]
  /\ UNCHANGED <<hour, phase, op, providerVars, changes, failures, usage, trialOver>>

(* Fault: only known subscriptions are looked at again.                    *)
Due_Subscribed == phase = "open" /\ billing.customer /\ Subscribed(billing)

(* What ReconcileDue picks up by itself; a closing workspace is finished.  *)
Due == phase = "open" /\ billing.customer /\ (Subscribed(billing) \/ PendingAttempt(billing) # {})

(* Checkout's second half, CancelCheckout, reconciliation (asked for, due  *)
(* or notified) and the deletion begin by taking the lock.                 *)
BeginOp(kind, interval) ==
  /\ op = NoOp
  /\ kind = "pass" => phase = "open" /\ billing.customer
  /\ kind \in {"cancel", "reconcile"} => phase # "gone" /\ billing.customer
  /\ kind = "finish" => phase = "closing"
  /\ op' = [kind |-> kind, interval |-> interval, pc |-> "lookup", db |-> billing, at |-> 0]
  /\ UNCHANGED <<hour, phase, billing, providerVars, changes, failures, usage, trialOver>>

(* bindCompletedCheckout on a session as the provider returned it.         *)
bindCompletedCheckout(db, a, i, session) ==
  LET known == [db EXCEPT !.attempts[a].session = i]
  IN CASE session.status = "expired" -> [known EXCEPT !.attempts[a].state = "expired"]
       [] session.status = "open" -> known
       [] OTHER -> [known EXCEPT !.attempts[a].state = "complete", !.sub = session.sub,
                                 !.status = subs[session.sub].status]

(* A second subscription is never bound over a live one.                   *)
Bindable(db, session) ==
  session.status = "complete" => ~Subscribed(db) \/ db.sub = session.sub

(* Fault: a deletion never takes a checkout for not created.               *)
CloseWithout_Never(attempt) == FALSE

(* When a lookup finds nothing, the attempt is given up only once no late  *)
(* request can create its checkout: in reconcileLocked and, separately, in *)
(* closeWorkspaceBilling.                                                  *)
GiveUp(attempt) == hour > attempt.created + CheckoutLife + Grace

CloseWithout(attempt) == hour > attempt.created + CheckoutLife + Grace

(* The checkout of the pending attempt is looked up, recovering a creation *)
(* whose response was lost. A deletion that finds none creates it, to be   *)
(* able to expire it.                                                      *)
LookupCheckout ==
  LET a == The(PendingAttempt(op.db))
      found == SessionsOf(a)
      i == The(found)
      next == IF op.kind = "finish" THEN "cancelsub" ELSE "subscription"
  IN /\ op # NoOp /\ op.pc = "lookup"
     /\ IF PendingAttempt(op.db) = {} THEN op' = [op EXCEPT !.pc = next]
        ELSE IF found # {}
        THEN /\ Bindable(op.db, sessions[i])
             /\ op' = [op EXCEPT !.db = bindCompletedCheckout(@, a, i, sessions[i]),
                                 !.at = i,
                                 !.pc = IF op.kind = "finish" /\ sessions[i].status = "open"
                                        THEN "expire" ELSE next]
        ELSE IF (IF op.kind = "finish" THEN CloseWithout(op.db.attempts[a]) ELSE GiveUp(op.db.attempts[a]))
        THEN op' = [op EXCEPT !.db.attempts[a].state = "expired", !.pc = next]
        ELSE op' = [op EXCEPT !.pc = IF op.kind = "finish" THEN "create" ELSE next]
     /\ UNCHANGED <<hour, phase, billing, providerVars, changes, failures, usage, trialOver>>

(* reconcileLocked reads the subscription and its invoices: the latest,    *)
(* and those recorded that have not ended. Access lasts to the end of the  *)
(* last funded period of a subscription that is not ended.                 *)
InvoiceRows(k) == {[sub |-> k, n |-> n, funded |-> subs[k].funded[n]] : n \in DOMAIN subs[k].funded}
RereadInvoices(db) ==
  {v \in InvoiceRows(db.sub) :
     \/ v.n = Len(subs[db.sub].funded)
     \/ /\ \E x \in db.invoices : x.sub = v.sub /\ x.n = v.n
        /\ subs[db.sub].start + v.n * Period > hour}
Merge(old, new) == {x \in old : \A v \in new : <<x.sub, x.n>> # <<v.sub, v.n>>} \union new

paidUntil(db, invoices) ==
  LET s == subs[db.sub]
      ends == {s.start + v.n * Period :
                 v \in {x \in invoices : /\ x.sub = db.sub /\ x.funded
                                         /\ s.start + (x.n - 1) * Period <= hour}}
  IN IF s.status \in Ended \/ ends = {} THEN 0 ELSE Max(ends)

ReadSubscription ==
  LET invoices == Merge(op.db.invoices, RereadInvoices(op.db))
      next == IF op.kind = "reconcile" THEN "commit"
              ELSE IF op.kind = "pass" /\ Subscribed([op.db EXCEPT !.status = subs[op.db.sub].status])
              THEN "commit" ELSE "checkout"
  IN /\ op # NoOp /\ op.pc = "subscription"
     /\ op' = IF op.db.sub = 0
              THEN [op EXCEPT !.pc = IF op.kind = "reconcile" THEN "commit" ELSE "checkout"]
              ELSE [op EXCEPT !.db.status = subs[op.db.sub].status, !.db.invoices = invoices,
                              !.db.paidUntil = paidUntil(op.db, invoices), !.pc = next]
     /\ UNCHANGED <<hour, phase, billing, providerVars, changes, failures, usage, trialOver>>

(* Fault: the checkout of the other plan is dropped, and stays open.       *)
NeedCheckout_LeavesOpen ==
  LET a == The(PendingAttempt(op.db))
      found == SessionsOf(a)
      i == The(found)
      expire == sessions[i].status = "open" /\
                (op.kind = "cancel" \/ op.db.attempts[a].interval # op.interval)
  IN /\ op # NoOp /\ op.pc = "checkout"
     /\ IF PendingAttempt(op.db) = {} THEN op' = [op EXCEPT !.pc = "commit"]
        ELSE IF found = {} THEN op' = [op EXCEPT !.pc = "create"]
        ELSE /\ Bindable(op.db, sessions[i])
             /\ op' = [op EXCEPT !.db = [bindCompletedCheckout(@, a, i, sessions[i]) EXCEPT
                                          !.attempts[a].state = IF expire THEN "expired" ELSE @],
                                 !.at = i, !.pc = "commit"]
     /\ UNCHANGED <<hour, phase, billing, providerVars, changes, failures, usage, trialOver>>

(* Checkout and CancelCheckout go on with the pending attempt, if there is *)
(* one: its session is retrieved or looked up again, else created.         *)
NeedCheckout ==
  LET a == The(PendingAttempt(op.db))
      found == SessionsOf(a)
      i == The(found)
      expire == sessions[i].status = "open" /\
                (op.kind = "cancel" \/ op.db.attempts[a].interval # op.interval)
  IN /\ op # NoOp /\ op.pc = "checkout"
     /\ IF PendingAttempt(op.db) = {} THEN op' = [op EXCEPT !.pc = "commit"]
        ELSE IF found = {} THEN op' = [op EXCEPT !.pc = "create"]
        ELSE /\ Bindable(op.db, sessions[i])
             /\ op' = [op EXCEPT !.db = bindCompletedCheckout(@, a, i, sessions[i]), !.at = i,
                                 !.pc = IF expire THEN "expire" ELSE "commit"]
     /\ UNCHANGED <<hour, phase, billing, providerVars, changes, failures, usage, trialOver>>

(* checkoutSession creates the session, within the window in which the     *)
(* request may be repeated. The caller sees the response, or gives up and  *)
(* the request is still on its way.                                        *)
CreateCheckout ==
  LET a == The(PendingAttempt(op.db))
      t == op.db.attempts[a]
  IN /\ op # NoOp /\ op.pc = "create" /\ hour - t.created < ReplayWindow
     /\ \/ /\ Create(a, t.interval, t.created + CheckoutLife)
           /\ op' = [op EXCEPT !.pc = IF op.kind = "finish" THEN "lookup" ELSE "checkout"]
           /\ UNCHANGED <<late, failures>>
        \/ /\ failures < MaxFailures /\ failures' = failures + 1
           /\ late' = late \union {[attempt |-> a, interval |-> t.interval,
                                    expires |-> t.created + CheckoutLife]}
           /\ op' = NoOp
           /\ UNCHANGED sessions
     /\ UNCHANGED <<hour, phase, billing, subs, changes, usage, trialOver>>

(* An open session is expired at the provider; the provider refuses when   *)
(* the customer has just paid, and the operation fails with it.            *)
ExpireCheckout ==
  LET a == sessions[op.at].attempt
  IN /\ op # NoOp /\ op.pc = "expire" /\ sessions[op.at].status # "complete"
     /\ sessions' = [sessions EXCEPT ![op.at].status = "expired"]
     /\ op' = [op EXCEPT !.db = bindCompletedCheckout(@, a, op.at, sessions'[op.at]),
                         !.pc = IF op.kind = "finish" THEN "cancelsub" ELSE "commit"]
     /\ UNCHANGED <<hour, phase, billing, subs, late, changes, failures, usage, trialOver>>

(* Fault: the subscription is left to end with its period.                 *)
CancelSubscription_AtPeriodEnd ==
  /\ op # NoOp /\ op.pc = "cancelsub"
  /\ op' = [op EXCEPT !.pc = "commit"]
  /\ UNCHANGED <<hour, phase, billing, providerVars, changes, failures, usage, trialOver>>

(* closeWorkspaceBilling ends with the immediate cancellation of the       *)
(* subscription.                                                           *)
CancelSubscription ==
  /\ op # NoOp /\ op.pc = "cancelsub"
  /\ subs' = IF op.db.sub = 0 THEN subs ELSE [subs EXCEPT ![op.db.sub].status = "canceled"]
  /\ op' = [op EXCEPT !.pc = "commit"]
  /\ UNCHANGED <<hour, phase, billing, sessions, late, changes, failures, usage, trialOver>>

(* Commit. A deletion's commit removes the content and the billing rows.   *)
(* A period found paid ends the trial.                                     *)
CommitOp ==
  /\ op # NoOp /\ op.pc = "commit"
  /\ billing' = IF op.kind = "finish" THEN NoBilling ELSE op.db
  /\ phase' = IF op.kind = "finish" THEN "gone" ELSE phase
  /\ trialOver' = (trialOver \/ (op.kind # "finish" /\ op.db.paidUntil > 0))
  /\ op' = NoOp
  /\ UNCHANGED <<hour, providerVars, changes, failures, usage>>

(* The provider is unreachable or refuses, the deadline passes, the        *)
(* service stops: the transaction is rolled back, what the provider did    *)
(* stays. Only a refusal (Blocked) is not counted against the bound.       *)
Blocked ==
  /\ op # NoOp
  /\ \/ op.pc = "create" /\ hour - op.db.attempts[The(PendingAttempt(op.db))].created >= ReplayWindow
     \/ op.pc = "expire" /\ sessions[op.at].status = "complete"
     \/ /\ op.pc \in {"lookup", "checkout"} /\ PendingAttempt(op.db) # {}
        /\ \E i \in SessionsOf(The(PendingAttempt(op.db))) : ~Bindable(op.db, sessions[i])

AbortOp ==
  /\ op # NoOp
  /\ IF Blocked THEN UNCHANGED failures ELSE failures < MaxFailures /\ failures' = failures + 1
  /\ op' = NoOp
  /\ UNCHANGED <<hour, phase, billing, providerVars, changes, usage, trialOver>>

(* An owner asks for deletion: recorded before the provider is contacted.  *)
RequestDeletion ==
  /\ op = NoOp /\ phase = "open"
  /\ phase' = "closing"
  /\ UNCHANGED <<hour, billing, op, providerVars, changes, failures, usage, trialOver>>

-----------------------------------------------------------------------------
(* Deliveries                                                              *)

Month == hour \div MonthLength

(* The deliveries charged, and how many. *)
Charged == UNION {{m} \X (1..usage[m]) : m \in DOMAIN usage}
Total == Cardinality(Charged)
Paid == billing.paidUntil > hour

(* Fault: the trial's allowance starts again every month.                  *)
Allowed_EachMonth ==
  usage[Month] < (IF Paid \/ DeliveryLimit < TrialLimit THEN DeliveryLimit ELSE TrialLimit)

(* consumeHostedDelivery: without a paid period deliveries need a trial    *)
(* that is not over, and there is one allowance for the whole of it,       *)
(* however many months it touches.                                         *)
Allowed == IF Paid THEN usage[Month] < DeliveryLimit
           ELSE /\ ~trialOver /\ hour < TrialEnds
                /\ Total < (IF TrialLimit < DeliveryLimit THEN TrialLimit ELSE DeliveryLimit)

consumeHostedDelivery ==
  /\ phase = "open" /\ Allowed
  /\ usage' = [usage EXCEPT ![Month] = @ + 1]
  /\ UNCHANGED <<hour, phase, billing, op, providerVars, changes, failures, trialOver>>

PassHour ==
  /\ hour < MaxHours
  /\ hour' = hour + 1
  /\ UNCHANGED <<phase, billing, op, providerVars, changes, failures, usage, trialOver>>

-----------------------------------------------------------------------------
ReconcileDue == Due /\ BeginOp("reconcile", "none")
FinishDeletion == BeginOp("finish", "none")
OpStep == LookupCheckout \/ ReadSubscription \/ NeedCheckout \/ CreateCheckout \/ ExpireCheckout
          \/ CancelSubscription \/ CommitOp

ProviderStep ==
  \/ \E i \in DOMAIN sessions : Pay(i) \/ TimeoutSession(i)
  \/ \E k \in DOMAIN subs : ProviderChange(k)
  \/ \E r \in late : LateCreate(r)

BillingNext ==
  \/ \E v \in Intervals : prepareCheckout(v) \/ BeginOp("pass", v)
  \/ BeginOp("cancel", "none") \/ BeginOp("reconcile", "none") \/ FinishDeletion
  \/ OpStep \/ AbortOp \/ RequestDeletion
  \/ consumeHostedDelivery
  \/ ProviderStep \/ PassHour

(* Maintenance runs every minute and retries what failed; whoever waits    *)
(* for the billing lock gets it in turn; an operation that began goes on   *)
(* or is refused; time passes, and open checkouts with it.                 *)
BillingFairness ==
  /\ SF_billingVars(ReconcileDue) /\ SF_billingVars(FinishDeletion)
  /\ WF_billingVars(OpStep) /\ WF_billingVars(Blocked /\ AbortOp)
  /\ WF_billingVars(PassHour)
  /\ WF_billingVars(\E i \in DOMAIN sessions : TimeoutSession(i))

BillingSpec == BillingInit(1) /\ [][BillingNext]_billingVars /\ BillingFairness

-----------------------------------------------------------------------------
LiveSubs == {k \in DOMAIN subs : subs[k].status \notin Ended}
OpenSessions == {i \in DOMAIN sessions : sessions[i].status = "open" /\ hour < sessions[i].expires}

(* A workspace is never offered, or charged for, two subscriptions at      *)
(* once: lost responses, late creation requests, changes of plan and       *)
(* payments that race them leave one open checkout or one subscription.    *)
OnePurchase == Cardinality(LiveSubs) + Cardinality(OpenSessions) <= 1

(* When a workspace's content is gone nothing can charge its customer any  *)
(* more: no subscription is left running and no checkout can be paid.      *)
NothingLeftToPay == phase = "gone" => LiveSubs = {} /\ OpenSessions = {}

(* Deliveries stay within the allowance: the trial's, counted over all its *)
(* months, for a workspace that never subscribed, and the monthly one.     *)
AllowanceHeld ==
  /\ subs = <<>> => Total <= TrialLimit
  /\ \A m \in DOMAIN usage : usage[m] <= DeliveryLimit

(* What the provider has been paid for.                                    *)
PaidNow == \E k \in LiveSubs : \E n \in DOMAIN subs[k].funded :
             /\ subs[k].funded[n]
             /\ subs[k].start + (n - 1) * Period <= hour /\ hour < subs[k].start + n * Period

(* Access follows payment: whatever notifications are lost, repeated or    *)
(* late, a workspace ends up with access exactly while it is paid for.     *)
AccessConverges == <>[](phase = "open" => Paid = PaidNow)

(* A deletion once requested finishes, although responses are lost and     *)
(* customers pay while it runs: no workspace is closing for ever.          *)
DeletionFinishes == <>[](phase # "closing")

(* What a customer pays for and gets (checkoutPass, closeWorkspaceBilling, *)
(* consumeHostedDelivery).                                                 *)
PurchasesSound == OnePurchase /\ NothingLeftToPay /\ AllowanceHeld

(* Whatever is lost between the two, the service ends up agreeing with the *)
(* provider (ReconcileDue, finishWorkspaceDeletion).                       *)
BillingSettles == AccessConverges /\ DeletionFinishes
=============================================================================
