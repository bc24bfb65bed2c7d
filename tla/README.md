# Verification of October Bus

TLA+ models of the October Bus runtime (`bus/`), the TLC runs that check them on
small instances, and TLAPS proofs that carry the most important results to every
value of the constants. `PROJECT.json` maps every definition to the lines it
models, lists the runs, the mutants that show each property can fail, the hazards
the properties are aimed at, and the theorems.

## 1. Inventory

October Bus lets coding agents of one *scope* (a project or a hosted workspace)
find each other, exchange messages, share a task board, channels, streams and files,
and ask humans. All durable state but the files of attachments is in one SQL
database (SQLite with one writing connection, or Postgres with an advisory lock per
scope, `scope_authority.go`); a server process keeps signals and budgets for waiting
requests in memory.

| Component | State | Operations | Hard part | What makes it correct |
|---|---|---|---|---|
| Agent registry (`store.go`, `retire.go`, `scope_admin.go`, `scope_authority.go`) | `scopes.token_hash`, `agents`, `peer_links` | register, link, heartbeat, retire, rotate | a bearer token is authenticated before the transaction that uses it; executions are replaced, expire, retire, are revoked | only the current, unexpired execution acts; authority that ended never returns; a rotation ends everything registered before it |
| Delivery (`store.go`, `retire.go`, `hosted_work.go`) | `messages`, `reservations` | send, receipt, reserve, commit, release, acknowledge; a member's send and read | expiry, late commits, retried sends, replies | at most one holder; a reservation belongs to the current execution; nothing is delivered after its expiry; one reply per request; a retry inserts nothing |
| Task board (`store.go`, `task_progress.go`, `task_page.go`) | `tasks`, `task_progress` | add, claim, complete, release, progress, list, page | stale claims are swept by later transactions; dependencies and retention | exclusive, fenced claims; dependencies done before their dependants; no circle of tasks |
| Inbox long poll (`runtime.go`, `inbox_wait.go`, `capacity.go`) | signals by agent, waiter budget, parked requests | wait, notify, wake, cancel | lost wake-ups, stale subscriptions, timers against leases and reservations | no budget leaks; a wait ends when it should |
| Event log (`events.go`) | `events`, `event_revision`, `event_floor_revision`, the scope's signal | append, trim, page, resynchronize, wait | trimming and retention under readers; a wall clock that goes back; commits without a notification; a token rotated under a waiting request | no follower misses an event without being told; a wait ends and reads with a current token only |
| Retention (`storage.go`, `retention_a2a.go`) | all tables | `PruneScope` | references between rows that go and rows that stay | obligations and references stay |
| Human escalations (`store.go`, `hosted_work.go`) | `escalations` | ask, resolve, list | the answer is a message of the same transaction | one answer per question, kept with it |
| Native wake (`native_wake.go`) | `wake_connections`, `wake_attempts` | claim, finish, retry, status | a dispatcher that crashed at an ambiguous point | no automatic repetition of what may have been submitted |
| Agent session (`session.go`) | lease, lifecycle, two mutexes | start, heartbeat, set state, close | heartbeat against close and retirement, lost answers | what the session says of its lease, its state and its end is true of the bus |
| Output streams (`output_streams.go`, `output_principals.go`) | streams, values, publishers, credentials, quotas | create, publish, read, remove, issue, rotate | sequences against bounded retention and revocation; quota windows | contiguous sequences, no silent gap, no credential without its stream |
| Channels (`channels.go`) | channels, posts, subscriptions | create, subscribe, post, page | the fan-out of a post into inboxes, retried posts, pages under writers, threads and retention | a post notifies everybody or is not made; threads stay whole; no post is skipped |
| A2A tasks and principals (`a2a_*.go`, `scoped_credentials.go`) | publications, principals, tasks, correlations | publish, issue, accept, read, cancel, change state | a remote task follows the life of messages that are redelivered, expire or are answered late | legal transitions, correlations that stand, remote work cannot fill the backlog |
| Attachments (`attachments*.go`, `backup.go`, `deploy/hosted/backup.py`) | rows, files, four locks | upload, import, read, delete, collect, bundle, back up | database and file system cannot change together; lock order; crashes | a row has its file, here and in a backup; no deadlock; garbage goes |
| Archive and portability (`archive.go`, `migration.go`) | all tables | export, delete, import | references between tables, rows that cannot be restored | whatever a scope became it can be exported, and its archive imported |
| Hosted accounts, devices, pairing (`hosted_*.go`) | workspaces, members, invitations, connections, sessions | create, invite, join, change, pair, enroll, start, pause, revoke, delete | requests that read before they lock; counts over several workspaces | a live session has a connection, a membership and a workspace that allow it; an owner remains |
| Hosted OAuth (`hosted_oauth*.go`) | `oauth_tokens` | authorize, consent, exchange, refresh, revoke | two requests with one token, replay, a grant replaced meanwhile | a grant never forks; an old grant's tokens are harmless |
| Hosted billing (`hosted_billing*.go`) | checkouts, subscription, usage, deletion | check out, cancel, reconcile, consume, delete | the payment provider changes between any two calls; answers are lost | one purchase, nothing left to pay after deletion, access agrees with payment in the end |
| Server, routes, client, gateway, CLI, MCP bridge, adapters, SDK, web console, conformance suite | little | decode, dispatch, render | process plumbing | not in the scope of these models (section 5) |

Interaction: every handler authenticates (`Runtime.Principal`, `scopeAuthority`),
calls one `Store` method, which is one transaction and checks the authority again
inside it, and, when that succeeded, notifies the waiters of an agent and of the
scope's event stream. Transactions of one scope are serialized by the database, so
a `Store` method is one step of the models. What interleaves are requests, and
within a request its several transactions, the lookups it makes before it has a lock,
its calls to the file system or to another program, and the notifications after it.
Questions, channels and A2A tasks are built on messages: their operations send in
their own transaction, and retention removes rows of all of them in one.

## 2. Modules

| Module | Models |
|---|---|
| `AgentRegistry` | the agents and links tables, the clock and the scope token |
| `Delivery` (extends it) | messages and reservations, and what registration, retirement and rotation do to them |
| `Mailbox` | what delivery promises about one message: the abstract specification `Delivery` implements |
| `TaskBoard` (extends `AgentRegistry`) | tasks and their progress logs, and the board as it is archived |
| `InboxWait` (extends `Delivery`) | inbox long polls over signals and budget, composed with every delivery transaction |
| `EventLog`, `EventWait` (extends it) | the event log with its followers, and the long poll over it |
| `LongPolls` (extends `EventWait`, `InboxWait`) | what both long polls promise |
| `NativeWake` (extends `Delivery`) | wake attempts, the listeners that claim them and the write to the provider |
| `Escalations` (extends `Delivery`) | questions to humans and their answers |
| `RemoteTasks` (extends `Delivery`) | publications, remote principals, their tasks and correlations |
| `Archive` (extends `Escalations`, `RemoteTasks`) | export, deletion and import of a scope with its messages, questions and remote work |
| `OutputStreams` (extends `AgentRegistry`) | output streams, their credentials, quotas and readers |
| `Channels` (extends `Delivery`) | channels, subscriptions, posts, threads and their notifications |
| `Attachments` | rows and files of attachments, the locks, the collection, the backups |
| `HostedAccess`, `HostedOAuth` (extends it) | who may act in a hosted workspace; the OAuth grants and tokens |
| `HostedBilling` | paid hosting of a workspace, and the payment provider |
| `AgentSession` (extends `AgentRegistry`) | the client's managed session over an unreliable wire |
| `MCDelivery`, `MCTaskBoard`, `MCInboxWait`, `MCNativeWake`, `MCScopeWork`, `MCStreams`, `MCScopeData`, `MCHosted` | starting states, symmetry, and the restriction of every part of a run |
| `RegistryProofs`, `DeliveryProofs`, `BoardSessionProofs` (`TaskBoard`, `AgentSession`), `StreamsProofs` (`EventLog`, `EventWait`, `OutputStreams`), `WakeProofs` (`NativeWake`, `InboxWait`, `LongPolls`), `ScopeWorkProofs` (`Escalations`, `RemoteTasks`, `Archive`), `ScopeDataProofs` (`Channels`, `Attachments`), `HostedProofs` (`HostedAccess`, `HostedOAuth`, `HostedBilling`) | theorems and their proofs |

Operators whose name is that of another one with a suffix, `ClaimTask_...` beside
`ClaimTask`, are mutated forms of it: one plausible fault each. They are used by the
mutants of `PROJECT.json` alone.

### How the state corresponds to the code

* A row is a record whose fields are the columns that some guard or property reads;
  bodies, names, capabilities and texts are left out. Random identifiers are drawn
  from a set of unused ones, so that an identifier of a removed row never returns.
* `now` is `nowMillis()`. A transaction sees one instant, except where the code
  reads the clock twice in it: `CommitInbox` and `AcknowledgeMessages` compare the
  reservation with one reading and stamp the rows with a later one, and `TxTime`
  bounds the difference.
* A principal is a pair of agent and execution as a token identifies it. *Every*
  principal that ever existed may call every operation at any time
  (`KnownPrincipals`), which is what a request does that was authenticated long ago;
  `requireCurrentExecution` is the check inside the transaction.
* `scopeToken` counts rotations. A caller may present any token issued so far, and
  `requireScopeCredential` is the check of `beginTx`. Remote and output principals
  present a version of their secret in the same way.
* `registered_with` is a history field: the scope token under which an execution
  registered. `RotationRevokes` is about it.
* `PruneScope` is one transaction over all tables. Each module has its part of it,
  with the messages where the part depends on them; what a module does not touch it
  leaves unchanged. `Channels` and `RemoteTasks` contribute the rows by which they
  keep a message.
* Requests that fail leave the database as it was (the transaction rolls back) and
  are not steps, except where the code commits on the error path: a late
  `CommitInbox` releases the reservation and answers CONFLICT.

`InboxWait`: a request is a small process with a program counter; its steps are the
points between which other requests run: subscribe, authenticate, reserve (one
transaction), arm (the read of the next expiry, and the timer), parked. An operation
commits and then notifies, and `pending` holds the notifications in between. Go
channels are identities that are reused only when nobody refers to them any more.
`lapsed` is history (`Remember`): the requests that had found nothing, and had not parked
yet, when a reservation of their agent ran out. No guard reads it.

`EventWait`: the same for `Runtime.Events`, over the one channel of the scope; three
kinds of commit come without a notification (`CommitSilently`). A request that began
with a token checks it at every read.

`NativeWake`: a listener claims, posts and reports, and may stop or lose an answer at
any point, and two may overlap. `Post` is the only step that reaches the provider.
`written` is history: the attempts whose prompt may have arrived and that no explicit
retry released; a retry also takes its messages out of the `batch` of a listener that
is still to post, since it has answered for that attempt as well.

`Escalations`, `RemoteTasks`, `Channels`: their operations are `Delivery` steps with
their own rows beside them, so that the caps on messages, the idempotency and the
expiry they meet are those of `Delivery`. The state of a remote task changes inside
the transaction that delivers, expires or answers its message.

`Archive`: `archive` is a value outside the database. `archiveOf` is what the export
writes (reservations and claims undone, no credential, execution or token), and
`validateArchive` is what it and the import check. `insertArchive` follows the order
in which rows with references are inserted. `ScopeNext` composes the steps of
`Escalations` and `RemoteTasks` in one scope, with one retention for both
(`PruneScope`), and `ArchiveSpec` adds the moves. The archived board, streams and channels are
checked in the modules that have them (`validArchivedTasks`, `validArchivedOutputs`,
`validArchivedChannels`).

`Attachments`: every request is a process; waiting for a lock is a step of its own.
`Crash` ends all requests at once and keeps rows and files, and the backup is a process
of its own that may hold the lock file over a crash. A commit of an upload or an import
whose answer is lost is decided later (`doubt`): the locks are given back and the
collection may run in between. A file that its own request wrote is younger than an hour
then, and the collection leaves it alone; the model takes such a commit to be decided
within the hour. A file that an import found in the directory (`TakeOver`) keeps the age
it has and is not protected: `lost` is history, the attachments whose file was removed
while the commit of such an import was in doubt. `RowsHaveFiles` exempts these and no
others; `RecordsHaveFiles` exempts none, and finding 3 refutes it.

`HostedAccess`, `HostedOAuth`: a transaction holds the workspace's lock and is one
step; a request that looked something up before (`call`) goes on with what it read.
Ownership is counted over all workspaces of an account under a second lock. Deleting the
row of a member deletes what refers to it (`Cascade`): his connections and their pairings,
his sessions, the tokens and approvals of his OAuth grants, as the foreign keys of the
migrations say. A request that looked one of them up before no longer finds it.

`HostedBilling`: an operation works on its own copy of the billing rows (`op.db`)
under the billing lock, calls the provider in between, and may stop after any call;
the provider's own steps (payment, expiry, cancellation, a request that arrives late)
are interleaved with it. A workspace has a trial until `TrialEnds`, or until a payment is
found (`trialOver`); afterwards a delivery needs a paid period.

`AgentSession`: `wire` holds the requests that are under way; each may be handled,
lost, or handled with its answer lost, also after its sender gave up. The client's timeout
(`RequestTimesOut`) leaves the request under way, so that a heartbeat may reach the bus
after the next one was sent; `ContextEnds` is the cancellation of the context the session
was started with, and `RegisterElsewhere` another process that registers the same agent.

## 3. Runs

Several properties are conjunctions of named parts; the run fails when one part does.

| Run | Asks |
|---|---|
| `delivery_fencing` | Two agents, two executions each, two scope tokens, one message: can a replaced, expired, retired or revoked execution act, or leave a reservation behind (`ReservationsSound`: `ReservedIffHeld`, `ReservationFencing`)? Also the refinement of `Mailbox`. |
| `delivery_traffic` | Two linked agents, two messages with one idempotency key, expiry, reservations that run out, transactions that take time, retention at every cutoff. |
| `delivery_late_release` | *Violation*, finding 1. |
| `task_board` | Part *claims*: two agents, two executions each, one task. Part *dependencies*: three tasks, every dependency graph, progress at its limits, retention. `BoardSound`: `ClaimFencing`, `BoardBounded`. `BoardExportable`: no circle of tasks, nor a dependency that is gone, so that the export accepts the board. `WorkKept`: work leaves who does it only when he lets go of it or lost his authority, done work stays done. |
| `inbox_wait` | Part *budget*: two long polls of one agent; part *signals*: one long poll of one of two agents whose executions are replaced and retired. `PlacesExact`: `BudgetExact`, `SignalsExact`. `NoWorkMissed`: `LapseWakes`, and no request outside `lapsed` sleeps on a message that was never delivered. |
| `inbox_wait_lapse` | *Violation*, finding 2. |
| `native_wake` | Two listeners, two messages, three attempts of which two may find the provider away, crashes, late reports, retries. `PromptsSound`: `ReplayOnlyOnRequest`, `UncertaintyKept`. `AttemptsBounded`: the limit of tries, `WakesSpaced`. |
| `scope_work` | Part *questions* and part *remote* of `ScopeNext`, each with and without `moves`, in which the scope is exported, deleted and imported. `AnswersKept`: `ReplyPairing`, `AnswerStaysWithQuestion`. `TasksFollowMessages`: `CorrelationsHold`, `SubmittedIsWaiting`. `BacklogShared`: `BacklogBounded`, `RemoteShareBounded`. `TaskTransitionsLegal`. `Exportable`: whatever the operations made of the scope, an earlier import included, the export accepts it. |
| `streams` | Part *log*: two followers, batches, trim, retention, restarts (`LogSound`: `LogComplete`, `ImportMarkerStays`, `NoSilentGap`; `RecentEventsStay`). Part *wait*: long polls over the log. Part *output*: one stream, its agent and its credential (`OutputsSound`: `ValuesContiguous`, `NoValueSkipped`, `CredentialsHaveStream`, `RateHeld`, `validArchivedOutputs`). Part *inbox*: a long poll while its execution is replaced, revoked, expires, renews or shortens its lease. `LongPollsSound`: `NothingMissed`, `PlacesReturned`, `WaitEndsWithAuthority`. `OldTokenReadsNothing`. `LongPollsEnd` is liveness. |
| `scope_data` | Part *channels*: two posts with threads and subscribers over a full inbox (`FanOutComplete`; `ThreadsKept`: `validArchivedChannels`, `NoticeHasPost`). Part *history*: paging under writers (`PagesComplete`). Part *files*: two requests, collection, backup, one fault (`RowsHaveFiles`: `LiveHasFile`, `BackupWhole`; `LocksAcyclic`; `GarbageGoes` is liveness). Part *sessions*: a managed session of an agent that is registered elsewhere too (`SessionHonest`: `CloseMeansRetired`, `LeaseNotInvented`; `SessionSettles`: `SessionEnds`, `ConfirmedStateHolds`, liveness). |
| `import_in_doubt` | *Violation*, finding 3. |
| `hosted` | Part *accounts*: two people, two workspaces, an invitation, two requests in flight. Part *access*: connections, pairing, sessions. Part *oauth*: one grant, its tokens and their replay. `ExecutionHasAuthority`; `AccountsSound`: `OwnerRemains`, `OwnershipBounded`, `InvitesStand`, `OneGrantPerApproval`, `OneTrial`; `SingleChain`; `OldFamilyHarmless`. Parts *checkout* and *deliveries*: billing and the provider (`PurchasesSound`: `OnePurchase`, `NothingLeftToPay`, `AllowanceHeld`; `BillingSettles`: `AccessConverges`, `DeletionFinishes`, liveness). |

**Parts.** Components that share no state, or only the registry, are checked in one run
by a variable `part` (and `moves`) that is chosen in the initial state and never changes:
the behaviours of the run are those of the parts, side by side. The MC modules restrict
each part, and say how: fewer messages in one, no reuse of keys in another, one kind of
interference at a time. A restriction is a conjunct on the step or the next state there,
never in the component's module. In *files* at most one of the two requests is an import,
without a key, which decides nothing with one attachment (`PlainImports`), and the second
request starts only beside the first: requests differ in nothing but their names. In
*sessions* one of the two sessions runs (`OneSession`), and its agent is registered
elsewhere once it does.

**Bounds.** `MaxTime`, `MaxExecutions`, `MaxTokens`, `MaxRevision`, `MaxPending`,
`MaxAttempts`, `MaxVersions`, `MaxSecrets`, `MaxSequence`, `MaxScopeTokens`,
`MaxUnannounced`, `MaxFaults`, `MaxRefreshes`, `MaxGeneration`, `MaxHours`,
`MaxChanges`, `MaxFailures`, `MaxStates`, `MaxLosses` and the sets of identifiers bound
the runs; the caps of the code (`MessageBacklogCap`, `EventCap`, `OwnedLimit`, ...) have
values so small that they are met. Two executions, tokens, secrets or generations are
enough to have one stale and one current, and every property about authority relates
one of each; `scope_work` has a third execution, after an import. One message suffices
where a property is about one row and its reservation; idempotency, retention,
batches of a wake and the fan-out have two, replies and the backlog three: one more than
the cap. Times are in units of which a lease, a reservation and a message expiry take
one to three, so that each can end before, with and after the other. The event log has a
cap of four and a trim step of two, with batches that jump over a step; a stream keeps
one or two of three values; billing has two purchases, and two changes by the provider or
one of them and a lost answer. The cases the runs are for do occur: each property has a mutant of the
code that breaks it under the same configuration, and every action of every next-state
relation is taken in some run. Deadlock is not checked where requests and identifiers
are used up by design: the runs that compose parts, and the hosted service.

**Fairness.**

* `WaitFairness`: the clock, a handler that has committed going on to notify, and the
  goroutine of a waiting request. No client is assumed to send, commit, release,
  acknowledge or cancel. `WaitsEnd` needs the deadline timer.
* `EventWaitFairness`: the goroutine of a request, its timer, and the notification.
* `SessionFairness`: the goroutines and timers of a session, and a bus that answers a
  request somebody waits for, unless it is lost (`MaxLosses` of them are).
* `AttachmentsFairness`: requests go on; time passes; a commit in doubt is decided. The
  collection starts over wherever there are files (`CollectionFairness`).
  Strong fairness of the collection's locks stands for the queues of Go's mutexes and
  of the database, and of `Query` for the hourly repetition, not every one of which
  meets a backup.
* `BillingFairness`: an operation goes on or is refused, time and open checkouts pass.
  Strong fairness of `ReconcileDue` and `FinishDeletion` stands for maintenance, which
  runs every minute and queues for the billing lock. Nobody is assumed to pay or cancel.

**Findings.**

1. `delivery_late_release`: the specification (`spec/0.1/README.md:119`) says that
   expiry is materialized before a reservation is released. `releaseAgentReservations`
   and the late branch of `CommitInbox` release without expiring first, so an overdue
   message is visibly queued until the next transaction that expires. It is never
   delivered late: `DeliveredInTime` holds and is proved.
2. `inbox_wait_lapse`: the specification (`spec/0.1/README.md:101`) says that a wait
   ends when work becomes reservable. A late commit that requeues a message between
   the two reads of a long poll notifies nobody, and the poll sleeps to its deadline,
   at most 25 seconds (one second with Postgres). `inbox_wait` shows that this is the
   only way to lose a wake-up: a reservation that runs out between the two reads.
3. `import_in_doubt`: the comment in `UploadAttachment` (`attachments.go:353`) and, of
   imports, `spec/0.1/archives.md:63` say that an ambiguous commit may leave a file
   without a record and never a broken record. An import takes over a file that a failed
   import left (`attachments_archive.go:133`) without renewing its time, and gives its
   locks back when its commit (`archive.go:1235`) fails without an answer. As long as the
   database has not decided, the collector sees a file older than an hour and no row, and
   removes it (`attachments.go:645`); when the commit takes effect after all, the
   attachment is there without its bytes. With SQLite a commit is decided when it returns,
   so this needs Postgres. `RowsHaveFiles` is proved for everything else.

Behaviour that the models show and no document contradicts, worth knowing:

* `Close` of a session may report an error although the execution is retired
  (`session.go:226`): the answer was lost. The converse does not happen.
* A device that removes itself is authenticated before the workspace's lock is taken and
  then revoked by its ID (`hosted_pairing.go:262`). When its connection is replaced in
  between, the replacement is revoked (`SelfRevoke`): authority ends too early, never too
  late.
* An import whose answer was lost finds its attachments on the retry
  (`attachments_archive.go:133`) and the marker of `EventLog` its archive.
* Remote correlations are imported with a request hash computed anew; their principals
  have no credential in the imported scope, so nothing is accepted under them.

## 4. Proofs

All theorems hold for every set of agents, messages, tasks, clients and identifiers,
every bound and every duration that satisfies the named assumptions of the modules:
`RegistryAssumption`, `DeliveryAssumption`, `TaskAssumption`, `SessionAssumption`,
`EventAssumption`, `EventWaitAssumption`, `OutputAssumption`, `WakeAssumption`,
`WaitAssumption`, `EscalationAssumption`, `RemoteAssumption`, `ChannelsAssumption`,
`AttachmentsAssumption`, `HostedLimits`, `NothingIsNoRow`, `BillingTimes`. They say that
durations and caps are numbers, that a wait is shorter than a lease and no longer than a
reservation, that the window to repeat a checkout's creation is shorter than the
checkout's life, and that the kinds of participants and identifiers are disjoint. No set of participants
or identifiers is assumed finite: what is counted is finite because it is capped. The
runs evaluate the assumptions.

Every safety theorem has the same shape: an inductive invariant, found with TLC first,
is established by the initial states, preserved by every operation (one lemma or step
for each), and implies the property. What makes each invariant inductive:

* `RegistryProofs` has what every step on the agents table preserves; the proofs of
  the modules that build on the registry cite it.
* `DeliveryProofs`. `DeliveryInv`: types, `ReservedIffHeld`, `ReservationFencing`,
  `RotationRevokes` and `DeliveredInTime`. Fencing is not inductive alone: that a commit
  affects only its own messages needs `ReservedIffHeld`, and that nobody holds a
  reservation after a rotation needs both. From it follow the invariants,
  `AuthorityNeverReturns` as an action property, and that every step is a `Mailbox` step
  of one abstract mailbox or leaves it unchanged. Each operation is then classified once
  by what it does to the rows: it carries them over, stores one, or prunes a set closed
  under replies. `ReplyPairing`, `IdempotentSends` and the step property
  `RetentionKeepsObligations` follow from this classification, and so do the modules
  that only add rows of their own beside a message. The backlog is a cardinality: a send
  adds one unfinished message when there are fewer than the cap.
* `BoardSessionProofs`. `TaskInv`: types with the CHECK constraint on the claim columns,
  `ClaimFencing` and `DependenciesHold`. The step for retention rests on the closure
  property of `retentionTaskCandidates`, which is defined as the least retained set that
  is closed under dependencies. `WorkKept` follows from the same invariant, one lemma
  for each of its halves. `BoardInv` adds the bound and that every set of tasks on
  the board has one that depends on none of the others: a new task depends only on tasks
  that were there before it, so that the argument goes on without it. `SessionInv`, for
  `CloseMeansRetired` and `LeaseNotInvented`: the loop of a session waits for one
  request at a time, which is answered at most once; a session that closes waits for its
  retirement; an execution that lost its authority never has it again; and no lease a
  session was told is later than the one in the row.
* `StreamsProofs`. For the log, the inductive invariant says that it is sound (types,
  completeness above the floor, the marker) and that no follower has a gap. A page is
  answered from the rows, so that `NoSilentGap` rests on `LogComplete`. The first
  revision of a retention cutoff and the last one of a page exist because the naturals
  are well founded. `PollInv`: a request between its subscription and
  its select is on the channel or was signaled; once its read found nothing, what is
  beyond its cursor was committed silently or a notification for it is still to come. `OutputInv`: the values of a stream are
  numbered without holes, what a follower knows is below the next number, and the counts
  of the open windows are those of the values accepted in them.
* `WakeProofs`. An attempt is *live* for a message when its prompt was written or is in
  the hands of a listener that has yet to post. `WakeInv` says that there is at most one
  (`OneLive`), that the row knows it and stands while the message is there (`OnRecord`),
  that attempt IDs are fresh and listeners have different ones, and that an attempt
  reported unavailable was not written. A row that is due has no live attempt, which is
  why a claim preserves it. `Paced` relates rows, connection and current execution for
  `WakesSpaced`; it rests on the order of executions. That a removed message stays
  removed is taken from the proof of the mailbox refinement. `WaitInv`, for the long
  poll of the inbox: the places taken are those of the requests in flight, the
  subscriptions are those of their channels, which no two agents share, and a parked
  request has its timer before every reservation of its agent lapses and before the
  lease of its execution ends. An operation that ends an execution or refills a queue
  has its notification in `pending` until the waiters are signaled. For
  `NoWorkMissed`, a request that found nothing and is not in `lapsed` either has a
  notification to come or sleeps on an inbox with nothing queued, and while it arms no
  reservation of its agent has run out; without `lapsed` finding 2 refutes this.
  `LongPollsAreSound` takes `WaitInv` and `PollInv` together.
* `ScopeWorkProofs`. Questions and remote tasks are rows beside messages, and share
  `RowsInv`, carried over every operation by the classification above. `AnswersInv`: the
  answer and the resolution of a question are written at one instant, so that what
  finishes later is removed later. `RemoteInv`: each correlation has its request, which
  does not expire, and each request of a remote principal its correlation; a submitted
  task has one request that is not delivered; a retained set keeps both messages of a
  pair. `ShareInv`: the share of the backlog grows only in `AcceptA2AMessage`.
  `ArchiveInv`, for `Exportable`, is over `ArchiveSpec`, where questions and remote work
  share a scope. It has three parts. While the scope is there, or not, `ScopeInv` holds:
  `AnswersInv`, `ShareInv` and unique keys (`WorkInv`), and what `validateArchive` asks
  of the tables and no operation looks at again (`TablesOK`): links, senders and
  recipients, publications and the agents of tasks are of the scope, since nobody leaves
  it, and the pending questions are within the caps. Where the scope is not there, its
  rows are gone (`Emptied`). And the archive is a value that satisfies the same relations
  between its tables (`ArchiveOK`), dated no later than the clock, with identifiers that
  stay used (`UsedIds`); that is more than the import checks, and needed, since an archive
  is imported long after it was taken. That an archived message and its row are the same
  but for the reservation (`SameMessage`) carries each relation into the archive, and the
  import carries it back over rows that are empty. `MovedWorkIsSound`,
  `MovedMailIsSound` and `MovedTasksAreLegal` are the earlier theorems for scopes that
  hold both kinds of work and move; the theorems of one kind alone stay, over
  `EscalationsSpec` and `RemoteSpec`.
* `ScopeDataProofs`. `AttachmentsInv`: where each request stands determines the locks it
  holds, which are taken in one order, and which of its rows and files exist; a commit
  in doubt, the collection and the dump of a backup have an invariant of this kind each,
  with the exemption of `lost`. `ChannelsInv`, over `ChannelsSpec`, in which the rest of the scope may do
  anything with messages except remove them (retention does that): every post has one
  notification for each subscriber, one that can still be delivered names a post that
  stands and was made at most a week and a transaction before it expires, and threads
  are removed whole because the root decides for all of its replies. `PagesComplete` rests on this:
  what a reader has yet to see is older than its cursor. That a post was stored only if
  all its notifications were is an argument on the finite sets of both.
* `HostedProofs`. `HostedInv`: `OwnershipCounted` counts the workspaces an account owns
  and those a request in flight is about to grant it, which is why two requests cannot
  pass the limit together; the cascade of a removed member ends rows and changes no
  credential of one that stays; invitations, trials and grants are used once; of the tokens
  of a grant one chain is live (`FamilyCurrent`, `Chained`). `OldFamilyHarmless` follows
  as a step property. `BillingInv`, for `PurchasesSound`, says of the rows of a
  workspace, the committed ones and the copy an operation works on, what they imply
  about the provider (`Holds`): whatever can still be paid belongs to the one pending
  attempt or is the subscription the rows name; an attempt that was given up has its
  checkout already or is older than any checkout can be, so that a creation request
  that comes late makes nothing payable; and a deletion goes on to the subscription only
  when nothing is pending. The provider moves between any two steps of an operation, and
  each of its steps preserves `Holds` for all rows at once; that is why an operation may
  commit what it decided on an earlier answer, or roll back after the provider acted.
  Deliveries are counted as a set (`Charged`), one element for each.

Every invariant and every step property that a passing run checks is stated by a theorem.
Only model-checked:

* liveness (`LongPollsEnd`, `GarbageGoes`, `BillingSettles`, `SessionSettles`), which is
  out of the prover's reach, with the fairness it needs;
* the three violations, which are behaviours that TLC exhibits.

## 5. What is not modelled, and the plan

Left out, with the reason:

* SQL, HTTP, JSON and the validation of texts: data, and external programs. The
  serialization of one scope's transactions by the database is assumed. With Postgres,
  another server process commits without a signal; `Polls` and `PollInterval` stand for
  the poll of one second that bounds the wait then.
* The A2A bridge (`a2abridge/`) translates a wire protocol into `AcceptA2AMessage` and
  `A2ATask`, and polls; it keeps no state of its own. Cards and signatures are data.
* Hosted identity: verification of signed tokens, cookies, cryptography.
* The credential forwarding gateway, the MCP bridge and its reconnecting upstream: they
  forward requests and repeat none of them; pools of connections with nothing durable.
* Command line, adapters, SDK, plugin, web console: arguments, configuration files,
  child processes, rendering.
* The conformance suite: a client that tests other implementations.
* Partly: the long poll of `Runtime.ClaimWake` (the protocol of `InboxWait` with another
  transaction inside), the status of a wake and the adapter that writes to a provider;
  the import of boards, streams and channels, of which the archived form is validated;
  migration between databases, which streams the records of an archive; the lock file
  of the daemon.

The plan, most important first:

1. The import of the task board and the channels as actions, and `ArchiveInv` over them.
2. The long poll of `Runtime.ClaimWake` over `NativeWake`.
3. The gateway's admission of connections and its shutdown, should its budget become
   shared with the waiters of the runtime.
