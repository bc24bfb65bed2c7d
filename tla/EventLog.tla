------------------------------ MODULE EventLog ------------------------------
(***************************************************************************)
(* The event log of one scope: the events table and the two revisions of   *)
(* the scopes row (bus/events.go, and the event part of PruneScope in      *)
(* bus/storage.go), with the clients that follow it.                       *)
(*                                                                         *)
(* An event is its revision, whether it is the scope.imported marker, and  *)
(* created_at, which is a wall clock and need not grow with the revision.  *)
(* What an event says is left out.                                         *)
(***************************************************************************)
EXTENDS Integers, FiniteSets

CONSTANTS
  Clients,       \* followers of the log
  Instants,      \* values of the wall clock
  BatchSizes,    \* events one appendEvents inserts, at most 128
  EventLimits,   \* the limit values of an Events request
  Hosted,        \* the scope is a hosted workspace on Postgres
  EventCap,      \* a hosted log keeps about this many events (100000)
  TrimStep,      \* and is trimmed when the revision passes a multiple of this (100)
  MaxRevision    \* bound: revisions issued

ASSUME EventAssumption ==
  /\ Instants \subseteq Nat
  /\ BatchSizes \subseteq Nat \ {0}
  /\ EventLimits \subseteq Nat \ {0}
  /\ Hosted \in BOOLEAN
  /\ EventCap \in Nat
  /\ TrimStep \in Nat \ {0}
  /\ EventCap % TrimStep = 0
  /\ MaxRevision \in Nat

VARIABLES
  log,        \* the events table and the revisions of the scopes row
  cursor,     \* per client: the revision it has committed
  known       \* per client, history: the revisions it saw or rebuilt from the resources

eventVars == <<log, cursor, known>>

(* revision is scopes.event_revision and floor event_floor_revision; rows   *)
(* are the revisions retained in the events table, marker the revision of  *)
(* scope.imported or 0, and created the created_at of every revision.      *)
Log(revision) ==
  [revision : {revision}, floor : 0..revision, rows : SUBSET (1..revision),
   marker : {0, 1}, created : [1..revision -> Instants]]

-----------------------------------------------------------------------------
(* Fault: the import marker goes like any other event.                     *)
DeleteUpTo_All(l, f) ==
  [l EXCEPT !.rows = {r \in l.rows : r > f},
            !.floor = IF f > l.floor THEN f ELSE l.floor]

(* Fault: events are deleted and the floor stays where it was.             *)
DeleteUpTo_KeepsFloor(l, f) ==
  [l EXCEPT !.rows = {r \in l.rows : r > f \/ r = l.marker}]

(* Events up to f are deleted and the floor is raised.  The import marker  *)
(* stays: it is what makes a repeated import idempotent.                   *)
DeleteUpTo(l, f) ==
  [l EXCEPT !.rows = {r \in l.rows : r > f \/ r = l.marker},
            !.floor = IF f > l.floor THEN f ELSE l.floor]

(* The events of a batch take the next revisions.                          *)
Inserted(l, n, at) ==
  LET last == l.revision + n IN
  [l EXCEPT !.revision = last,
            !.rows = l.rows \cup (l.revision + 1)..last,
            !.created = [r \in 1..last |-> IF r > l.revision THEN at ELSE l.created[r]]]

(* Fault: the floor a trim reports is beyond what was issued.              *)
TrimFloor_FromStep(l, n) == (((l.revision + n) \div TrimStep) + 1) * TrimStep

TrimFloor(l, n) == (((l.revision + n) \div TrimStep) * TrimStep) - EventCap

(* A hosted log is trimmed in the transaction that passes a multiple of    *)
(* TrimStep.                                                               *)
appendEvents(l, n, at) ==
  LET last == l.revision + n IN
  IF Hosted /\ last > EventCap /\ l.revision \div TrimStep < last \div TrimStep
  THEN DeleteUpTo(Inserted(l, n, at), TrimFloor(l, n))
  ELSE Inserted(l, n, at)

(* An imported scope starts with its marker, any other scope with nothing. *)
EventInit ==
  /\ \E r \in {0, 1} : \E at \in [1..r -> Instants] :
       log = [revision |-> r, floor |-> 0, rows |-> 1..r, marker |-> r, created |-> at]
  /\ cursor = [c \in Clients |-> 0]
  /\ known = [c \in Clients |-> {}]

(* A transaction of the bus that records events.                           *)
Record(n, at) ==
  /\ log.revision + n <= MaxRevision
  /\ log' = appendEvents(log, n, at)
  /\ UNCHANGED <<cursor, known>>

(* Fault: the floor is the newest event that is too old.                   *)
PruneFloor_LastOld(l, before) ==
  LET old == {r \in l.rows : l.created[r] < before} IN
  IF old = {} THEN l.floor ELSE CHOOSE r \in old : \A s \in old : s <= r

(* Everything before the first event that is recent enough.                *)
PruneFloor(l, before) ==
  LET recent == {r \in l.rows : l.created[r] >= before}
      f      == IF recent = {} THEN l.revision
                ELSE (CHOOSE r \in recent : \A s \in recent : r <= s) - 1 IN
  IF f < l.floor THEN l.floor ELSE f

(* The floor moves only when there is an event to delete.                  *)
PruneEvents(l, before) ==
  LET f == PruneFloor(l, before) IN
  IF \E r \in l.rows : r <= f /\ r # l.marker THEN DeleteUpTo(l, f) ELSE l

(* The sweeps of expireMessages and releaseStaleTaskClaims record their    *)
(* events (n of them, possibly none) first.                                *)
PruneScope(n, at, before) ==
  /\ log.revision + n <= MaxRevision
  /\ log' = PruneEvents(IF n = 0 THEN log ELSE appendEvents(log, n, at), before)
  /\ UNCHANGED <<cursor, known>>

-----------------------------------------------------------------------------
(* At most limit rows after the cursor, oldest first.                      *)
Pages(after, limit) ==
  LET rest == {r \in log.rows : r > after} IN
  {batch \in SUBSET rest :
     /\ \A r \in batch, s \in rest \ batch : r < s
     /\ Cardinality(batch) = limit \/ (batch = rest /\ Cardinality(rest) < limit)}

NextRevision(after, batch) ==
  IF batch = {} THEN after ELSE CHOOSE r \in batch : \A s \in batch : s <= r

(* Fault: a client whose cursor fell below the floor is not told.          *)
Events_NoResync(c, limit) ==
  /\ cursor[c] <= log.revision
  /\ \E batch \in Pages(cursor[c], limit) :
       /\ cursor' = [cursor EXCEPT ![c] = NextRevision(cursor[c], batch)]
       /\ known' = [known EXCEPT ![c] = known[c] \cup batch]
  /\ UNCHANGED log

(* A client requests what comes after its cursor and commits what it got.  *)
(* Below the floor it is told to rebuild its projection from the resources *)
(* and to go on at the current revision.                                   *)
Events(c, limit) ==
  /\ cursor[c] <= log.revision
  /\ IF cursor[c] < log.floor
     THEN /\ cursor' = [cursor EXCEPT ![c] = log.revision]
          /\ known' = [known EXCEPT ![c] = 1..log.revision]
     ELSE \E batch \in Pages(cursor[c], limit) :
            /\ cursor' = [cursor EXCEPT ![c] = NextRevision(cursor[c], batch)]
            /\ known' = [known EXCEPT ![c] = known[c] \cup batch]
  /\ UNCHANGED log

(* A client goes back to an earlier checkpoint of its own.                 *)
Restart(c) ==
  \E at \in 0..cursor[c] :
    /\ cursor' = [cursor EXCEPT ![c] = at]
    /\ known' = [known EXCEPT ![c] = known[c] \cap 1..at]
    /\ UNCHANGED log

EventNext ==
  \/ \E n \in BatchSizes, at \in Instants : Record(n, at)
  \/ \E n \in {0} \cup BatchSizes, at, before \in Instants : PruneScope(n, at, before)
  \/ \E c \in Clients, limit \in EventLimits : Events(c, limit)
  \/ \E c \in Clients : Restart(c)

EventSpec == EventInit /\ [][EventNext]_eventVars

-----------------------------------------------------------------------------
(* Type correctness: revisions are contiguous, every one has its time, and *)
(* the floor never passes what was issued.                                 *)
EventTypeOK ==
  /\ log.revision \in Nat
  /\ log \in Log(log.revision)
  /\ cursor \in [Clients -> Nat]
  /\ known \in [Clients -> SUBSET Nat]

(* Above its floor the log is complete, so that a cursor at or above the   *)
(* floor can be answered from the rows alone; below it only the marker of  *)
(* an import is left (events.go and PruneScope).                           *)
LogComplete ==
  /\ (log.floor + 1)..log.revision \subseteq log.rows
  /\ \A r \in log.rows : r > log.floor \/ r = log.marker

(* A client never skips an event without being told: up to its cursor it   *)
(* saw every revision or rebuilt its projection later than it, whatever    *)
(* trimming and retention removed between two of its requests and wherever *)
(* it restarts (Store.Events).                                             *)
NoSilentGap ==
  \A c \in Clients : cursor[c] \in 0..log.revision /\ 1..cursor[c] \subseteq known[c]

(* Retention takes no event that is recent enough, although the clock may  *)
(* have been set back between two events (PruneScope).                     *)
RecentEventsStay ==
  [][\A n \in {0} \cup BatchSizes, at, before \in Instants :
       PruneScope(n, at, before) =>
         LET swept == IF n = 0 THEN log ELSE appendEvents(log, n, at) IN
         \A r \in swept.rows : swept.created[r] >= before => r \in log'.rows]_eventVars

(* Neither trimming nor retention removes the record of an import, by      *)
(* which ImportScope recognizes an archive it has imported before.         *)
ImportMarkerStays == log.marker # 0 => log.marker \in log.rows

(* What a client may rely on when it follows the log (appendEvents,        *)
(* Store.Events, PruneScope): it is complete above its floor, the record   *)
(* of an import stays, and no client skips an event without being told.    *)
LogSound == EventTypeOK /\ LogComplete /\ ImportMarkerStays /\ NoSilentGap
=============================================================================
