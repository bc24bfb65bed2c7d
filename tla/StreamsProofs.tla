---------------------------- MODULE StreamsProofs ----------------------------
(***************************************************************************)
(* Proofs about what clients follow.  EventLog and EventWait: the log is   *)
(* complete above its floor, no client skips an event without being told,  *)
(* and a client that waits for events misses none that is announced.       *)
(* OutputStreams: a stream has no hole, its readers skip nothing unsaid,   *)
(* and no producer exceeds its rate.                                       *)
(***************************************************************************)
EXTENDS EventWait, OutputStreams, RegistryProofs, FiniteSetTheorems

(* A set of revisions that is bounded has a last one.                      *)
LEMMA LastExists ==
  ASSUME NEW b \in Nat, NEW S, S \subseteq 0..b, S # {}
  PROVE  \E x \in S : \A y \in S : y <= x
  <1> DEFINE D == {b - y : y \in S}
  <1>1. D \subseteq Nat /\ D # {}
    <2>1. \A y \in S : b - y \in Nat
      OBVIOUS
    <2>2. PICK y \in S : TRUE
      OBVIOUS
    <2>3. b - y \in D
      BY <2>2
    <2> QED BY <2>1, <2>3
  <1>2. PICK d \in D : \A e \in D : d <= e
    <2> HIDE DEF D
    <2> QED BY <1>1, FirstExists
  <1>3. PICK x \in S : d = b - x
    OBVIOUS
  <1>4. \A y \in S : d <= b - y
    BY <1>2
  <1> HIDE DEF D
  <1> QED BY <1>3, <1>4

(* The multiple of TrimStep a trim starts from is not beyond the revision. *)
LEMMA StepBelow ==
  ASSUME NEW x \in Nat
  PROVE  (x \div TrimStep) * TrimStep \in 0..x
  <1> DEFINE q == x \div TrimStep
  <1>1. TrimStep \in Nat /\ TrimStep > 0
    BY EventAssumption
  <1>2. q \in Nat
    BY <1>1
  <1>3. x = TrimStep * q + (x % TrimStep) /\ x % TrimStep \in Nat
    BY <1>1
  <1>4. q * TrimStep \in Nat /\ q * TrimStep = TrimStep * q
    BY <1>1, <1>2
  <1> HIDE DEF q
  <1>5. q * TrimStep \in 0..x
    BY <1>3, <1>4
  <1> QED BY <1>5 DEF q

-----------------------------------------------------------------------------
(* A log as every transaction leaves it.                                   *)
Sound(l) ==
  /\ l.revision \in Nat
  /\ l \in Log(l.revision)
  /\ (l.floor + 1)..l.revision \subseteq l.rows
  /\ \A r \in l.rows : r > l.floor \/ r = l.marker
  /\ l.marker # 0 => l.marker \in l.rows

(* Inserting a batch adds the next revisions and nothing else.             *)
LEMMA InsertedSound ==
  ASSUME NEW l, Sound(l), NEW n \in Nat, NEW at \in Instants
  PROVE  /\ Sound(Inserted(l, n, at))
         /\ Inserted(l, n, at).revision = l.revision + n
  <1> DEFINE i == Inserted(l, n, at)
             last == l.revision + n
  <1>1. /\ i.revision = last /\ i.floor = l.floor /\ i.marker = l.marker
        /\ i.rows = l.rows \cup (l.revision + 1)..last
        /\ i.created = [r \in 1..last |-> IF r > l.revision THEN at ELSE l.created[r]]
    BY DEF Sound, Log, Inserted
  <1>2. last \in Nat /\ l.revision \in Nat /\ l.revision <= last /\ l.floor \in 0..last
    BY DEF Sound, Log
  <1>3. i.created \in [1..last -> Instants]
    BY <1>1, <1>2 DEF Sound, Log
  <1>4. i.rows \subseteq 1..last
    BY <1>1, <1>2 DEF Sound, Log
  <1>5. l.marker \in {0, 1}
    BY DEF Sound, Log
  <1>6. i \in Log(last)
    <2>1. i = [l EXCEPT !.revision = last, !.rows = i.rows, !.created = i.created]
      BY <1>1 DEF Inserted
    <2> HIDE DEF i, last
    <2>2. l.floor \in 0..last /\ last \in {last}
      BY <1>2
    <2> QED BY <1>3, <1>4, <1>5, <2>1, <2>2 DEF Log, Sound
  <1>7. (i.floor + 1)..last \subseteq i.rows
    BY <1>1, <1>2 DEF Sound, Log
  <1>8. \A r \in i.rows : r > i.floor \/ r = i.marker
    BY <1>1, <1>2 DEF Sound, Log
  <1>9. i.marker # 0 => i.marker \in i.rows
    BY <1>1 DEF Sound
  <1> HIDE DEF i
  <1>10. Sound(i) /\ i.revision = last
    BY <1>1, <1>2, <1>6, <1>7, <1>8, <1>9 DEF Sound
  <1> QED BY <1>10 DEF i

(* Deleting up to a revision that was issued leaves the log complete above *)
(* the raised floor.                                                       *)
LEMMA DeleteSound ==
  ASSUME NEW l, Sound(l), NEW f \in Int, f <= l.revision
  PROVE  /\ Sound(DeleteUpTo(l, f))
         /\ DeleteUpTo(l, f).revision = l.revision
  <1> DEFINE d == DeleteUpTo(l, f)
             g == IF f > l.floor THEN f ELSE l.floor
  <1>1. /\ d.revision = l.revision /\ d.floor = g /\ d.marker = l.marker
        /\ d.rows = {r \in l.rows : r > f \/ r = l.marker}
    BY DEF Sound, Log, DeleteUpTo
  <1>2. /\ l.revision \in Nat /\ l.floor \in 0..l.revision /\ l.marker \in {0, 1}
        /\ l.created \in [1..l.revision -> Instants] /\ l.rows \subseteq 1..l.revision
    BY DEF Sound, Log
  <1>3. g \in 0..l.revision
    BY <1>2
  <1>4. d.rows \subseteq 1..l.revision
    BY <1>1, <1>2
  <1>5. d \in Log(l.revision)
    <2>1. d = [l EXCEPT !.rows = d.rows, !.floor = g]
      BY <1>1 DEF DeleteUpTo
    <2> HIDE DEF d, g
    <2> QED BY <1>2, <1>3, <1>4, <2>1 DEF Log, Sound
  <1> HIDE DEF d
  <1>6. (d.floor + 1)..l.revision \subseteq d.rows
    BY <1>1, <1>2 DEF Sound
  <1>7. \A r \in d.rows : r > d.floor \/ r = d.marker
    BY <1>1, <1>2 DEF Sound
  <1>8. d.marker # 0 => d.marker \in d.rows
    BY <1>1, <1>2 DEF Sound
  <1>9. Sound(d) /\ d.revision = l.revision
    BY <1>1, <1>2, <1>5, <1>6, <1>7, <1>8 DEF Sound
  <1> QED BY <1>9 DEF d

(* So does a batch with the trim that may follow it.                       *)
LEMMA AppendSound ==
  ASSUME NEW l, Sound(l), NEW n \in Nat, NEW at \in Instants
  PROVE  /\ Sound(appendEvents(l, n, at))
         /\ appendEvents(l, n, at).revision = l.revision + n
  <1> DEFINE i == Inserted(l, n, at)
  <1>1. Sound(i) /\ i.revision = l.revision + n
    BY InsertedSound
  <1>2. l.revision + n \in Nat
    BY DEF Sound
  <1>3. ((l.revision + n) \div TrimStep) * TrimStep \in 0..(l.revision + n)
    BY <1>2, StepBelow
  <1>4. TrimFloor(l, n) \in Int /\ TrimFloor(l, n) <= l.revision + n
    BY <1>2, <1>3, EventAssumption DEF TrimFloor
  <1>5. /\ Sound(DeleteUpTo(i, TrimFloor(l, n)))
        /\ DeleteUpTo(i, TrimFloor(l, n)).revision = l.revision + n
    <2> HIDE DEF i
    <2> QED BY <1>1, <1>4, DeleteSound
  <1> QED BY <1>1, <1>5 DEF appendEvents

(* And a retention pass.                                                   *)
LEMMA PruneSound ==
  ASSUME NEW l, Sound(l), NEW before \in Instants
  PROVE  /\ Sound(PruneEvents(l, before))
         /\ PruneEvents(l, before).revision = l.revision
         /\ \A r \in l.rows : l.created[r] >= before => r \in PruneEvents(l, before).rows
  <1> DEFINE recent == {r \in l.rows : l.created[r] >= before}
             first == CHOOSE r \in recent : \A s \in recent : r <= s
             f == PruneFloor(l, before)
  <1>1. /\ l.revision \in Nat /\ l.floor \in 0..l.revision /\ l.rows \subseteq 1..l.revision
        /\ l.marker \in {0, 1}
    BY DEF Sound, Log
  <1>2. recent # {} => first \in recent /\ \A s \in recent : first <= s
    <2>1. recent \subseteq Nat
      BY <1>1
    <2> HIDE DEF recent
    <2>2. recent # {} => \E r \in recent : \A s \in recent : r <= s
      BY <2>1, FirstExists
    <2> QED BY <2>2
  <1>3. f = IF (IF recent = {} THEN l.revision ELSE first - 1) < l.floor THEN l.floor
            ELSE IF recent = {} THEN l.revision ELSE first - 1
    BY DEF PruneFloor
  <1>4. f \in Int /\ f <= l.revision
    <2>1. recent # {} => first \in 1..l.revision
      BY <1>1, <1>2
    <2> HIDE DEF recent, first, f
    <2> QED BY <1>1, <1>3, <2>1
  <1>5. \A r \in recent : r > f \/ r = l.marker
    <2>1. \A r \in recent : r \in 1..l.revision /\ (r > l.floor \/ r = l.marker)
      BY <1>1 DEF Sound
    <2>2. \A r \in recent : first \in 1..l.revision /\ first <= r
      BY <1>1, <1>2
    <2> HIDE DEF recent, first, f
    <2> QED BY <1>1, <1>3, <2>1, <2>2
  <1>6. Sound(DeleteUpTo(l, f)) /\ DeleteUpTo(l, f).revision = l.revision
    <2> HIDE DEF f
    <2> QED BY <1>4, DeleteSound
  <1>7. DeleteUpTo(l, f).rows = {r \in l.rows : r > f \/ r = l.marker}
    <2> HIDE DEF f
    <2> QED BY DEF DeleteUpTo, Sound, Log
  <1>8. recent \subseteq DeleteUpTo(l, f).rows
    <2> HIDE DEF f
    <2> QED BY <1>5, <1>7
  <1>9. PruneEvents(l, before) = DeleteUpTo(l, f) \/ PruneEvents(l, before) = l
    BY DEF PruneEvents
  <1> HIDE DEF f
  <1> QED BY <1>6, <1>8, <1>9

-----------------------------------------------------------------------------
(* What the induction carries.  A page is answered from the rows, so that  *)
(* NoSilentGap rests on LogComplete.                                       *)
EventInv ==
  /\ Sound(log)
  /\ cursor \in [Clients -> Nat]
  /\ known \in [Clients -> SUBSET Nat]
  /\ NoSilentGap

(* A new or imported scope.                                                *)
LEMMA EventInitInv == EventInit => EventInv
  <1> SUFFICES ASSUME EventInit PROVE EventInv
    OBVIOUS
  <1>1. PICK r \in {0, 1} : \E at \in [1..r -> Instants] :
          log = [revision |-> r, floor |-> 0, rows |-> 1..r, marker |-> r, created |-> at]
    BY DEF EventInit
  <1>2. PICK at \in [1..r -> Instants] :
          log = [revision |-> r, floor |-> 0, rows |-> 1..r, marker |-> r, created |-> at]
    BY <1>1
  <1>3. log \in Log(r) /\ log.revision = r
    BY <1>2 DEF Log
  <1>4. Sound(log)
    BY <1>2, <1>3 DEF Sound
  <1>5. NoSilentGap
    BY <1>2, <1>3 DEF NoSilentGap, EventInit
  <1> QED BY <1>4, <1>5 DEF EventInv, EventInit

(* A transaction that leaves the log sound and takes back no revision.     *)
LEMMA LogStep ==
  ASSUME EventInv, Sound(log'), log'.revision >= log.revision, UNCHANGED <<cursor, known>>
  PROVE  EventInv'
  <1>1. log.revision \in Nat /\ log'.revision \in Nat
    BY DEF EventInv, Sound
  <1>2. NoSilentGap'
    BY <1>1 DEF EventInv, NoSilentGap
  <1> QED BY <1>2 DEF EventInv

(* A page after a cursor at or above the floor leaves no gap.              *)
LEMMA PageStep ==
  ASSUME EventInv, NEW c \in Clients, NEW limit \in EventLimits,
         ~ (cursor[c] < log.floor), NEW batch \in Pages(cursor[c], limit)
  PROVE  LET next == NextRevision(cursor[c], batch) IN
         next \in 0..log.revision /\ 1..next \subseteq known[c] \cup batch
  <1> DEFINE rest == {r \in log.rows : r > cursor[c]}
             next == NextRevision(cursor[c], batch)
  <1>1. /\ log.revision \in Nat /\ log.floor \in 0..log.revision
        /\ log.rows \subseteq 1..log.revision
        /\ (log.floor + 1)..log.revision \subseteq log.rows
    BY DEF EventInv, Sound, Log
  <1>2. cursor[c] \in 0..log.revision /\ 1..cursor[c] \subseteq known[c]
    BY DEF EventInv, NoSilentGap
  <1>3. batch \subseteq rest /\ \A r \in batch, s \in rest \ batch : r < s
    BY DEF Pages
  <1>4. CASE batch = {}
    BY <1>2, <1>4 DEF NextRevision
  <1>5. CASE batch # {}
    <2>1. batch \subseteq 0..log.revision
      BY <1>1, <1>3
    <2>2. \E x \in batch : \A y \in batch : y <= x
      BY <1>1, <1>5, <2>1, LastExists
    <2>3. next \in batch
      BY <1>5, <2>2 DEF NextRevision
    <2>4. next \in 0..log.revision
      BY <2>1, <2>3
    <2>5. ASSUME NEW r \in 1..next
          PROVE  r \in known[c] \cup batch
      <3> HIDE DEF next
      <3>1. CASE r <= cursor[c]
        BY <1>2, <3>1
      <3>2. CASE r > cursor[c]
        <4>1. r \in (log.floor + 1)..log.revision
          BY <1>1, <1>2, <2>4, <3>2
        <4>2. r \in rest
          BY <1>1, <3>2, <4>1
        <4>3. r \in batch \/ next < r
          BY <1>3, <2>3, <4>2
        <4> QED BY <2>4, <4>3
      <3> QED BY <1>2, <2>4, <3>1, <3>2
    <2> QED BY <2>4, <2>5
  <1> QED BY <1>4, <1>5

(* Every transaction, page and restart.                                    *)
LEMMA EventNextInv == EventInv /\ [EventNext]_eventVars => EventInv'
  <1> SUFFICES ASSUME EventInv, [EventNext]_eventVars PROVE EventInv'
    OBVIOUS
  <1>s. Sound(log) /\ log.revision \in Nat
    BY DEF EventInv, Sound
  <1>n. BatchSizes \subseteq Nat
    BY EventAssumption
  <1>1. ASSUME NEW n \in BatchSizes, NEW at \in Instants, Record(n, at)
        PROVE  EventInv'
    <2>1. log' = appendEvents(log, n, at) /\ UNCHANGED <<cursor, known>>
      BY <1>1 DEF Record
    <2>2. Sound(log') /\ log'.revision = log.revision + n
      BY <1>s, <1>n, <2>1, AppendSound
    <2>3. log'.revision >= log.revision
      BY <1>s, <1>n, <2>2
    <2> QED BY <2>1, <2>2, <2>3, LogStep
  <1>2. ASSUME NEW n \in {0} \cup BatchSizes, NEW at \in Instants, NEW before \in Instants,
               PruneScope(n, at, before)
        PROVE  EventInv'
    <2> DEFINE swept == IF n = 0 THEN log ELSE appendEvents(log, n, at)
    <2>1. log' = PruneEvents(swept, before) /\ UNCHANGED <<cursor, known>>
      BY <1>2 DEF PruneScope
    <2>2. n \in Nat
      BY <1>n
    <2>3. Sound(swept) /\ swept.revision = log.revision + n
      <3>1. CASE n = 0
        BY <1>s, <3>1
      <3>2. CASE n # 0
        BY <1>s, <2>2, <3>2, AppendSound
      <3> QED BY <3>1, <3>2
    <2> HIDE DEF swept
    <2>4. Sound(log') /\ log'.revision = log.revision + n
      BY <2>1, <2>3, PruneSound
    <2>5. log'.revision >= log.revision
      BY <1>s, <2>2, <2>4
    <2> QED BY <2>1, <2>4, <2>5, LogStep
  <1>3. ASSUME NEW c \in Clients, NEW limit \in EventLimits, Events(c, limit)
        PROVE  EventInv'
    <2>1. log' = log
      BY <1>3 DEF Events
    <2>2. CASE cursor[c] < log.floor
      <3>1. /\ cursor' = [cursor EXCEPT ![c] = log.revision]
            /\ known' = [known EXCEPT ![c] = 1..log.revision]
        BY <1>3, <2>2 DEF Events
      <3>2. NoSilentGap'
        BY <1>s, <2>1, <3>1 DEF EventInv, NoSilentGap
      <3> QED BY <1>s, <2>1, <3>1, <3>2 DEF EventInv
    <2>3. CASE ~ (cursor[c] < log.floor)
      <3>1. PICK batch \in Pages(cursor[c], limit) :
              /\ cursor' = [cursor EXCEPT ![c] = NextRevision(cursor[c], batch)]
              /\ known' = [known EXCEPT ![c] = known[c] \cup batch]
        BY <1>3, <2>3 DEF Events
      <3> DEFINE next == NextRevision(cursor[c], batch)
      <3>2. next \in 0..log.revision /\ 1..next \subseteq known[c] \cup batch
        BY <2>3, PageStep
      <3>3. batch \subseteq Nat
        BY DEF Pages, EventInv, Sound, Log
      <3>4. cursor' = [cursor EXCEPT ![c] = next]
        BY <3>1
      <3> HIDE DEF next
      <3>5. NoSilentGap'
        BY <1>s, <2>1, <3>1, <3>2, <3>4 DEF EventInv, NoSilentGap
      <3>6. next \in Nat /\ known[c] \cup batch \in SUBSET Nat
        <4>1. known[c] \subseteq Nat
          BY DEF EventInv
        <4>2. next \in Nat
          BY <1>s, <3>2
        <4> QED BY <3>3, <4>1, <4>2
      <3>7. cursor' \in [Clients -> Nat] /\ known' \in [Clients -> SUBSET Nat]
        BY <3>1, <3>4, <3>6 DEF EventInv
      <3> QED BY <1>s, <2>1, <3>5, <3>7 DEF EventInv
    <2> QED BY <2>2, <2>3
  <1>4. ASSUME NEW c \in Clients, Restart(c)
        PROVE  EventInv'
    <2>1. PICK at \in 0..cursor[c] :
            /\ cursor' = [cursor EXCEPT ![c] = at]
            /\ known' = [known EXCEPT ![c] = known[c] \cap 1..at]
            /\ log' = log
      BY <1>4 DEF Restart
    <2>2. cursor[c] \in 0..log.revision /\ 1..cursor[c] \subseteq known[c]
      BY DEF EventInv, NoSilentGap
    <2>3. at \in 0..log.revision /\ 1..at \subseteq known[c] \cap 1..at
      BY <1>s, <2>2
    <2>4. NoSilentGap'
      BY <1>s, <2>1, <2>3 DEF EventInv, NoSilentGap
    <2>5. cursor' \in [Clients -> Nat] /\ known' \in [Clients -> SUBSET Nat]
      BY <1>s, <2>1, <2>3 DEF EventInv
    <2> QED BY <1>s, <2>1, <2>4, <2>5 DEF EventInv
  <1>5. CASE UNCHANGED eventVars
    BY <1>5 DEF eventVars, EventInv, NoSilentGap, Sound
  <1> QED BY <1>1, <1>2, <1>3, <1>4, <1>5 DEF EventNext

(* The inductive invariant holds in every reachable state.                 *)
LEMMA EventInvHolds == EventSpec => []EventInv
  BY EventInitInv, EventNextInv, PTL DEF EventSpec

(* The log and the clients' cursors keep their types; in particular the    *)
(* floor never passes the current revision (Store.Events, PruneScope).     *)
THEOREM EventTypeCorrectness == EventSpec => []EventTypeOK
  <1>1. EventInv => EventTypeOK
    BY DEF EventInv, Sound, EventTypeOK
  <1> QED BY <1>1, EventInvHolds, PTL

(* Above its floor the log is complete, through every trim and every       *)
(* retention pass (appendEvents, PruneScope).                              *)
THEOREM LogIsComplete == EventSpec => []LogComplete
  <1>1. EventInv => LogComplete
    BY DEF EventInv, Sound, LogComplete
  <1> QED BY <1>1, EventInvHolds, PTL

(* No client skips an event without being told to resynchronize            *)
(* (Store.Events).                                                         *)
THEOREM FollowersMissNothing == EventSpec => []NoSilentGap
  <1>1. EventInv => NoSilentGap
    BY DEF EventInv
  <1> QED BY <1>1, EventInvHolds, PTL

(* The record of an import is never removed (appendEvents, PruneScope).    *)
THEOREM ImportIsRemembered == EventSpec => []ImportMarkerStays
  <1>1. EventInv => ImportMarkerStays
    BY DEF EventInv, Sound, ImportMarkerStays
  <1> QED BY <1>1, EventInvHolds, PTL

(* Retention takes no event that is recent enough (PruneScope).            *)
THEOREM RetentionKeepsRecentEvents == EventSpec => RecentEventsStay
  <1>1. ASSUME EventInv, NEW n \in {0} \cup BatchSizes, NEW at \in Instants,
               NEW before \in Instants, PruneScope(n, at, before)
        PROVE  LET swept == IF n = 0 THEN log ELSE appendEvents(log, n, at) IN
               \A r \in swept.rows : swept.created[r] >= before => r \in log'.rows
    <2> DEFINE swept == IF n = 0 THEN log ELSE appendEvents(log, n, at)
    <2>1. log' = PruneEvents(swept, before)
      BY <1>1 DEF PruneScope
    <2>2. Sound(log) /\ n \in Nat
      BY <1>1, EventAssumption DEF EventInv
    <2>3. Sound(swept)
      BY <2>2, AppendSound
    <2> HIDE DEF swept
    <2>4. \A r \in swept.rows : swept.created[r] >= before => r \in log'.rows
      BY <2>1, <2>3, PruneSound
    <2> QED BY <2>4 DEF swept
  <1>2. EventInv =>
          [\A n \in {0} \cup BatchSizes, at, before \in Instants :
             PruneScope(n, at, before) =>
               LET swept == IF n = 0 THEN log ELSE appendEvents(log, n, at) IN
               \A r \in swept.rows : swept.created[r] >= before => r \in log'.rows]_eventVars
    BY <1>1
  <1> QED BY <1>2, EventInvHolds, PTL DEF RecentEventsStay

(* The log can be relied on, for every batch size, page size, cap and trim *)
(* step (appendEvents, Store.Events, PruneScope).                          *)
THEOREM LogIsSound == EventSpec => []LogSound
  BY EventTypeCorrectness, LogIsComplete, ImportIsRemembered, FollowersMissNothing, PTL DEF LogSound

-----------------------------------------------------------------------------
(* The long poll.  To its variables a step of the log is a commit, a read  *)
(* or nothing, so that all of the above holds under it.                    *)
LEMMA WaitStepsLog ==
  ASSUME [EventWaitNext]_<<eventVars, pollVars>>
  PROVE  [EventNext]_eventVars
  <1> DEFINE Goal == EventNext \/ UNCHANGED eventVars
  <1>1. ASSUME NEW n \in BatchSizes, NEW at \in Instants, Commit(n, at) \/ CommitSilently(n, at)
        PROVE  Goal
    <2>1. Record(n, at)
      BY <1>1 DEF Commit, CommitSilently
    <2> QED BY <2>1, Zenon DEF EventNext
  <1>2. ASSUME NEW n \in {0} \cup BatchSizes, NEW at \in Instants, NEW before \in Instants,
               CommitPrune(n, at, before)
        PROVE  Goal
    <2>1. PruneScope(n, at, before)
      BY <1>2 DEF CommitPrune
    <2> QED BY <2>1, Zenon DEF EventNext
  <1>3. ASSUME NEW c \in Clients, NEW limit \in EventLimits, ReadNow(c, limit)
        PROVE  Goal
    <2>1. Events(c, limit)
      BY <1>3 DEF ReadNow
    <2> QED BY <2>1, Zenon DEF EventNext
  <1>4. ASSUME NEW c \in Clients, NEW limit \in EventLimits, ReadEvents(c, limit)
        PROVE  Goal
    <2>1. Events(c, limit) \/ UNCHANGED eventVars
      BY <1>4 DEF ReadEvents
    <2> QED BY <2>1, Zenon DEF EventNext
  <1>5. RotateToken \/ notifyScope => UNCHANGED eventVars
    BY DEF RotateToken, notifyScope
  <1>6. \A c \in Clients : StartPoll(c) \/ SubscribeScope(c) \/ scopeAuthority(c) \/ ArmPoll(c)
                           \/ WakePoll(c) \/ CancelPoll(c) \/ Deadline(c) => UNCHANGED eventVars
    BY DEF StartPoll, SubscribeScope, scopeAuthority, ArmPoll, WakePoll, CancelPoll, Deadline
  <1>7. UNCHANGED <<eventVars, pollVars>> => UNCHANGED eventVars
    OBVIOUS
  <1> HIDE DEF Goal
  <1>8. Goal
    <2>1. UNCHANGED eventVars => Goal
      BY DEF Goal
    <2> QED BY <1>1, <1>2, <1>3, <1>4, <1>5, <1>6, <1>7, <2>1, Zenon DEF EventWaitNext, Step
  <1> QED BY <1>8 DEF Goal

(* The log can be relied on while clients wait for it.                     *)
THEOREM LogIsSoundWhileWaiting == EventWaitSpec => []LogSound
  <1>1. EventWaitSpec => EventInit /\ [][EventWaitNext]_<<eventVars, pollVars>>
    BY DEF EventWaitSpec, EventWaitInit
  <1>2. EventInv /\ [EventWaitNext]_<<eventVars, pollVars>> => EventInv'
    BY WaitStepsLog, EventNextInv
  <1>3. EventInv => LogSound
    BY DEF EventInv, Sound, LogSound, EventTypeOK, LogComplete, ImportMarkerStays
  <1> QED BY <1>1, <1>2, <1>3, EventInitInv, PTL

(* The calls in flight.  A request between its subscription and its select *)
(* is on the channel or was woken; once its read found nothing, what came  *)
(* after it was committed silently, or a notification is still to come.    *)
PCs == {"idle", "subscribe", "authority", "read", "arm", "parked"}

Call == [pc : PCs, token : Nat, late : BOOLEAN, signaled : BOOLEAN]

Beyond(c) == {r \in log.rows : r > cursor[c]}

PollInv ==
  /\ calls \in [Clients -> Call]
  /\ current \in Nat /\ unannounced \in Nat
  /\ subscribed \subseteq Clients /\ IsFiniteSet(subscribed)
  /\ PlacesReturned
  /\ \A c \in Clients :
       calls[c].pc \in {"authority", "read", "arm", "parked"} => c \in subscribed \/ calls[c].signaled
  /\ \A c \in Clients :
       calls[c].pc \in {"arm", "parked"} /\ ~calls[c].signaled =>
         Beyond(c) \subseteq silent \/ unannounced > 0

(* No request, nothing to announce.                                        *)
LEMMA PollInitInv ==
  ASSUME EventWaitInit
  PROVE  PollInv
  <1>1. /\ NoCall \in Call /\ NoCall.pc = "idle"
        /\ calls = [c \in Clients |-> NoCall]
    BY DEF NoCall, Call, PCs, EventWaitInit
  <1>2. IsFiniteSet({}) /\ Cardinality({}) = 0
    BY FS_EmptySet
  <1>3. PlacesReturned
    BY <1>2, EventWaitAssumption DEF PlacesReturned, EventWaitInit
  <1> HIDE DEF NoCall
  <1> QED BY <1>1, <1>2, <1>3 DEF PollInv, EventWaitInit

(* A page that leaves the cursor where it is means that nothing is left.   *)
LEMMA EmptyRead ==
  ASSUME EventInv, NEW c \in Clients, NEW limit \in EventLimits, Events(c, limit), Empty(c)
  PROVE  Beyond(c)' = {}
  <1>1. /\ log.revision \in Nat /\ log.floor \in 0..log.revision
        /\ log.rows \subseteq 1..log.revision /\ cursor \in [Clients -> Nat]
    BY DEF EventInv, Sound, Log
  <1>2. log' = log /\ ~ (cursor[c] < log.floor) /\ cursor'[c] = cursor[c]
    BY <1>1 DEF Events, Empty
  <1>3. PICK batch \in Pages(cursor[c], limit) :
          cursor' = [cursor EXCEPT ![c] = NextRevision(cursor[c], batch)]
    BY <1>2 DEF Events
  <1>4. /\ batch \subseteq Beyond(c)
        /\ Cardinality(batch) = limit \/ batch = Beyond(c)
    BY <1>3 DEF Pages, Beyond
  <1>5. batch = {}
    <2> SUFFICES ASSUME batch # {} PROVE FALSE
      OBVIOUS
    <2>1. batch \subseteq 0..log.revision
      BY <1>1, <1>4 DEF Beyond
    <2>2. \E x \in batch : \A y \in batch : y <= x
      BY <1>1, <2>1, LastExists
    <2>3. NextRevision(cursor[c], batch) \in batch
      BY <2>2 DEF NextRevision
    <2>4. cursor[c] \in batch
      BY <1>1, <1>2, <1>3, <2>3
    <2> QED BY <1>1, <1>4, <2>4 DEF Beyond
  <1>6. limit \in Nat \ {0} /\ Cardinality({}) = 0
    BY EventAssumption, FS_EmptySet
  <1>7. Beyond(c) = {}
    BY <1>4, <1>5, <1>6
  <1> QED BY <1>2, <1>7 DEF Beyond

(* A read moves the cursor of its client only.                             *)
LEMMA ReadMoves ==
  ASSUME EventInv, NEW c \in Clients, NEW limit, Events(c, limit)
  PROVE  log' = log /\ \A d \in Clients \ {c} : Beyond(d)' = Beyond(d)
  <1>1. log' = log /\ \A d \in Clients \ {c} : cursor'[d] = cursor[d]
    BY DEF Events, EventInv
  <1> QED BY <1>1 DEF Beyond

(* What a step of one request has to show.                                 *)
LEMMA CallStep ==
  ASSUME PollInv, NEW c \in Clients, NEW row \in Call,
         calls' = [calls EXCEPT ![c] = row],
         UNCHANGED <<current, unannounced, silent>>,
         \A d \in Clients \ {c} : Beyond(d)' = Beyond(d),
         \/ subscribed' = subscribed \ {c}
         \/ subscribed' = subscribed /\ row.pc \in {"authority", "read", "arm", "parked"}
         \/ /\ subscribed' = subscribed \cup {c} /\ row.pc \in {"authority", "read", "arm", "parked"}
            /\ Cardinality(subscribed) < MaxScopeEventWaiters,
         row.pc \in {"authority", "read", "arm", "parked"} => c \in subscribed' \/ row.signaled,
         row.pc \in {"arm", "parked"} /\ ~row.signaled =>
           Beyond(c)' \subseteq silent \/ unannounced > 0
  PROVE  PollInv'
  <1>1. /\ calls'[c] = row /\ \A d \in Clients \ {c} : calls'[d] = calls[d]
        /\ calls' \in [Clients -> Call]
    BY DEF PollInv
  <1>2. /\ subscribed' \subseteq subscribed \cup {c} /\ subscribed \ {c} \subseteq subscribed'
        /\ c \in subscribed' => row.pc \in {"authority", "read", "arm", "parked"} \/ c \in subscribed
        /\ subscribed' \subseteq Clients
    BY DEF PollInv
  <1>3. /\ IsFiniteSet(subscribed') /\ Cardinality(subscribed') <= MaxScopeEventWaiters
    <2>1. /\ IsFiniteSet(subscribed) /\ Cardinality(subscribed) \in Nat
          /\ Cardinality(subscribed) <= MaxScopeEventWaiters
      BY FS_CardinalityType DEF PollInv, PlacesReturned
    <2>2. CASE subscribed' \subseteq subscribed
      <3>1. /\ IsFiniteSet(subscribed') /\ Cardinality(subscribed') <= Cardinality(subscribed)
            /\ Cardinality(subscribed') \in Nat
        BY <2>1, <2>2, FS_Subset, FS_CardinalityType
      <3> QED BY <2>1, <3>1, EventWaitAssumption
    <2>3. CASE /\ subscribed' = subscribed \cup {c} /\ c \notin subscribed
               /\ Cardinality(subscribed) < MaxScopeEventWaiters
      <3>1. /\ IsFiniteSet(subscribed') /\ Cardinality(subscribed') = Cardinality(subscribed) + 1
        BY <2>1, <2>3, FS_AddElement
      <3> QED BY <2>1, <2>3, <3>1, EventWaitAssumption
    <2> QED BY <2>2, <2>3
  <1>4. PlacesReturned'
    <2>1. ASSUME NEW d \in subscribed'
          PROVE  d \in Clients /\ calls'[d].pc \in {"authority", "read", "arm", "parked"}
      BY <1>1, <1>2 DEF PollInv, PlacesReturned
    <2> QED BY <1>3, <2>1 DEF PlacesReturned
  <1>5. \A d \in Clients :
          calls'[d].pc \in {"authority", "read", "arm", "parked"} => d \in subscribed' \/ calls'[d].signaled
    BY <1>1, <1>2 DEF PollInv
  <1>6. \A d \in Clients :
          calls'[d].pc \in {"arm", "parked"} /\ ~calls'[d].signaled =>
            Beyond(d)' \subseteq silent' \/ unannounced' > 0
    BY <1>1 DEF PollInv
  <1> QED BY <1>1, <1>2, <1>3, <1>4, <1>5, <1>6 DEF PollInv

(* And a step of an operation, which moves no request.                     *)
LEMMA OperationStep ==
  ASSUME PollInv, UNCHANGED <<calls, subscribed>>, current' \in Nat, unannounced' \in Nat,
         \/ unannounced' > 0
         \/ /\ unannounced' = unannounced /\ silent \subseteq silent'
            /\ \A d \in Clients : Beyond(d)' \subseteq Beyond(d) \cup silent'
  PROVE  PollInv'
  <1>1. \A d \in Clients :
          calls'[d].pc \in {"arm", "parked"} /\ ~calls'[d].signaled =>
            Beyond(d)' \subseteq silent' \/ unannounced' > 0
    BY DEF PollInv
  <1> QED BY <1>1 DEF PollInv, PlacesReturned

(* A batch adds its own revisions only.                                    *)
LEMMA AppendedRows ==
  ASSUME Sound(log), NEW n \in Nat, NEW at
  PROVE  appendEvents(log, n, at).rows \subseteq
           log.rows \cup (log.revision + 1)..(log.revision + n)
  <1> DEFINE i == Inserted(log, n, at)
  <1>1. /\ i.rows = log.rows \cup (log.revision + 1)..(log.revision + n)
        /\ \A f : DeleteUpTo(i, f).rows = {r \in i.rows : r > f \/ r = i.marker}
    BY DEF Sound, Log, Inserted, DeleteUpTo
  <1> HIDE DEF i
  <1>2. \A f : DeleteUpTo(i, f).rows \subseteq i.rows
    BY <1>1
  <1>3. appendEvents(log, n, at) = i \/ \E f : appendEvents(log, n, at) = DeleteUpTo(i, f)
    BY DEF appendEvents, i
  <1> QED BY <1>1, <1>2, <1>3

(* What an operation commits is announced, or recorded as silent.          *)
LEMMA OperationsKeep ==
  ASSUME EventInv, PollInv,
         \/ \E n \in BatchSizes, at \in Instants : Commit(n, at) \/ CommitSilently(n, at)
         \/ \E n \in {0} \cup BatchSizes, at, before \in Instants : CommitPrune(n, at, before)
         \/ RotateToken
  PROVE  PollInv'
  <1> DEFINE Goal == PollInv'
  <1>1. current \in Nat /\ unannounced \in Nat
    BY DEF PollInv
  <1>2. ASSUME UNCHANGED <<calls, subscribed>>, unannounced' = unannounced + 1, current' \in Nat
        PROVE  Goal
    BY <1>1, <1>2, OperationStep
  <1>3. ASSUME NEW n \in BatchSizes, NEW at \in Instants, Commit(n, at)
        PROVE  Goal
    BY <1>1, <1>2, <1>3 DEF Commit
  <1>4. ASSUME NEW n \in BatchSizes, NEW at \in Instants, CommitSilently(n, at)
        PROVE  Goal
    <2>1. /\ UNCHANGED <<calls, subscribed, current, unannounced, cursor>>
          /\ log' = appendEvents(log, n, at)
          /\ silent' = silent \cup (log.revision + 1)..(log.revision + n)
      BY <1>4 DEF CommitSilently, Record
    <2>2. Sound(log) /\ n \in Nat
      BY EventAssumption DEF EventInv
    <2>3. log'.rows \subseteq log.rows \cup silent'
      BY <2>1, <2>2, AppendedRows
    <2>4. \A d \in Clients : Beyond(d)' \subseteq Beyond(d) \cup silent'
      BY <2>1, <2>3 DEF Beyond
    <2> QED BY <1>1, <2>1, <2>4, OperationStep
  <1>5. ASSUME NEW n, NEW at, NEW before, CommitPrune(n, at, before)
        PROVE  Goal
    BY <1>1, <1>2, <1>5 DEF CommitPrune
  <1>6. ASSUME RotateToken
        PROVE  Goal
    BY <1>1, <1>2, <1>6 DEF RotateToken
  <1> HIDE DEF Goal
  <1>7. Goal
    BY <1>3, <1>4, <1>5, <1>6, Zenon
  <1> QED BY <1>7 DEF Goal

(* A notification wakes every request on the channel, and those that are   *)
(* not on it were woken before.                                            *)
LEMMA NotifyScopeKeeps ==
  ASSUME PollInv, notifyScope
  PROVE  PollInv'
  <1> DEFINE woken(c) == [calls[c] EXCEPT !.signaled = @ \/ c \in subscribed]
  <1>1. /\ unannounced \in Nat /\ unannounced > 0 /\ unannounced' = unannounced - 1
        /\ subscribed' = {} /\ current' = current
        /\ calls' = [c \in Clients |-> woken(c)]
    BY DEF notifyScope, PollInv
  <1>2. \A c \in Clients :
          /\ woken(c) \in Call /\ woken(c).pc = calls[c].pc
          /\ woken(c).signaled <=> calls[c].signaled \/ c \in subscribed
    BY DEF PollInv, Call
  <1> HIDE DEF woken
  <1>3. /\ calls' \in [Clients -> Call]
        /\ \A c \in Clients :
             /\ calls'[c].pc = calls[c].pc
             /\ calls'[c].signaled <=> calls[c].signaled \/ c \in subscribed
    BY <1>1, <1>2
  <1>4. \A c \in Clients : calls'[c].pc \in {"authority", "read", "arm", "parked"} => calls'[c].signaled
    BY <1>3 DEF PollInv
  <1>5. IsFiniteSet({}) /\ Cardinality({}) = 0
    BY FS_EmptySet
  <1>6. PlacesReturned'
    BY <1>1, <1>5, EventWaitAssumption DEF PlacesReturned
  <1> QED BY <1>1, <1>3, <1>4, <1>5, <1>6 DEF PollInv

(* The steps of a request.                                                 *)
LEMMA RequestKeeps ==
  ASSUME EventInv, PollInv, NEW c \in Clients,
         \/ StartPoll(c) \/ SubscribeScope(c) \/ scopeAuthority(c) \/ ArmPoll(c) \/ WakePoll(c)
         \/ CancelPoll(c) \/ Deadline(c)
  PROVE  PollInv'
  <1> DEFINE Goal == PollInv'
  <1>1. calls \in [Clients -> Call] /\ calls[c] \in Call /\ current \in Nat
    BY DEF PollInv
  <1>2. NoCall \in Call /\ NoCall.pc = "idle"
    BY DEF NoCall, Call, PCs
  <1>3. UNCHANGED eventVars => \A d \in Clients : Beyond(d)' = Beyond(d)
    BY DEF eventVars, Beyond
  <1>4. ASSUME UNCHANGED <<eventVars, current, unannounced, silent>>, EndPoll(c)
        PROVE  Goal
    <2>1. calls' = [calls EXCEPT ![c] = NoCall] /\ subscribed' = subscribed \ {c}
      BY <1>4 DEF EndPoll
    <2> HIDE DEF NoCall
    <2> QED BY <1>2, <1>3, <1>4, <2>1, CallStep
  <1>5. ASSUME StartPoll(c)
        PROVE  Goal
    <2> DEFINE row == [NoCall EXCEPT !.pc = "subscribe", !.token = current]
    <2>1. /\ calls[c].pc = "idle" /\ calls' = [calls EXCEPT ![c] = row]
          /\ UNCHANGED <<eventVars, subscribed, current, unannounced, silent>>
      BY <1>5 DEF StartPoll, Waiting
    <2>2. row \in Call /\ row.pc = "subscribe"
      BY <1>1 DEF NoCall, Call, PCs
    <2>3. subscribed' = subscribed \ {c}
      BY <2>1 DEF PollInv, PlacesReturned
    <2> HIDE DEF row
    <2> QED BY <1>3, <2>1, <2>2, <2>3, CallStep
  <1>6. ASSUME SubscribeScope(c)
        PROVE  Goal
    <2>1. CASE Cardinality(subscribed) >= MaxScopeEventWaiters
      BY <1>4, <1>6, <2>1 DEF SubscribeScope
    <2>2. CASE ~ (Cardinality(subscribed) >= MaxScopeEventWaiters)
      <3> DEFINE row == [calls[c] EXCEPT !.pc = "authority"]
      <3>1. /\ calls' = [calls EXCEPT ![c] = row] /\ subscribed' = subscribed \cup {c}
            /\ UNCHANGED <<eventVars, current, unannounced, silent>>
        BY <1>1, <1>6, <2>2 DEF SubscribeScope, Goto
      <3>2. row \in Call /\ row.pc = "authority"
        BY <1>1 DEF Call, PCs
      <3>3. Cardinality(subscribed) < MaxScopeEventWaiters
        BY <2>2, FS_CardinalityType, EventWaitAssumption DEF PollInv
      <3> HIDE DEF row
      <3> QED BY <1>3, <3>1, <3>2, <3>3, CallStep
    <2> QED BY <2>1, <2>2
  <1>7. ASSUME scopeAuthority(c)
        PROVE  Goal
    <2>1. CASE calls[c].token # current
      BY <1>4, <1>7, <2>1 DEF scopeAuthority
    <2>2. CASE calls[c].token = current
      <3> DEFINE row == [calls[c] EXCEPT !.pc = "read"]
      <3>1. /\ calls[c].pc = "authority" /\ calls' = [calls EXCEPT ![c] = row]
            /\ UNCHANGED <<eventVars, subscribed, current, unannounced, silent>>
        BY <1>1, <1>7, <2>2 DEF scopeAuthority, Goto
      <3>2. row \in Call /\ row.pc = "read" /\ row.signaled = calls[c].signaled
        BY <1>1 DEF Call, PCs
      <3>3. c \in subscribed' \/ row.signaled
        BY <3>1, <3>2 DEF PollInv
      <3> HIDE DEF row
      <3> QED BY <1>3, <3>1, <3>2, <3>3, CallStep
    <2> QED BY <2>1, <2>2
  <1>8. ASSUME ArmPoll(c)
        PROVE  Goal
    <2> DEFINE row == [calls[c] EXCEPT !.pc = "parked"]
    <2>1. /\ calls[c].pc = "arm" /\ calls' = [calls EXCEPT ![c] = row]
          /\ UNCHANGED <<eventVars, subscribed, current, unannounced, silent>>
      BY <1>1, <1>8 DEF ArmPoll, Goto
    <2>2. row \in Call /\ row.pc = "parked" /\ row.signaled = calls[c].signaled
      BY <1>1 DEF Call, PCs
    <2>3. /\ c \in subscribed' \/ row.signaled
          /\ row.signaled \/ Beyond(c) \subseteq silent \/ unannounced > 0
      BY <2>1, <2>2 DEF PollInv
    <2> HIDE DEF row
    <2> QED BY <1>3, <2>1, <2>2, <2>3, CallStep
  <1>9. ASSUME WakePoll(c)
        PROVE  Goal
    <2> DEFINE row == [calls[c] EXCEPT !.pc = "subscribe", !.signaled = FALSE]
    <2>1. /\ calls' = [calls EXCEPT ![c] = row] /\ subscribed' = subscribed \ {c}
          /\ UNCHANGED <<eventVars, current, unannounced, silent>>
      BY <1>1, <1>9 DEF WakePoll
    <2>2. row \in Call /\ row.pc = "subscribe"
      BY <1>1 DEF Call, PCs
    <2> HIDE DEF row
    <2> QED BY <1>3, <2>1, <2>2, CallStep
  <1>10. ASSUME CancelPoll(c)
         PROVE  Goal
    BY <1>4, <1>10 DEF CancelPoll
  <1>11. ASSUME Deadline(c)
         PROVE  Goal
    <2> DEFINE row == [calls[c] EXCEPT !.late = TRUE]
    <2>1. /\ calls' = [calls EXCEPT ![c] = row]
          /\ UNCHANGED <<eventVars, subscribed, current, unannounced, silent>>
      BY <1>1, <1>11 DEF Deadline
    <2>2. row \in Call /\ row.pc = calls[c].pc /\ row.signaled = calls[c].signaled
      BY <1>1 DEF Call
    <2>3. /\ row.pc \in {"authority", "read", "arm", "parked"} => c \in subscribed' \/ row.signaled
          /\ row.pc \in {"arm", "parked"} /\ ~row.signaled =>
               Beyond(c) \subseteq silent \/ unannounced > 0
      BY <2>1, <2>2 DEF PollInv
    <2>4. \/ subscribed' = subscribed \ {c}
          \/ subscribed' = subscribed /\ row.pc \in {"authority", "read", "arm", "parked"}
      BY <2>1, <2>2 DEF PollInv, PlacesReturned
    <2> HIDE DEF row
    <2> QED BY <1>3, <2>1, <2>2, <2>3, <2>4, CallStep
  <1> HIDE DEF Goal
  <1>12. Goal
    BY <1>5, <1>6, <1>7, <1>8, <1>9, <1>10, <1>11
  <1> QED BY <1>12 DEF Goal

(* The reads: one that found nothing leaves the client up to date.         *)
LEMMA ReadsKeep ==
  ASSUME EventInv, PollInv, NEW c \in Clients, NEW limit \in EventLimits,
         ReadEvents(c, limit) \/ ReadNow(c, limit)
  PROVE  PollInv'
  <1> DEFINE Goal == PollInv'
  <1>1. calls \in [Clients -> Call] /\ calls[c] \in Call
    BY DEF PollInv
  <1>2. NoCall \in Call /\ NoCall.pc = "idle"
    BY DEF NoCall, Call, PCs
  <1>3. ASSUME Events(c, limit)
        PROVE  \A d \in Clients \ {c} : Beyond(d)' = Beyond(d)
    BY <1>3, ReadMoves
  <1>4. ASSUME EndPoll(c), UNCHANGED <<current, unannounced, silent>>,
               \A d \in Clients \ {c} : Beyond(d)' = Beyond(d)
        PROVE  Goal
    <2>1. calls' = [calls EXCEPT ![c] = NoCall] /\ subscribed' = subscribed \ {c}
      BY <1>4 DEF EndPoll
    <2> HIDE DEF NoCall
    <2> QED BY <1>2, <1>4, <2>1, CallStep
  <1>5. ASSUME ReadEvents(c, limit)
        PROVE  Goal
    <2>1. UNCHANGED <<current, unannounced, silent>> /\ calls[c].pc = "read"
      BY <1>5 DEF ReadEvents
    <2>2. CASE EndPoll(c) /\ UNCHANGED eventVars
      <3>1. \A d \in Clients \ {c} : Beyond(d)' = Beyond(d)
        BY <2>2 DEF eventVars, Beyond
      <3> QED BY <1>4, <2>1, <2>2, <3>1
    <2>3. CASE EndPoll(c) /\ Events(c, limit)
      BY <1>3, <1>4, <2>1, <2>3
    <2>4. CASE Events(c, limit) /\ Empty(c) /\ Goto(c, "arm") /\ UNCHANGED subscribed
      <3> DEFINE row == [calls[c] EXCEPT !.pc = "arm"]
      <3>1. calls' = [calls EXCEPT ![c] = row] /\ subscribed' = subscribed
        BY <1>1, <2>4 DEF Goto
      <3>2. row \in Call /\ row.pc = "arm" /\ row.signaled = calls[c].signaled
        BY <1>1 DEF Call, PCs
      <3>3. c \in subscribed' \/ row.signaled
        BY <2>1, <3>1, <3>2 DEF PollInv
      <3>4. Beyond(c)' = {}
        BY <2>4, EmptyRead
      <3> HIDE DEF row
      <3> QED BY <1>3, <2>1, <2>4, <3>1, <3>2, <3>3, <3>4, CallStep
    <2> QED BY <1>5, <2>2, <2>3, <2>4, Zenon DEF ReadEvents
  <1>6. ASSUME ReadNow(c, limit)
        PROVE  Goal
    <2>1. Events(c, limit) /\ UNCHANGED pollVars /\ calls[c].pc = "idle"
      BY <1>6 DEF ReadNow, Waiting
    <2>2. \A d \in Clients \ {c} : Beyond(d)' = Beyond(d)
      BY <1>3, <2>1
    <2>3. UNCHANGED <<calls, subscribed, current, unannounced, silent>>
      BY <2>1 DEF pollVars
    <2>4. calls' = [calls EXCEPT ![c] = calls[c]] /\ subscribed' = subscribed \ {c}
      BY <1>1, <2>1, <2>3 DEF PollInv, PlacesReturned
    <2> QED BY <1>1, <2>1, <2>2, <2>3, <2>4, CallStep
  <1> HIDE DEF Goal
  <1>7. Goal
    BY <1>5, <1>6
  <1> QED BY <1>7 DEF Goal

(* Every step of the long poll.                                            *)
LEMMA PollNextInv ==
  ASSUME EventInv, PollInv, [EventWaitNext]_<<eventVars, pollVars>>
  PROVE  PollInv'
  <1>1. CASE \/ \E n \in BatchSizes, at \in Instants : Commit(n, at) \/ CommitSilently(n, at)
             \/ \E n \in {0} \cup BatchSizes, at, before \in Instants : CommitPrune(n, at, before)
             \/ RotateToken
    BY <1>1, OperationsKeep
  <1>2. CASE notifyScope
    BY <1>2, NotifyScopeKeeps
  <1>3. CASE \E c \in Clients :
               \/ StartPoll(c) \/ SubscribeScope(c) \/ scopeAuthority(c) \/ ArmPoll(c) \/ WakePoll(c)
               \/ CancelPoll(c) \/ Deadline(c)
    BY <1>3, RequestKeeps
  <1>4. CASE \E c \in Clients, limit \in EventLimits : ReadEvents(c, limit) \/ ReadNow(c, limit)
    BY <1>4, ReadsKeep
  <1>5. CASE UNCHANGED <<eventVars, pollVars>>
    BY <1>5 DEF eventVars, pollVars, PollInv, PlacesReturned, Beyond
  <1> QED BY <1>1, <1>2, <1>3, <1>4, <1>5, Zenon DEF EventWaitNext, Step

(* The log and the calls together.                                         *)
LEMMA PollInvHolds == EventWaitSpec => [](EventInv /\ PollInv)
  <1>1. EventWaitInit => EventInv /\ PollInv
    BY EventInitInv, PollInitInv DEF EventWaitInit
  <1>2. EventInv /\ PollInv /\ [EventWaitNext]_<<eventVars, pollVars>> => (EventInv /\ PollInv)'
    BY WaitStepsLog, EventNextInv, PollNextInv
  <1> QED BY <1>1, <1>2, PTL DEF EventWaitSpec

(* A parked request that no notification is on its way to has missed only  *)
(* what was committed silently, whatever lay between its read and its      *)
(* select (Runtime.Events).                                                *)
THEOREM WaitersMissNothing == EventWaitSpec => []NothingMissed
  <1>1. PollInv => NothingMissed
    BY DEF PollInv, NothingMissed, Beyond
  <1> QED BY <1>1, PollInvHolds, PTL

(* No way of ending a request keeps its place on the channel, and their    *)
(* number stays within the limit (subscribeLimited).                       *)
THEOREM PlacesAreReturned == EventWaitSpec => []PlacesReturned
  <1>1. PollInv => PlacesReturned
    BY DEF PollInv
  <1> QED BY <1>1, PollInvHolds, PTL

(* After a rotation no call in flight returns events to the old token: the *)
(* transaction that reads checks it again (Runtime.Events, beginTx).       *)
THEOREM OldTokensReadNothing == EventWaitSpec => OldTokenReadsNothing
  <1>1. ASSUME EventInv, EventWaitNext, NEW c \in Clients, Waiting(c), known'[c] # known[c]
        PROVE  calls[c].token = current
    <2> DEFINE Goal == calls[c].token = current
    <2>1. known \in [Clients -> SUBSET Nat]
      BY <1>1 DEF EventInv
    <2>2. ASSUME NEW d \in Clients, NEW limit \in EventLimits, Events(d, limit)
          PROVE  d = c
      BY <1>1, <2>1, <2>2 DEF Events
    <2>3. ASSUME NEW d \in Clients, NEW limit \in EventLimits, ReadEvents(d, limit)
          PROVE  Goal
      <3>1. \/ calls[d].token = current /\ Events(d, limit)
            \/ UNCHANGED eventVars
        BY <2>3 DEF ReadEvents
      <3>2. ~ UNCHANGED eventVars
        BY <1>1 DEF eventVars
      <3> QED BY <2>2, <3>1, <3>2
    <2>4. ASSUME NEW d \in Clients, NEW limit \in EventLimits, ReadNow(d, limit)
          PROVE  Goal
      BY <1>1, <2>2, <2>4 DEF ReadNow
    <2>5. known' # known
      BY <1>1
    <2>6. ~ \E n \in BatchSizes, at \in Instants : Commit(n, at) \/ CommitSilently(n, at)
      BY <2>5 DEF Commit, CommitSilently, Record
    <2>7. ~ \E n \in {0} \cup BatchSizes, at, before \in Instants : CommitPrune(n, at, before)
      BY <2>5 DEF CommitPrune, PruneScope
    <2>8. ~ RotateToken /\ ~ notifyScope
      BY <2>5 DEF RotateToken, notifyScope, eventVars
    <2>9. ~ \E d \in Clients : \/ StartPoll(d) \/ SubscribeScope(d) \/ scopeAuthority(d)
                              \/ ArmPoll(d) \/ WakePoll(d) \/ CancelPoll(d) \/ Deadline(d)
      BY <2>5 DEF StartPoll, SubscribeScope, scopeAuthority, ArmPoll, WakePoll, CancelPoll, Deadline, eventVars
    <2> HIDE DEF Goal
    <2>10. Goal
      BY <1>1, <2>3, <2>4, <2>6, <2>7, <2>8, <2>9, Zenon DEF EventWaitNext, Step
    <2> QED BY <2>10 DEF Goal
  <1>2. EventInv /\ [EventWaitNext]_<<eventVars, pollVars>> =>
          [\A c \in Clients : Waiting(c) /\ known'[c] # known[c] => calls[c].token = current]_<<eventVars, pollVars>>
    BY <1>1
  <1> QED BY <1>2, PollInvHolds, PTL DEF EventWaitSpec, OldTokenReadsNothing

-----------------------------------------------------------------------------
(* Output streams.  A stream as every publication leaves it: between floor *)
(* and sequence every number has one value.                                *)
StreamSound(x) ==
  /\ x.retention # 0
  /\ x.floor <= x.sequence /\ x.sequence - x.floor <= x.retention
  /\ \A v \in x.values : v.sequence \in (x.floor + 1)..x.sequence
  /\ \A n \in (x.floor + 1)..x.sequence : \E v \in x.values : v.sequence = n
  /\ \A u, v \in x.values : u.sequence = v.sequence => u = v

(* Who publishes is registered, and the lists are finite: the owner can    *)
(* only name registered agents, of which there are finitely many.          *)
KnownAgents == {a \in Agents : Registered(a)}

StreamInv ==
  /\ streams \in [StreamIds -> Stream]
  /\ IsFiniteSet(KnownAgents)
  /\ IsFiniteSet(Streams) /\ Cardinality(Streams) <= MaxOutputStreams
  /\ \A s \in Streams :
       /\ StreamSound(streams[s])
       /\ streams[s].publishers \subseteq KnownAgents
       /\ Cardinality(streams[s].publishers) <= MaxOutputPublishers
       /\ \A v \in streams[s].values : v.producer \in Agents => v.producer \in KnownAgents

(* What a follower knows was stored, and none knows more than its stream   *)
(* has numbered.                                                           *)
FollowerInv ==
  /\ principals \in [PrincipalIds -> Credential]
  /\ followers \in [PrincipalIds -> [cursor : Nat, known : SUBSET Value]]
  /\ \A c \in PrincipalIds :
       /\ principals[c].row = "absent" => followers[c].known = {}
       /\ c \in OutputPrincipals =>
            /\ principals[c].stream \in Streams
            /\ \A v \in followers[c].known : v.sequence <= streams[principals[c].stream].sequence
  /\ NoValueSkipped

(* The row of the current window counts what was accepted in it, and no    *)
(* later window has been used.                                             *)
Counts(p, w) == {u \in usage : u.producer = p /\ u.kind = "publish" /\ u.window = w}

UsageCounts ==
  \A p \in Producers, w \in Windows : w >= Window =>
    /\ Counts(p, w) = {} => accepted[p][w] = 0
    /\ \A u \in Counts(p, w) : u.count = accepted[p][w]

QuotaInv ==
  /\ usage \subseteq [producer : Producers, kind : {"publish", "read"}, window : Nat, count : Nat]
  /\ accepted \in [Producers -> [Windows -> Nat]]
  /\ UsageCounts
  /\ RateHeld

(* What the induction carries.                                             *)
OutputInv ==
  /\ RegistryTypeOK
  /\ RotationRevokes
  /\ StreamInv
  /\ FollowerInv
  /\ QuotaInv

(* As many values as numbers between floor and sequence.                   *)
LEMMA ValuesCounted ==
  ASSUME NEW x \in Stream, StreamSound(x)
  PROVE  /\ {v.sequence : v \in x.values} = (x.floor + 1)..x.sequence
         /\ IsFiniteSet(x.values)
         /\ Cardinality(x.values) = x.sequence - x.floor
  <1> DEFINE f == [v \in x.values |-> v.sequence]
             T == (x.floor + 1)..x.sequence
  <1>1. x.floor \in Nat /\ x.sequence \in Nat /\ x.floor <= x.sequence
    BY DEF Stream, StreamSound
  <1>2. /\ \A v \in x.values : v.sequence \in T
        /\ \A n \in T : \E v \in x.values : v.sequence = n
        /\ \A u, v \in x.values : u.sequence = v.sequence => u = v
    BY DEF StreamSound
  <1>3. IsFiniteSet(T) /\ Cardinality(T) = x.sequence - x.floor
    <2> DEFINE a == x.floor + 1
               b == x.sequence
    <2>1. a \in Int /\ b \in Int /\ a <= b + 1 /\ b - a + 1 = x.sequence - x.floor
      BY <1>1
    <2>2. T = a..b
      OBVIOUS
    <2> HIDE DEF a, b, T
    <2>3. IsFiniteSet(a..b) /\ Cardinality(a..b) = IF a > b THEN 0 ELSE b - a + 1
      BY <2>1, FS_Interval
    <2> QED BY <2>1, <2>2, <2>3
  <1> HIDE DEF T
  <1>4. f \in [x.values -> T] /\ \A v \in x.values : f[v] = v.sequence
    BY <1>2
  <1> HIDE DEF f
  <1>5. f \in Injection(x.values, T)
    BY <1>2, <1>4 DEF Injection, IsInjective
  <1>6. f \in Surjection(x.values, T)
    BY <1>2, <1>4 DEF Surjection
  <1>7. IsFiniteSet(x.values) /\ Cardinality(x.values) = Cardinality(T)
    BY <1>3, <1>5, <1>6, FS_Injection
  <1>8. {v.sequence : v \in x.values} = T
    BY <1>2
  <1> QED BY <1>3, <1>7, <1>8 DEF T

(* A value takes the next number; what the retention no longer covers is   *)
(* exactly what lies at or below the raised floor.                         *)
LEMMA PublishedSound ==
  ASSUME NEW x \in Stream, StreamSound(x), NEW producer \in Producers
  PROVE  LET y == published(x, producer)
             new == [sequence |-> x.sequence + 1, producer |-> producer] IN
         /\ y \in Stream /\ StreamSound(y)
         /\ y.row = x.row /\ y.publishers = x.publishers /\ y.retention = x.retention
         /\ y.sequence = x.sequence + 1
         /\ y.values \subseteq x.values \cup {new}
  <1> DEFINE y == published(x, producer)
             new == [sequence |-> x.sequence + 1, producer |-> producer]
             all == x.values \cup {new}
             sequence == x.sequence + 1
             floor == sequence - x.retention
  <1>1. /\ x.floor \in Nat /\ x.sequence \in Nat /\ x.retention \in Nat \ {0}
        /\ x.floor <= x.sequence /\ x.sequence - x.floor <= x.retention
        /\ x.values \subseteq Value
    BY DEF Stream, StreamSound
  <1>2. new \in Value /\ new.sequence = x.sequence + 1
    BY <1>1 DEF Value
  <1>3. /\ y.row = x.row /\ y.publishers = x.publishers /\ y.retention = x.retention
        /\ y.sequence = x.sequence + 1
        /\ y.floor = IF floor > x.floor THEN floor ELSE x.floor
        /\ y.values = IF floor > x.floor THEN {v \in all : v.sequence > floor} ELSE all
        /\ y = [row |-> y.row, retention |-> y.retention, sequence |-> y.sequence,
                floor |-> y.floor, publishers |-> y.publishers, values |-> y.values]
    <2> DEFINE cut == {v \in all : v.sequence > floor}
               raised == [x EXCEPT !.sequence = x.sequence + 1, !.floor = floor, !.values = cut]
               grown == [x EXCEPT !.sequence = x.sequence + 1, !.values = all]
    <2>1. y = IF floor > x.floor THEN raised ELSE grown
      BY DEF published
    <2> HIDE DEF y, all, cut, floor
    <2>2. CASE floor > x.floor
      BY <2>1, <2>2 DEF Stream, cut
    <2>3. CASE ~ (floor > x.floor)
      BY <2>1, <2>3 DEF Stream
    <2> QED BY <2>2, <2>3
  <1> HIDE DEF y, new
  <1>5. y.floor \in Nat /\ y.floor <= y.sequence /\ y.sequence - y.floor <= y.retention
    BY <1>1, <1>3
  <1>6. y.values \subseteq all /\ \A v \in all : v \in y.values <=> v.sequence > y.floor
    <2>1. \A v \in all : v.sequence > x.floor
      BY <1>1, <1>2 DEF StreamSound
    <2> QED BY <1>3, <2>1
  <1>7. y.values \subseteq Value
    BY <1>1, <1>2, <1>6
  <1>8. y \in Stream
    <2>1. /\ y.row \in Rows /\ y.publishers \in SUBSET Agents /\ y.retention \in Nat
          /\ y.sequence \in Nat
      BY <1>1, <1>3 DEF Stream
    <2> QED BY <1>3, <1>5, <1>7, <2>1 DEF Stream
  <1>9. /\ \A v \in all : v.sequence \in Nat /\ v.sequence <= x.sequence + 1
        /\ \A u, v \in all : u.sequence = v.sequence => u = v
        /\ \A n \in (x.floor + 1)..(x.sequence + 1) : \E v \in all : v.sequence = n
    <2>1. \A v \in x.values : v.sequence \in (x.floor + 1)..x.sequence
      BY DEF StreamSound
    <2>2. \A n \in (x.floor + 1)..(x.sequence + 1) : n = x.sequence + 1 \/ n \in (x.floor + 1)..x.sequence
      BY <1>1
    <2> QED BY <1>1, <1>2, <2>1, <2>2 DEF StreamSound
  <1> HIDE DEF all
  <1>10. StreamSound(y)
    <2>1. \A v \in y.values : v.sequence \in (y.floor + 1)..y.sequence
      BY <1>1, <1>3, <1>5, <1>6, <1>9
    <2>2. ASSUME NEW n \in (y.floor + 1)..y.sequence
          PROVE  \E v \in y.values : v.sequence = n
      <3>1. n \in (x.floor + 1)..(x.sequence + 1) /\ n > y.floor
        BY <1>1, <1>3, <1>5, <2>2
      <3>2. PICK v \in all : v.sequence = n
        BY <1>9, <3>1
      <3> QED BY <1>6, <3>1, <3>2
    <2>3. \A u, v \in y.values : u.sequence = v.sequence => u = v
      BY <1>6, <1>9
    <2> QED BY <1>1, <1>3, <1>5, <2>1, <2>2, <2>3 DEF StreamSound
  <1>11. y.values \subseteq x.values \cup {new}
    BY <1>6 DEF all
  <1> QED BY <1>3, <1>8, <1>10, <1>11 DEF y, new

(* The window of a later instant is not earlier.                           *)
LEMMA WindowsGrow ==
  ASSUME NEW x \in Nat
  PROVE  x \div Minute \in Nat /\ x \div Minute <= (x + 1) \div Minute
  <1> DEFINE q == x \div Minute
             r == (x + 1) \div Minute
  <1>1. Minute \in Nat /\ Minute > 0
    BY OutputAssumption
  <1>2. q \in Nat /\ r \in Nat
    BY <1>1
  <1>3. /\ x = Minute * q + (x % Minute) /\ x % Minute \in 0..(Minute - 1)
        /\ x + 1 = Minute * r + ((x + 1) % Minute) /\ (x + 1) % Minute \in 0..(Minute - 1)
    BY <1>1
  <1> HIDE DEF q, r
  <1>4. Minute * q < Minute * r + Minute
    <2>1. Minute * q \in Nat /\ Minute * r \in Nat
      BY <1>1, <1>2
    <2> QED BY <1>1, <1>3, <2>1
  <1>5. q < r + 1
    <2> SUFFICES ASSUME ~ (q < r + 1) PROVE FALSE
      OBVIOUS
    <2>1. PICK d \in Nat : q = r + 1 + d
      <3>1. q - r - 1 \in Nat /\ q = r + 1 + (q - r - 1)
        BY <1>2
      <3> QED BY <3>1
    <2>2. Minute * q = Minute * r + Minute + Minute * d
      BY <1>1, <1>2, <2>1
    <2>3. Minute * d \in Nat /\ Minute * r \in Nat
      BY <1>1, <1>2
    <2> QED BY <1>1, <1>4, <2>2, <2>3
  <1>6. q <= r
    BY <1>2, <1>5
  <1> QED BY <1>2, <1>6 DEF q, r

(* The scope before its first stream.                                      *)
LEMMA OutputInitInv ==
  ASSUME RegistryInit, OutputInit
  PROVE  OutputInv
  <1> USE RegistryAssumption, OutputAssumption
  <1>1. RegistryTypeOK /\ RotationRevokes
    BY DEF RegistryInit, RegistryTypeOK, RotationRevokes, NoAgent, Agent, Lifecycles
  <1>2. StreamInv
    <2>1. KnownAgents = {} /\ Streams = {}
      BY DEF RegistryInit, OutputInit, KnownAgents, Registered, Streams, NoAgent, NoStream
    <2>2. streams \in [StreamIds -> Stream]
      BY DEF OutputInit, NoStream, Stream, Rows
    <2> QED BY <2>1, <2>2, FS_EmptySet DEF StreamInv
  <1>3. FollowerInv
    <2>1. OutputPrincipals = {}
      BY DEF OutputInit, OutputPrincipals, NoPrincipal
    <2>2. principals \in [PrincipalIds -> Credential]
      BY DEF OutputInit, NoPrincipal, Credential, Rows
    <2>3. /\ followers \in [PrincipalIds -> [cursor : Nat, known : SUBSET Value]]
          /\ \A c \in PrincipalIds : followers[c].known = {}
      BY DEF OutputInit, NewFollower
    <2> QED BY <2>1, <2>2, <2>3 DEF FollowerInv, NoValueSkipped
  <1>4. QuotaInv
    BY DEF OutputInit, QuotaInv, UsageCounts, Counts, RateHeld
  <1> QED BY <1>1, <1>2, <1>3, <1>4 DEF OutputInv

(* What an operation leaves alone.  Time passing moves the window on, and  *)
(* what was counted in later windows is nothing yet.                       *)
LEMMA QuotaKept ==
  ASSUME QuotaInv, now \in Nat, now' = now \/ now' = now + 1, UNCHANGED <<usage, accepted>>
  PROVE  QuotaInv'
  <1>1. Window \in Nat /\ Window' \in Nat /\ Window <= Window'
    BY WindowsGrow, OutputAssumption DEF Window
  <1>2. \A p \in Producers, w \in Windows : Counts(p, w)' = Counts(p, w)
    BY DEF Counts
  <1>3. \A w \in Windows : w \in Int
    BY DEF Windows
  <1>4. UsageCounts'
    BY <1>1, <1>2, <1>3 DEF QuotaInv, UsageCounts
  <1> QED BY <1>4 DEF QuotaInv, RateHeld

(* Streams that do not change,                                             *)
LEMMA StreamsKept ==
  ASSUME StreamInv, streams' = streams, KnownAgents \subseteq KnownAgents', IsFiniteSet(KnownAgents')
  PROVE  StreamInv'
  BY DEF StreamInv, Streams

(* and followers that do not.                                              *)
LEMMA FollowersKept ==
  ASSUME FollowerInv, UNCHANGED <<principals, followers, streams>>
  PROVE  FollowerInv'
  BY DEF FollowerInv, NoValueSkipped, OutputPrincipals, Streams

(* The agents table under the steps of the streams: types hold, nobody is  *)
(* forgotten, and at most one agent joins at a time.                       *)
LEMMA RowsGrow ==
  ASSUME RegistryTypeOK, RotationRevokes, IsFiniteSet(KnownAgents),
         \/ Tick
         \/ \E p \in KnownPrincipals : RetireRow(p)
         \/ \E a \in Agents, leaseMS \in LeaseTimes : RegisterRow(scopeToken, a, leaseMS, {}, FALSE)
         \/ RotateRows
  PROVE  /\ RegistryTypeOK' /\ RotationRevokes'
         /\ KnownAgents \subseteq KnownAgents' /\ IsFiniteSet(KnownAgents')
         /\ now' = now \/ now' = now + 1
  <1> DEFINE Goal == /\ RegistryTypeOK' /\ RotationRevokes'
                     /\ KnownAgents \subseteq KnownAgents' /\ IsFiniteSet(KnownAgents')
                     /\ now' = now \/ now' = now + 1
  <1>1. ASSUME \/ Tick
               \/ \E p \in KnownPrincipals : RetireRow(p)
               \/ RotateRows
        PROVE  Goal
    <2>1. RegistryTypeOK' /\ RotationRevokes'
      BY <1>1, RegistrySteps
    <2>2. ASSUME NEW a \in Agents PROVE Registered(a)' <=> Registered(a)
      <3>1. agents[a] \in Agent
        BY DEF RegistryTypeOK
      <3>2. CASE Tick
        BY <3>2 DEF Tick, Registered
      <3>3. ASSUME NEW p \in KnownPrincipals, RetireRow(p)
            PROVE  Registered(a)' <=> Registered(a)
        BY <3>1, <3>3 DEF RetireRow, Registered, RegistryTypeOK, Agent
      <3>4. CASE RotateRows
        BY <3>1, <3>4 DEF RotateRows, Registered, RegistryTypeOK, Agent
      <3> QED BY <1>1, <3>2, <3>3, <3>4
    <2>3. KnownAgents' = KnownAgents
      BY <2>2 DEF KnownAgents
    <2>4. now' = now \/ now' = now + 1
      BY <1>1 DEF Tick, RetireRow, RotateRows
    <2> QED BY <2>1, <2>3, <2>4
  <1>2. ASSUME NEW a \in Agents, NEW leaseMS \in LeaseTimes,
               RegisterRow(scopeToken, a, leaseMS, {}, FALSE)
        PROVE  Goal
    <2>1. RegistryTypeOK' /\ RotationRevokes'
      BY <1>2, RegisterKeeps
    <2>2. \A b \in Agents : Registered(b) => Registered(b)'
      BY <1>2, RegisterStays
    <2>3. \A b \in Agents : Registered(b)' => Registered(b) \/ b = a
      BY <1>2 DEF RegisterRow, Registered, RegistryTypeOK
    <2>4. KnownAgents \subseteq KnownAgents' /\ KnownAgents' \subseteq KnownAgents \cup {a}
      BY <2>2, <2>3 DEF KnownAgents
    <2>5. IsFiniteSet(KnownAgents \cup {a})
      BY FS_AddElement
    <2>6. IsFiniteSet(KnownAgents')
      BY <2>4, <2>5, FS_Subset
    <2>7. now' = now
      BY <1>2 DEF RegisterRow
    <2> QED BY <2>1, <2>4, <2>6, <2>7
  <1> HIDE DEF Goal
  <1>3. Goal
    BY <1>1, <1>2
  <1> QED BY <1>3 DEF Goal

(* The agents come and go.                                                 *)
LEMMA ExecutionsKeep ==
  ASSUME OutputInv, ExecutionNext
  PROVE  OutputInv'
  <1>1. /\ RegistryTypeOK' /\ RotationRevokes'
        /\ KnownAgents \subseteq KnownAgents' /\ IsFiniteSet(KnownAgents')
        /\ now' = now \/ now' = now + 1
    BY RowsGrow DEF OutputInv, StreamInv, ExecutionNext
  <1>2. UNCHANGED <<streams, principals, usage, followers, accepted>> /\ now \in Nat
    BY DEF ExecutionNext, outputVars, OutputInv, RegistryTypeOK
  <1>3. StreamInv' /\ FollowerInv' /\ QuotaInv'
    BY <1>1, <1>2, StreamsKept, FollowersKept, QuotaKept DEF OutputInv
  <1> QED BY <1>1, <1>3 DEF OutputInv

(* Disabled or rotated, a credential stays on its stream.                  *)
LEMMA CredentialsKept ==
  ASSUME FollowerInv, UNCHANGED <<followers, streams>>,
         principals' \in [PrincipalIds -> Credential],
         \A c \in PrincipalIds : /\ principals'[c].row = principals[c].row
                                 /\ principals'[c].stream = principals[c].stream
  PROVE  FollowerInv'
  <1>1. OutputPrincipals' = OutputPrincipals /\ Streams' = Streams
    BY DEF OutputPrincipals, Streams
  <1>2. \A c \in OutputPrincipals : c \in PrincipalIds
    BY DEF OutputPrincipals
  <1>3. NoValueSkipped'
    BY <1>1, <1>2 DEF FollowerInv, NoValueSkipped
  <1> QED BY <1>1, <1>3 DEF FollowerInv

(* A rotation of the scope disables the principals.                        *)
LEMMA DisableKeeps ==
  ASSUME OutputInv, DisableCredentials
  PROVE  OutputInv'
  <1>1. RotateRows /\ UNCHANGED <<streams, usage, followers, accepted>> /\ now \in Nat
    BY DEF DisableCredentials, OutputInv, RegistryTypeOK
  <1>2. /\ RegistryTypeOK' /\ RotationRevokes'
        /\ KnownAgents \subseteq KnownAgents' /\ IsFiniteSet(KnownAgents')
        /\ now' = now \/ now' = now + 1
    BY <1>1, RowsGrow DEF OutputInv, StreamInv
  <1>3. /\ principals' \in [PrincipalIds -> Credential]
        /\ \A c \in PrincipalIds : /\ principals'[c].row = principals[c].row
                                   /\ principals'[c].stream = principals[c].stream
    BY DEF DisableCredentials, OutputInv, FollowerInv, Credential
  <1>4. StreamInv' /\ FollowerInv' /\ QuotaInv'
    BY <1>1, <1>2, <1>3, StreamsKept, CredentialsKept, QuotaKept DEF OutputInv
  <1> QED BY <1>2, <1>4 DEF OutputInv

(* An operation of the owner leaves the agents and the quotas alone.       *)
LEMMA OwnerLeaves ==
  ASSUME OutputInv, NEW token, ownerOperation(token)
  PROVE  /\ RegistryTypeOK' /\ RotationRevokes' /\ QuotaInv'
         /\ KnownAgents' = KnownAgents
  <1>1. UNCHANGED <<now, scopeToken, agents, links, usage, accepted>> /\ now \in Nat
    BY DEF ownerOperation, registryVars, OutputInv, RegistryTypeOK
  <1>2. RegistryTypeOK' /\ RotationRevokes'
    BY <1>1 DEF OutputInv, RegistryTypeOK, RotationRevokes
  <1>3. KnownAgents' = KnownAgents
    BY <1>1 DEF KnownAgents, Registered
  <1> QED BY <1>1, <1>2, <1>3, QuotaKept DEF OutputInv

(* A stream more.                                                          *)
LEMMA CreateStreamKeeps ==
  ASSUME OutputInv, NEW token, NEW s \in StreamIds, NEW retention \in Retentions,
         NEW publishers \in SUBSET Agents, CreateOutputStream(token, s, retention, publishers)
  PROVE  OutputInv'
  <1> DEFINE empty == NoStream("present")
             new == [empty EXCEPT !.retention = retention, !.publishers = publishers]
  <1>1. /\ ownerOperation(token) /\ streams[s].row = "absent"
        /\ Cardinality(Streams) < MaxOutputStreams
        /\ Cardinality(publishers) <= MaxOutputPublishers
        /\ publishers \subseteq KnownAgents
        /\ streams' = [streams EXCEPT ![s] = new]
        /\ UNCHANGED <<principals, followers>>
    BY DEF CreateOutputStream, KnownAgents
  <1>2. /\ new \in Stream /\ StreamSound(new) /\ new.row = "present"
        /\ new.publishers = publishers /\ new.values = {}
    <2>1. /\ empty \in Stream /\ empty.row = "present"
          /\ empty.sequence = 0 /\ empty.floor = 0 /\ empty.values = {}
      BY DEF NoStream, Stream, Rows
    <2> HIDE DEF empty
    <2>2. retention \in Nat \ {0} /\ publishers \subseteq Agents
      BY OutputAssumption
    <2>3. /\ new.row = "present" /\ new.retention = retention /\ new.sequence = 0
          /\ new.floor = 0 /\ new.publishers = publishers /\ new.values = {}
          /\ new \in Stream
      BY <2>1, <2>2 DEF Stream, Rows
    <2> HIDE DEF new
    <2>4. StreamSound(new)
      BY <2>2, <2>3 DEF StreamSound
    <2> QED BY <2>3, <2>4
  <1> HIDE DEF new
  <1>3. KnownAgents' = KnownAgents
    BY <1>1, OwnerLeaves
  <1>4. /\ streams' \in [StreamIds -> Stream]
        /\ \A t \in StreamIds : streams'[t] = IF t = s THEN new ELSE streams[t]
    BY <1>1, <1>2 DEF OutputInv, StreamInv
  <1>5. Streams' = Streams \cup {s} /\ s \notin Streams
    BY <1>1, <1>2, <1>4 DEF Streams
  <1>6. IsFiniteSet(Streams') /\ Cardinality(Streams') <= MaxOutputStreams
    <2>1. IsFiniteSet(Streams) /\ Cardinality(Streams) \in Nat
      BY FS_CardinalityType DEF OutputInv, StreamInv
    <2>2. IsFiniteSet(Streams \cup {s}) /\ Cardinality(Streams \cup {s}) = Cardinality(Streams) + 1
      BY <1>5, <2>1, FS_AddElement
    <2> QED BY <1>1, <1>5, <2>1, <2>2, OutputAssumption
  <1>7. StreamInv'
    BY <1>1, <1>2, <1>3, <1>4, <1>5, <1>6 DEF OutputInv, StreamInv
  <1>8. FollowerInv'
    BY <1>1, <1>4, <1>5 DEF OutputInv, FollowerInv, NoValueSkipped, OutputPrincipals
  <1> QED BY <1>1, <1>7, <1>8, OwnerLeaves DEF OutputInv

(* A stream less.                                                          *)
LEMMA RemoveStreamKeeps ==
  ASSUME OutputInv, NEW token, NEW s \in StreamIds, RemoveOutputStream(token, s)
  PROVE  OutputInv'
  <1>1. /\ ownerOperation(token) /\ s \in Streams /\ UNCHANGED followers
        /\ streams' = [streams EXCEPT ![s] = NoStream("removed")]
    BY DEF RemoveOutputStream
  <1>2. KnownAgents' = KnownAgents
    BY <1>1, OwnerLeaves
  <1>3. NoStream("removed") \in Stream /\ NoStream("removed").row = "removed"
    BY DEF NoStream, Stream, Rows
  <1>4. /\ streams' \in [StreamIds -> Stream]
        /\ \A t \in StreamIds : streams'[t] = IF t = s THEN NoStream("removed") ELSE streams[t]
    BY <1>1, <1>3 DEF OutputInv, StreamInv
  <1>5. Streams' = Streams \ {s}
    BY <1>1, <1>3, <1>4 DEF Streams
  <1>6. IsFiniteSet(Streams') /\ Cardinality(Streams') <= MaxOutputStreams
    <2>1. IsFiniteSet(Streams) /\ Cardinality(Streams) <= MaxOutputStreams
      BY DEF OutputInv, StreamInv
    <2>2. Streams' \in SUBSET Streams
      BY <1>5
    <2>3. IsFiniteSet(Streams') /\ Cardinality(Streams') <= Cardinality(Streams)
      BY <2>1, <2>2, FS_Subset
    <2>4. Cardinality(Streams) \in Nat /\ Cardinality(Streams') \in Nat
      BY <2>1, <2>3, FS_CardinalityType
    <2> QED BY <2>1, <2>3, <2>4, OutputAssumption
  <1>7. StreamInv'
    <2>1. \A t \in Streams' : t \in Streams /\ streams'[t] = streams[t]
      BY <1>4, <1>5 DEF Streams
    <2>2. KnownAgents' = KnownAgents /\ IsFiniteSet(KnownAgents)
      BY <1>2 DEF OutputInv, StreamInv
    <2> QED BY <1>4, <1>6, <2>1, <2>2 DEF OutputInv, StreamInv
  <1>8. /\ NoPrincipal("removed") \in Credential /\ NoPrincipal("removed").row = "removed"
    BY DEF NoPrincipal, Credential, Rows
  <1>9. /\ principals' \in [PrincipalIds -> Credential]
        /\ \A c \in PrincipalIds :
             IF principals[c].row = "present" /\ principals[c].stream = s
             THEN principals'[c].row = "removed"
             ELSE principals'[c] = principals[c]
    BY <1>8 DEF RemoveOutputStream, OutputInv, FollowerInv
  <1>10. \A c \in OutputPrincipals' :
           /\ c \in OutputPrincipals /\ principals'[c] = principals[c] /\ principals[c].stream # s
    BY <1>9 DEF OutputPrincipals
  <1>11. FollowerInv'
    BY <1>1, <1>4, <1>5, <1>9, <1>10 DEF OutputInv, FollowerInv, NoValueSkipped, Streams
  <1> QED BY <1>1, <1>7, <1>11, OwnerLeaves DEF OutputInv

(* A publisher more or less.                                               *)
LEMMA SetPublisherKeeps ==
  ASSUME OutputInv, NEW token, NEW s \in StreamIds, NEW a \in Agents, NEW allowed \in BOOLEAN,
         SetOutputPublisher(token, s, a, allowed)
  PROVE  OutputInv'
  <1> DEFINE old == streams[s].publishers
             list == IF allowed THEN old \cup {a} ELSE old \ {a}
             new == [streams[s] EXCEPT !.publishers = list]
  <1>1. /\ ownerOperation(token) /\ s \in Streams /\ a \in KnownAgents
        /\ allowed => Cardinality(old) < MaxOutputPublishers
        /\ UNCHANGED <<principals, followers>>
    BY DEF SetOutputPublisher, KnownAgents
  <1>2. streams[s] \in Stream /\ StreamSound(streams[s])
        /\ old \subseteq KnownAgents /\ old \subseteq Agents
        /\ IsFiniteSet(KnownAgents) /\ Cardinality(old) <= MaxOutputPublishers
    BY <1>1 DEF OutputInv, StreamInv, Stream
  <1>3. streams' = [streams EXCEPT ![s] = new]
    BY DEF SetOutputPublisher
  <1>4. list \subseteq KnownAgents /\ list \subseteq Agents /\ Cardinality(list) <= MaxOutputPublishers
    <2>1. IsFiniteSet(old) /\ Cardinality(old) \in Nat
      BY <1>2, FS_Subset, FS_CardinalityType
    <2>2. /\ Cardinality(old \cup {a}) = IF a \in old THEN Cardinality(old) ELSE Cardinality(old) + 1
          /\ Cardinality(old \ {a}) = IF a \in old THEN Cardinality(old) - 1 ELSE Cardinality(old)
      BY <2>1, FS_AddElement, FS_RemoveElement
    <2> HIDE DEF old
    <2> QED BY <1>1, <1>2, <2>1, <2>2, OutputAssumption
  <1>5. /\ new \in Stream /\ new.row = streams[s].row /\ new.retention = streams[s].retention
        /\ new.sequence = streams[s].sequence /\ new.floor = streams[s].floor
        /\ new.values = streams[s].values /\ new.publishers = list
    <2> HIDE DEF list
    <2> QED BY <1>2, <1>4 DEF Stream
  <1> HIDE DEF new, list
  <1>6. StreamSound(new)
    BY <1>2, <1>5 DEF StreamSound
  <1>7. /\ streams' \in [StreamIds -> Stream]
        /\ \A t \in StreamIds : streams'[t] = IF t = s THEN new ELSE streams[t]
    BY <1>3, <1>5 DEF OutputInv, StreamInv
  <1>8. Streams' = Streams
    BY <1>1, <1>5, <1>7 DEF Streams
  <1>9. KnownAgents' = KnownAgents
    BY <1>1, OwnerLeaves
  <1>10. StreamInv'
    <2>1. \A t \in Streams : t \in StreamIds
      BY DEF Streams
    <2> QED BY <1>1, <1>4, <1>5, <1>6, <1>7, <1>8, <1>9, <2>1 DEF OutputInv, StreamInv
  <1>11. FollowerInv'
    <2>1. \A t \in StreamIds : /\ streams'[t].values = streams[t].values
                               /\ streams'[t].sequence = streams[t].sequence
      BY <1>5, <1>7
    <2>2. OutputPrincipals' = OutputPrincipals /\ \A c \in OutputPrincipals : principals[c].stream \in StreamIds
      BY <1>1 DEF OutputPrincipals, OutputInv, FollowerInv, Streams
    <2>3. NoValueSkipped'
      BY <1>1, <2>1, <2>2 DEF OutputInv, FollowerInv, NoValueSkipped
    <2> QED BY <1>1, <1>8, <2>1, <2>2, <2>3 DEF OutputInv, FollowerInv
  <1> QED BY <1>1, <1>10, <1>11, OwnerLeaves DEF OutputInv

(* The owner's operations on credentials.                                  *)
LEMMA CreatePrincipalKeeps ==
  ASSUME OutputInv, NEW token, NEW c \in PrincipalIds, NEW s \in StreamIds,
         NEW permissions \in Permissions, CreateOutputPrincipal(token, c, s, permissions)
  PROVE  OutputInv'
  <1> DEFINE new == [row |-> "present", stream |-> s, permissions |-> permissions,
                     secret |-> 1, enabled |-> TRUE]
  <1>1. /\ ownerOperation(token) /\ principals[c].row = "absent" /\ s \in Streams
        /\ principals' = [principals EXCEPT ![c] = new]
        /\ UNCHANGED <<streams, followers>>
    BY DEF CreateOutputPrincipal
  <1>2. new \in Credential /\ new.row = "present" /\ new.stream = s
    BY DEF Credential, Rows, Permissions
  <1> HIDE DEF new
  <1>3. /\ principals' \in [PrincipalIds -> Credential]
        /\ \A d \in PrincipalIds : principals'[d] = IF d = c THEN new ELSE principals[d]
    BY <1>1, <1>2 DEF OutputInv, FollowerInv
  <1>4. StreamInv'
    <2>1. KnownAgents' = KnownAgents
      BY <1>1, OwnerLeaves
    <2> QED BY <1>1, <2>1, StreamsKept DEF OutputInv, StreamInv
  <1>5. followers[c].known = {} /\ Streams' = Streams
    BY <1>1 DEF OutputInv, FollowerInv, Streams
  <1>6. OutputPrincipals' = OutputPrincipals \cup {c}
    BY <1>2, <1>3 DEF OutputPrincipals
  <1>7. NoValueSkipped'
    <2>1. \A d \in OutputPrincipals : d \in PrincipalIds
      BY DEF OutputPrincipals
    <2> QED BY <1>1, <1>3, <1>5, <1>6, <2>1 DEF OutputInv, FollowerInv, NoValueSkipped
  <1>8. FollowerInv'
    BY <1>1, <1>2, <1>3, <1>5, <1>6, <1>7 DEF OutputInv, FollowerInv
  <1> QED BY <1>1, <1>4, <1>8, OwnerLeaves DEF OutputInv

(* A principal gets a new secret, is switched off or on.                   *)
LEMMA PrincipalsKeep ==
  ASSUME OutputInv, NEW token, NEW c \in PrincipalIds,
         \/ RotateOutputPrincipal(token, c)
         \/ \E enabled \in BOOLEAN : SetOutputPrincipalEnabled(token, c, enabled)
  PROVE  OutputInv'
  <1>1. ownerOperation(token) /\ UNCHANGED <<streams, followers>>
    BY DEF RotateOutputPrincipal, SetOutputPrincipalEnabled
  <1>2. principals \in [PrincipalIds -> Credential]
    BY DEF OutputInv, FollowerInv
  <1>3. /\ principals' \in [PrincipalIds -> Credential]
        /\ \A d \in PrincipalIds : /\ principals'[d].row = principals[d].row
                                   /\ principals'[d].stream = principals[d].stream
    <2> DEFINE Goal == /\ principals' \in [PrincipalIds -> Credential]
                       /\ \A d \in PrincipalIds : /\ principals'[d].row = principals[d].row
                                                  /\ principals'[d].stream = principals[d].stream
    <2>1. ASSUME NEW new \in Credential, new.row = principals[c].row, new.stream = principals[c].stream,
                 principals' = [principals EXCEPT ![c] = new]
          PROVE  Goal
      BY <1>2, <2>1
    <2>2. ASSUME RotateOutputPrincipal(token, c)
          PROVE  Goal
      <3> DEFINE new == [principals[c] EXCEPT !.secret = @ + 1]
      <3>1. new \in Credential /\ new.row = principals[c].row /\ new.stream = principals[c].stream
        <4> DEFINE old == principals[c]
                   next == old.secret + 1
        <4>1. old \in Credential /\ next \in Nat
          <5>1. old \in Credential
            BY <1>2
          <5> HIDE DEF old
          <5>2. old.secret \in Nat
            BY <5>1 DEF Credential
          <5> QED BY <5>1, <5>2
        <4> HIDE DEF old, next
        <4>2. [old EXCEPT !.secret = next] \in Credential
          BY <4>1 DEF Credential
        <4>3. /\ [old EXCEPT !.secret = next].row = old.row
              /\ [old EXCEPT !.secret = next].stream = old.stream
          BY <4>1 DEF Credential
        <4> QED BY <4>2, <4>3 DEF old, next
      <3>2. principals' = [principals EXCEPT ![c] = new]
        BY <2>2 DEF RotateOutputPrincipal
      <3> HIDE DEF new, Goal
      <3> QED BY <2>1, <3>1, <3>2
    <2>3. ASSUME NEW enabled \in BOOLEAN, SetOutputPrincipalEnabled(token, c, enabled)
          PROVE  Goal
      <3> DEFINE new == [principals[c] EXCEPT !.enabled = enabled]
      <3>1. new \in Credential /\ new.row = principals[c].row /\ new.stream = principals[c].stream
        BY <1>2 DEF Credential
      <3>2. principals' = [principals EXCEPT ![c] = new]
        BY <2>3 DEF SetOutputPrincipalEnabled
      <3> HIDE DEF new, Goal
      <3> QED BY <2>1, <3>1, <3>2
    <2> HIDE DEF Goal
    <2>4. Goal
      BY <2>2, <2>3
    <2> QED BY <2>4 DEF Goal
  <1>4. FollowerInv'
    BY <1>1, <1>3, CredentialsKept DEF OutputInv
  <1>5. StreamInv'
    <2>1. KnownAgents' = KnownAgents
      BY <1>1, OwnerLeaves
    <2> QED BY <1>1, <2>1, StreamsKept DEF OutputInv, StreamInv
  <1> QED BY <1>1, <1>4, <1>5, OwnerLeaves DEF OutputInv

(* The count of the current window is what was accepted in it.             *)
LEMMA UsedCounts ==
  ASSUME QuotaInv, NEW p \in Producers, Window \in Windows
  PROVE  Used(p, "publish") = accepted[p][Window] /\ accepted[p][Window] \in Nat
  <1>1. Window \in Int /\ accepted[p][Window] \in Nat
    <2>1. Window \in Int
      BY DEF Windows
    <2>2. accepted[p] \in [Windows -> Nat]
      BY DEF QuotaInv
    <2> QED BY <2>1, <2>2
  <1>2. Used(p, "publish") = IF Counts(p, Window) = {} THEN 0
                             ELSE (CHOOSE u \in Counts(p, Window) : TRUE).count
    BY DEF Used, Counts
  <1>3. /\ Counts(p, Window) = {} => accepted[p][Window] = 0
        /\ \A u \in Counts(p, Window) : u.count = accepted[p][Window]
    BY <1>1 DEF QuotaInv, UsageCounts
  <1>4. CASE Counts(p, Window) = {}
    BY <1>1, <1>2, <1>3, <1>4
  <1>5. CASE Counts(p, Window) # {}
    <2>1. (CHOOSE u \in Counts(p, Window) : TRUE) \in Counts(p, Window)
      BY <1>5
    <2> QED BY <1>1, <1>2, <1>3, <1>5, <2>1
  <1> QED BY <1>4, <1>5

(* A row for every producer, kind and window.                              *)
LEMMA UsedTypes ==
  ASSUME QuotaInv, NEW p \in Producers, NEW kind \in {"publish", "read"}
  PROVE  Used(p, kind) \in Nat
  <1> DEFINE rows == {u \in usage : u.producer = p /\ u.kind = kind /\ u.window = Window}
  <1>1. \A u \in rows : u.count \in Nat
    BY DEF QuotaInv
  <1>2. Used(p, kind) = IF rows = {} THEN 0 ELSE (CHOOSE u \in rows : TRUE).count
    BY DEF Used
  <1> HIDE DEF rows
  <1>3. rows # {} => (CHOOSE u \in rows : TRUE) \in rows
    OBVIOUS
  <1> QED BY <1>1, <1>2, <1>3

(* Taking from the quota counts the request in the current window and      *)
(* forgets nothing of it or of a later one.                                *)
LEMMA QuotaTaken ==
  ASSUME QuotaInv, now \in Nat, UNCHANGED now,
         NEW q \in Producers, NEW kind \in {"publish", "read"}, NEW rate,
         consumeOutputQuota(q, kind, rate)
  PROVE  /\ usage' \subseteq [producer : Producers, kind : {"publish", "read"}, window : Nat, count : Nat]
         /\ \A p \in Producers, w \in Windows : w >= Window =>
              Counts(p, w)' = IF p = q /\ kind = "publish" /\ w = Window
                              THEN {Counted(q, "publish")} ELSE Counts(p, w)
  <1> DEFINE row == Counted(q, kind)
  <1>1. Window \in Nat /\ Used(q, kind) \in Nat
    BY WindowsGrow, UsedTypes DEF Window
  <1>2. /\ row.producer = q /\ row.kind = kind /\ row.window = Window
        /\ row \in [producer : Producers, kind : {"publish", "read"}, window : Nat, count : Nat]
    BY <1>1 DEF Counted
  <1>3. usage' = {u \in usage : /\ u.window >= Window - 1
                                /\ u.producer # q \/ u.kind # kind \/ u.window # Window}
                 \cup {row}
    BY DEF consumeOutputQuota
  <1>4. kind = "publish" => row = Counted(q, "publish")
    OBVIOUS
  <1> HIDE DEF row
  <1>5. usage' \subseteq [producer : Producers, kind : {"publish", "read"}, window : Nat, count : Nat]
    BY <1>2, <1>3 DEF QuotaInv
  <1>6. ASSUME NEW p \in Producers, NEW w \in Windows, w >= Window
        PROVE  Counts(p, w)' = IF p = q /\ kind = "publish" /\ w = Window
                               THEN {row} ELSE Counts(p, w)
    <2>1. Counts(p, w)' = {u \in usage' : u.producer = p /\ u.kind = "publish" /\ u.window = w}
      BY DEF Counts
    <2>2. w \in Int /\ w >= Window - 1
      BY <1>1, <1>6 DEF Windows
    <2>3. CASE p = q /\ kind = "publish" /\ w = Window
      BY <1>2, <1>3, <2>1, <2>3
    <2>4. CASE ~ (p = q /\ kind = "publish" /\ w = Window)
      BY <1>2, <1>3, <2>1, <2>2, <2>4 DEF Counts
    <2> QED BY <2>3, <2>4
  <1> QED BY <1>4, <1>5, <1>6

(* Reads do not count as publications, and a publication counts once.      *)
LEMMA ReadTakesQuota ==
  ASSUME QuotaInv, now \in Nat, UNCHANGED <<now, accepted>>, NEW c \in PrincipalIds,
         consumeOutputQuota(c, "read", ReadRate)
  PROVE  QuotaInv'
  <1>1. c \in Producers
    BY DEF Producers
  <1>2. Window' = Window
    BY DEF Window
  <1>3. /\ usage' \subseteq [producer : Producers, kind : {"publish", "read"}, window : Nat, count : Nat]
        /\ \A p \in Producers, w \in Windows : w >= Window => Counts(p, w)' = Counts(p, w)
    BY <1>1, QuotaTaken
  <1>4. UsageCounts'
    BY <1>2, <1>3 DEF QuotaInv, UsageCounts
  <1> QED BY <1>3, <1>4 DEF QuotaInv, RateHeld

(* A publication that is accepted is counted in its window.                *)
LEMMA PublishTakesQuota ==
  ASSUME QuotaInv, now \in Nat, UNCHANGED now, NEW q \in Producers,
         consumeOutputQuota(q, "publish", PublishRate),
         accepted' = [accepted EXCEPT ![q][Window] = @ + 1]
  PROVE  QuotaInv'
  <1>1. Window' = Window /\ Window \in Nat
    BY WindowsGrow DEF Window
  <1>2. /\ usage' \subseteq [producer : Producers, kind : {"publish", "read"}, window : Nat, count : Nat]
        /\ \A p \in Producers, w \in Windows : w >= Window =>
              Counts(p, w)' = IF p = q /\ w = Window THEN {Counted(q, "publish")} ELSE Counts(p, w)
    BY QuotaTaken
  <1>3. /\ accepted' \in [Producers -> [Windows -> Nat]]
        /\ \A p \in Producers, w \in Windows :
             accepted'[p][w] = IF p = q /\ w = Window THEN accepted[p][w] + 1 ELSE accepted[p][w]
    <2> DEFINE mine == [accepted[q] EXCEPT ![Window] = @ + 1]
    <2>1. /\ mine \in [Windows -> Nat]
          /\ \A w \in Windows : mine[w] = IF w = Window THEN accepted[q][w] + 1 ELSE accepted[q][w]
      <3> DEFINE f == accepted[q]
                 k == Window
      <3>1. f \in [Windows -> Nat]
        BY DEF QuotaInv
      <3>2. mine = [f EXCEPT ![k] = f[k] + 1]
        OBVIOUS
      <3> HIDE DEF f, k, mine
      <3>3. /\ mine = [w \in Windows |-> mine[w]]
            /\ \A w \in Windows : /\ mine[w] = IF w = k THEN f[w] + 1 ELSE f[w]
                                  /\ mine[w] \in Nat
        <4>1. \A w \in Windows : f[w] \in Nat /\ f[w] + 1 \in Nat
          BY <3>1
        <4>2. /\ mine = [w \in Windows |-> mine[w]]
              /\ \A w \in Windows : w = k => mine[w] = f[w] + 1
              /\ \A w \in Windows : w # k => mine[w] = f[w]
          BY <3>1, <3>2
        <4> QED BY <4>1, <4>2
      <3> QED BY <3>3 DEF f, k
    <2>2. accepted' = [accepted EXCEPT ![q] = mine]
      OBVIOUS
    <2> HIDE DEF mine
    <2> QED BY <2>1, <2>2 DEF QuotaInv
  <1>4. Window \in Windows =>
          /\ Counted(q, "publish").count = accepted[q][Window] + 1
          /\ accepted[q][Window] < PublishRate
          /\ accepted[q][Window] \in Nat
    BY UsedCounts DEF Counted, consumeOutputQuota
  <1>5. UsageCounts'
    <2> SUFFICES ASSUME NEW p \in Producers, NEW w \in Windows, w >= Window
                 PROVE  /\ Counts(p, w)' = {} => accepted'[p][w] = 0
                        /\ \A u \in Counts(p, w)' : u.count = accepted'[p][w]
      BY <1>1 DEF UsageCounts
    <2>1. CASE p = q /\ w = Window
      BY <1>2, <1>3, <1>4, <2>1
    <2>2. CASE ~ (p = q /\ w = Window)
      BY <1>2, <1>3, <2>2 DEF QuotaInv, UsageCounts
    <2> QED BY <2>1, <2>2
  <1>6. RateHeld'
    <2> SUFFICES ASSUME NEW p \in Producers, NEW w \in Windows
                 PROVE  accepted'[p][w] <= PublishRate
      BY DEF RateHeld
    <2>1. CASE p = q /\ w = Window
      BY <1>3, <1>4, <2>1, OutputAssumption
    <2>2. CASE ~ (p = q /\ w = Window)
      BY <1>3, <2>2 DEF QuotaInv, RateHeld
    <2> QED BY <2>1, <2>2
  <1> QED BY <1>2, <1>3, <1>5, <1>6 DEF QuotaInv

(* A publication changes one stream, and its number is one that no follower *)
(* knows.                                                                  *)
LEMMA PublishKeeps ==
  ASSUME OutputInv, NEW s \in StreamIds, NEW q \in Producers, q \in Agents => q \in KnownAgents,
         publishTx(s, q)
  PROVE  OutputInv'
  <1> DEFINE old == streams[s]
             new == published(old, q)
             value == [sequence |-> old.sequence + 1, producer |-> q]
  <1>1. /\ s \in Streams /\ consumeOutputQuota(q, "publish", PublishRate)
        /\ streams' = [streams EXCEPT ![s] = new]
        /\ accepted' = [accepted EXCEPT ![q][Window] = @ + 1]
        /\ UNCHANGED <<registryVars, principals, followers>>
    BY DEF publishTx
  <1>2. UNCHANGED <<now, scopeToken, agents, links>> /\ now \in Nat
    BY <1>1 DEF registryVars, OutputInv, RegistryTypeOK
  <1>3. RegistryTypeOK' /\ RotationRevokes' /\ KnownAgents' = KnownAgents
    BY <1>2 DEF OutputInv, RegistryTypeOK, RotationRevokes, KnownAgents, Registered
  <1>4. QuotaInv'
    BY <1>1, <1>2, PublishTakesQuota DEF OutputInv
  <1>5. /\ old \in Stream /\ StreamSound(old)
        /\ old.publishers \subseteq KnownAgents /\ Cardinality(old.publishers) <= MaxOutputPublishers
        /\ \A v \in old.values : v.producer \in Agents => v.producer \in KnownAgents
    BY <1>1 DEF OutputInv, StreamInv
  <1> HIDE DEF old
  <1>6. /\ new \in Stream /\ StreamSound(new)
        /\ new.row = old.row /\ new.publishers = old.publishers
        /\ new.sequence = old.sequence + 1
        /\ new.values \subseteq old.values \cup {value}
    BY <1>5, PublishedSound
  <1>7. value.sequence = old.sequence + 1 /\ value.producer = q /\ old.sequence \in Nat
    BY <1>5 DEF Stream
  <1> HIDE DEF new, value
  <1>8. /\ streams' \in [StreamIds -> Stream]
        /\ \A t \in StreamIds : streams'[t] = IF t = s THEN new ELSE streams[t]
    BY <1>1, <1>6 DEF OutputInv, StreamInv
  <1>9. Streams' = Streams /\ \A t \in Streams : t \in StreamIds
    BY <1>1, <1>6, <1>8 DEF Streams, old
  <1>10. StreamInv'
    <2>1. \A v \in new.values : v.producer \in Agents => v.producer \in KnownAgents
      BY <1>5, <1>6, <1>7
    <2>2. \A t \in Streams :
            /\ StreamSound(streams'[t])
            /\ streams'[t].publishers \subseteq KnownAgents
            /\ Cardinality(streams'[t].publishers) <= MaxOutputPublishers
            /\ \A v \in streams'[t].values : v.producer \in Agents => v.producer \in KnownAgents
      <3> SUFFICES ASSUME NEW t \in Streams
                   PROVE  /\ StreamSound(streams'[t])
                          /\ streams'[t].publishers \subseteq KnownAgents
                          /\ Cardinality(streams'[t].publishers) <= MaxOutputPublishers
                          /\ \A v \in streams'[t].values : v.producer \in Agents => v.producer \in KnownAgents
        OBVIOUS
      <3>1. CASE t = s
        BY <1>5, <1>6, <1>8, <1>9, <2>1, <3>1
      <3>2. CASE t # s
        BY <1>8, <1>9, <3>2 DEF OutputInv, StreamInv
      <3> QED BY <3>1, <3>2
    <2> QED BY <1>3, <1>8, <1>9, <2>2 DEF OutputInv, StreamInv
  <1>11. FollowerInv'
    <2>1. OutputPrincipals' = OutputPrincipals
      BY <1>1 DEF OutputPrincipals
    <2>2. ASSUME NEW c \in OutputPrincipals
          PROVE  /\ principals[c].stream \in Streams
                 /\ \A v \in followers[c].known :
                      /\ v.sequence \in Nat
                      /\ v.sequence <= streams[principals[c].stream].sequence
      BY DEF OutputInv, FollowerInv, OutputPrincipals, Value
    <2>3. \A t \in Streams : streams[t].sequence \in Nat
      BY <1>9 DEF OutputInv, StreamInv, Stream
    <2>4. ASSUME NEW c \in OutputPrincipals
          PROVE  /\ \A v \in followers[c].known : v.sequence <= streams'[principals[c].stream].sequence
                 /\ \A v \in followers[c].known, u \in streams'[principals[c].stream].values :
                      v.sequence = u.sequence => v = u
      <3>1. \A v \in followers[c].known, u \in streams[principals[c].stream].values :
              v.sequence = u.sequence => v = u
        BY DEF OutputInv, FollowerInv, NoValueSkipped
      <3>2. CASE principals[c].stream = s
        <4>1. streams'[s] = new
          BY <1>8
        <4>2. \A v \in followers[c].known : v.sequence \in Nat /\ v.sequence <= old.sequence
          BY <2>2, <3>2 DEF old
        <4>3. \A v \in followers[c].known, u \in old.values : v.sequence = u.sequence => v = u
          BY <3>1, <3>2 DEF old
        <4> QED BY <1>6, <1>7, <3>2, <4>1, <4>2, <4>3
      <3>3. CASE principals[c].stream # s
        BY <1>8, <1>9, <2>2, <3>1, <3>3
      <3> QED BY <3>2, <3>3
    <2>5. NoValueSkipped'
      BY <1>1, <2>1, <2>4 DEF OutputInv, FollowerInv, NoValueSkipped
    <2> QED BY <1>1, <1>9, <2>1, <2>4, <2>5 DEF OutputInv, FollowerInv
  <1> QED BY <1>3, <1>4, <1>10, <1>11 DEF OutputInv

(* A page is the beginning of what lies after the cursor: with a value it  *)
(* has every earlier one.                                                  *)
LEMMA PageIsPrefix ==
  ASSUME NEW rest, IsFiniteSet(rest), NEW limit \in Nat, rest \subseteq Value,
         NEW u \in rest, NEW v \in rest, v.sequence <= u.sequence,
         Cardinality({w \in rest : w.sequence < u.sequence}) < limit
  PROVE  Cardinality({w \in rest : w.sequence < v.sequence}) < limit
  <1> DEFINE before(n) == {w \in rest : w.sequence < n}
  <1>1. \A w \in rest : w.sequence \in Nat
    BY DEF Value
  <1>2. before(v.sequence) \subseteq before(u.sequence) /\ before(u.sequence) \subseteq rest
    BY <1>1
  <1> DEFINE A == before(v.sequence)
             B == before(u.sequence)
  <1>3. A \subseteq B /\ B \subseteq rest /\ Cardinality(B) < limit
    BY <1>2
  <1> HIDE DEF before, A, B
  <1>4. IsFiniteSet(B)
    BY <1>3, FS_Subset
  <1>5. IsFiniteSet(A) /\ Cardinality(A) <= Cardinality(B)
    BY <1>3, <1>4, FS_Subset
  <1>6. Cardinality(A) \in Nat /\ Cardinality(B) \in Nat
    BY <1>4, <1>5, FS_CardinalityType
  <1>7. Cardinality(A) < limit
    BY <1>3, <1>5, <1>6
  <1> QED BY <1>7 DEF A, before

(* What a follower of the stream x may rely on.                            *)
Seen(f) == {v.sequence : v \in f.known}

Follows(f, x) ==
  /\ \A n \in Seen(f) : n..f.cursor \subseteq Seen(f)
  /\ \A v \in f.known, u \in x.values : v.sequence = u.sequence => v = u
  /\ \A v \in f.known : v.sequence <= x.sequence

(* A read moves the cursor to the last value of the page, past no value it *)
(* does not deliver: above the floor no number is missing.                 *)
LEMMA HistorySound ==
  ASSUME NEW s, streams[s] \in Stream, StreamSound(streams[s]),
         NEW f \in [cursor : Nat, known : SUBSET Value], Follows(f, streams[s]),
         NEW limit \in Nat
  PROVE  /\ outputHistory(s, f, limit) \in [cursor : Nat, known : SUBSET Value]
         /\ Follows(outputHistory(s, f, limit), streams[s])
  <1> DEFINE x == streams[s]
             rest == {v \in x.values : v.sequence > f.cursor}
             page == {v \in rest : Cardinality({u \in rest : u.sequence < v.sequence}) < limit}
             last == Max({v.sequence : v \in page})
             g == outputHistory(s, f, limit)
  <1>1. g = IF f.cursor < x.floor THEN [cursor |-> x.sequence, known |-> {}]
            ELSE [cursor |-> IF page = {} THEN f.cursor ELSE last, known |-> f.known \cup page]
    BY DEF outputHistory
  <1>2. /\ x \in Stream /\ StreamSound(x) /\ Follows(f, x)
        /\ f.cursor \in Nat /\ f.known \subseteq Value
        /\ x.floor \in Nat /\ x.sequence \in Nat /\ x.values \subseteq Value
    BY DEF Stream
  <1>3. \A v \in Value : v.sequence \in Nat
    BY DEF Value
  <1>4. /\ page \subseteq rest /\ rest \subseteq x.values
        /\ \A v \in x.values : v.sequence > f.cursor <=> v \in rest
    OBVIOUS
  <1>5. IsFiniteSet(rest)
    <2> HIDE DEF x
    <2>1. IsFiniteSet(x.values)
      BY <1>2, ValuesCounted
    <2> QED BY <2>1, FS_Subset
  <1>6. ASSUME NEW u \in page, NEW v \in rest, v.sequence <= u.sequence
        PROVE  v \in page
    <2> DEFINE before(n) == {w \in rest : w.sequence < n}
    <2>1. u \in rest /\ rest \subseteq Value /\ Cardinality(before(u.sequence)) < limit
      BY <1>2
    <2> HIDE DEF rest
    <2>2. Cardinality(before(v.sequence)) < limit
      BY <1>5, <1>6, <2>1, PageIsPrefix
    <2> QED BY <2>2
  <1>7. page # {} => /\ last \in Nat /\ last > f.cursor
                     /\ \A v \in page : v.sequence <= last
                     /\ \E v \in page : v.sequence = last
    <2> SUFFICES ASSUME page # {}
                 PROVE  /\ last \in Nat /\ last > f.cursor
                        /\ \A v \in page : v.sequence <= last
                        /\ \E v \in page : v.sequence = last
      OBVIOUS
    <2> DEFINE S == {v.sequence : v \in page}
    <2>1. S # {} /\ S \subseteq 0..x.sequence
      <3>1. \A v \in page : v.sequence \in 0..x.sequence
        <4>1. \A v \in x.values : v.sequence \in (x.floor + 1)..x.sequence
          BY <1>2 DEF StreamSound
        <4> HIDE DEF x, rest, page
        <4> QED BY <1>2, <1>4, <4>1
      <3> HIDE DEF page
      <3> QED BY <3>1
    <2>2. \A n \in S : n \in Nat /\ n > f.cursor
      BY <1>2, <1>3, <1>4
    <2>3. (\A n \in S : \E v \in page : v.sequence = n) /\ (\A v \in page : v.sequence \in S)
      OBVIOUS
    <2>4. last = CHOOSE n \in S : \A m \in S : n >= m
      BY DEF Max
    <2> HIDE DEF S, last, page
    <2>5. \E n \in S : \A m \in S : m <= n
      <3> HIDE DEF x
      <3> QED BY <1>2, <2>1, LastExists
    <2>6. \E n \in S : \A m \in S : n >= m
      BY <2>2, <2>5
    <2>7. last \in S /\ \A m \in S : last >= m
      BY <2>4, <2>6
    <2> QED BY <2>2, <2>3, <2>7
  <1> HIDE DEF last, g
  <1>8. CASE f.cursor < x.floor
    <2>1. g.cursor = x.sequence /\ g.known = {} /\ g \in [cursor : Nat, known : SUBSET Value]
      BY <1>1, <1>2, <1>8
    <2> QED BY <2>1 DEF Follows, Seen, g
  <1>9. CASE ~ (f.cursor < x.floor)
    <2> DEFINE reached == IF page = {} THEN f.cursor ELSE last
    <2> HIDE DEF page, rest
    <2>1. reached \in Nat /\ reached >= f.cursor
      BY <1>2, <1>7
    <2>2. page \subseteq Value
      BY <1>2, <1>4
    <2>3. g = [cursor |-> reached, known |-> f.known \cup page]
      BY <1>1, <1>9
    <2> HIDE DEF reached
    <2>4. g.cursor = reached /\ g.known = f.known \cup page /\ g \in [cursor : Nat, known : SUBSET Value]
      BY <1>2, <2>1, <2>2, <2>3
    <2>5. \A m \in Nat : f.cursor < m /\ m <= reached => \E v \in page : v.sequence = m
      <3> SUFFICES ASSUME NEW m \in Nat, f.cursor < m, m <= reached
                   PROVE  \E v \in page : v.sequence = m
        OBVIOUS
      <3>1. page # {} /\ reached = last
        BY <1>2, <2>1 DEF reached
      <3>2. PICK u \in page : u.sequence = last
        BY <1>7, <3>1
      <3>3. u \in x.values /\ u.sequence \in (x.floor + 1)..x.sequence
        BY <1>2, <1>4, <3>2 DEF StreamSound
      <3>4. m \in (x.floor + 1)..x.sequence
        BY <1>2, <1>9, <3>1, <3>2, <3>3
      <3>5. PICK v \in x.values : v.sequence = m
        BY <1>2, <3>4 DEF StreamSound
      <3>6. v \in rest
        BY <1>4, <3>5
      <3>7. v \in page
        BY <1>6, <3>1, <3>2, <3>5, <3>6
      <3> QED BY <3>5, <3>7
    <2>6. Seen(g) = Seen(f) \cup {v.sequence : v \in page}
      BY <2>4 DEF Seen
    <2>7. Seen(f) \subseteq Nat /\ {v.sequence : v \in page} \subseteq Nat
      BY <1>2, <1>3, <2>2 DEF Seen
    <2>8. \A n \in Seen(g) : n..g.cursor \subseteq Seen(g)
      <3> SUFFICES ASSUME NEW n \in Seen(g), NEW m \in n..reached
                   PROVE  m \in Seen(g)
        BY <2>4
      <3>1. n \in Nat /\ m \in Nat /\ n <= m /\ m <= reached
        BY <2>1, <2>6, <2>7
      <3>2. CASE f.cursor < m
        BY <2>5, <2>6, <3>1, <3>2
      <3>3. CASE ~ (f.cursor < m)
        <4>1. n \in Seen(f)
          <5>1. \A k \in {v.sequence : v \in page} : k > f.cursor
            BY <1>2, <1>4
          <5> QED BY <1>2, <2>6, <2>7, <3>1, <3>3, <5>1
        <4>2. m \in n..f.cursor
          BY <1>2, <3>1, <3>3
        <4> QED BY <1>2, <2>6, <4>1, <4>2 DEF Follows
      <3> QED BY <3>2, <3>3
    <2>9. \A v \in g.known, u \in x.values : v.sequence = u.sequence => v = u
      BY <1>2, <1>4, <2>4 DEF Follows, StreamSound
    <2>10. \A v \in g.known : v.sequence <= x.sequence
      BY <1>2, <1>4, <2>4 DEF Follows, StreamSound
    <2>11. Follows(g, x)
      BY <2>8, <2>9, <2>10 DEF Follows
    <2> QED BY <2>4, <2>11 DEF g
  <1> QED BY <1>8, <1>9

(* A read tells the follower what the stream holds.                        *)
LEMMA OutputReadKeeps ==
  ASSUME OutputInv, NEW c \in PrincipalIds, NEW secret, NEW s \in StreamIds,
         NEW limit \in OutputLimits, readOutput(c, secret, s, limit)
  PROVE  OutputInv'
  <1> DEFINE f == followers[c]
             g == outputHistory(s, f, limit)
  <1>1. /\ c \in OutputPrincipals /\ principals[c].stream = s
        /\ consumeOutputQuota(c, "read", ReadRate)
        /\ followers' = [followers EXCEPT ![c] = g]
        /\ UNCHANGED <<registryVars, streams, principals, accepted>>
    BY DEF readOutput, authenticateScopedCredential
  <1>2. UNCHANGED <<now, scopeToken, agents, links>> /\ now \in Nat
    BY <1>1 DEF registryVars, OutputInv, RegistryTypeOK
  <1>3. RegistryTypeOK' /\ RotationRevokes' /\ KnownAgents' = KnownAgents
    BY <1>2 DEF OutputInv, RegistryTypeOK, RotationRevokes, KnownAgents, Registered
  <1>4. QuotaInv'
    BY <1>1, <1>2, ReadTakesQuota DEF OutputInv
  <1>5. StreamInv'
    BY <1>1, <1>3, StreamsKept DEF OutputInv, StreamInv
  <1>6. /\ s \in Streams /\ streams[s] \in Stream /\ StreamSound(streams[s])
        /\ f \in [cursor : Nat, known : SUBSET Value] /\ limit \in Nat
    BY <1>1, OutputAssumption DEF OutputInv, FollowerInv, StreamInv
  <1>7. Follows(f, streams[s])
    BY <1>1 DEF OutputInv, FollowerInv, NoValueSkipped, Follows, Seen
  <1> HIDE DEF f
  <1>8. g \in [cursor : Nat, known : SUBSET Value] /\ Follows(g, streams[s])
    BY <1>6, <1>7, HistorySound
  <1> HIDE DEF g
  <1>9. /\ followers' \in [PrincipalIds -> [cursor : Nat, known : SUBSET Value]]
        /\ \A d \in PrincipalIds : followers'[d] = IF d = c THEN g ELSE followers[d]
    BY <1>1, <1>8 DEF OutputInv, FollowerInv
  <1>10. /\ OutputPrincipals' = OutputPrincipals /\ Streams' = Streams
         /\ \A d \in OutputPrincipals : d \in PrincipalIds
    BY <1>1 DEF OutputPrincipals, Streams
  <1>11. FollowerInv'
    <2>1. principals[c].row # "absent"
      BY <1>1 DEF OutputPrincipals
    <2>2. \A d \in OutputPrincipals : Follows(followers[d], streams[principals[d].stream])
      BY <1>10 DEF OutputInv, FollowerInv, NoValueSkipped, Follows, Seen
    <2>3. \A d \in OutputPrincipals : Follows(followers'[d], streams'[principals'[d].stream])
      BY <1>1, <1>8, <1>9, <1>10, <2>2
    <2>4. NoValueSkipped'
      BY <1>10, <2>3 DEF NoValueSkipped, Follows, Seen
    <2>5. \A d \in OutputPrincipals :
            \A v \in followers'[d].known : v.sequence <= streams'[principals'[d].stream].sequence
      BY <2>3 DEF Follows
    <2> QED BY <1>1, <1>9, <1>10, <2>1, <2>4, <2>5 DEF OutputInv, FollowerInv
  <1> QED BY <1>3, <1>4, <1>5, <1>11 DEF OutputInv

(* Every step keeps the invariant.                                         *)
LEMMA OutputNextInv ==
  ASSUME OutputInv, [OutputNext]_<<registryVars, outputVars>>
  PROVE  OutputInv'
  <1>1. ASSUME NEW s \in StreamIds, NEW p \in KnownPrincipals, PublishAsAgent(p, s)
        PROVE  OutputInv'
    <2>1. p.agent \in Agents /\ p.execution \in Nat \ {0} /\ publishTx(s, p.agent)
      BY <1>1 DEF PublishAsAgent, KnownPrincipals
    <2>2. p.agent \in KnownAgents /\ p.agent \in Producers
      BY <1>1, <2>1 DEF PublishAsAgent, requireCurrentExecution, KnownAgents, Registered, Producers
    <2> QED BY <2>1, <2>2, PublishKeeps
  <1>2. ASSUME NEW s \in StreamIds, NEW c \in PrincipalIds, NEW secret \in 1..MaxSecrets,
               PublishAsPrincipal(c, secret, s)
        PROVE  OutputInv'
    <2>1. c \in Producers /\ c \notin Agents /\ publishTx(s, c)
      BY <1>2, OutputAssumption DEF PublishAsPrincipal, Producers
    <2> QED BY <2>1, PublishKeeps
  <1>3. CASE UNCHANGED <<registryVars, outputVars>>
    <2>1. /\ UNCHANGED <<now, scopeToken, agents, links>>
          /\ UNCHANGED <<streams, principals, usage, followers, accepted>>
          /\ now \in Nat
      BY <1>3 DEF registryVars, outputVars, OutputInv, RegistryTypeOK
    <2>2. RegistryTypeOK' /\ RotationRevokes' /\ KnownAgents' = KnownAgents
      BY <2>1 DEF OutputInv, RegistryTypeOK, RotationRevokes, KnownAgents, Registered
    <2>3. StreamInv' /\ FollowerInv' /\ QuotaInv'
      <3>1. IsFiniteSet(KnownAgents)
        BY DEF OutputInv, StreamInv
      <3> QED BY <2>1, <2>2, <3>1, StreamsKept, FollowersKept, QuotaKept DEF OutputInv
    <2> QED BY <2>2, <2>3 DEF OutputInv
  <1>4. ASSUME NEW token \in 1..MaxTokens, NEW s \in StreamIds,
               \/ \E retention \in Retentions, publishers \in SUBSET Agents :
                    CreateOutputStream(token, s, retention, publishers)
               \/ RemoveOutputStream(token, s)
               \/ \E a \in Agents, allowed \in BOOLEAN : SetOutputPublisher(token, s, a, allowed)
               \/ \E c \in PrincipalIds, permissions \in Permissions :
                    CreateOutputPrincipal(token, c, s, permissions)
        PROVE  OutputInv'
    BY <1>4, CreateStreamKeeps, RemoveStreamKeeps, SetPublisherKeeps, CreatePrincipalKeeps
  <1>5. ASSUME NEW token \in 1..MaxTokens, NEW c \in PrincipalIds,
               \/ RotateOutputPrincipal(token, c)
               \/ \E enabled \in BOOLEAN : SetOutputPrincipalEnabled(token, c, enabled)
        PROVE  OutputInv'
    BY <1>5, PrincipalsKeep
  <1>6. ASSUME NEW s \in StreamIds, NEW c \in PrincipalIds, NEW secret \in 1..MaxSecrets,
               NEW limit \in OutputLimits, readOutput(c, secret, s, limit)
        PROVE  OutputInv'
    BY <1>6, OutputReadKeeps
  <1>7. ASSUME ExecutionNext PROVE OutputInv'
    BY <1>7, ExecutionsKeep
  <1>8. ASSUME DisableCredentials PROVE OutputInv'
    BY <1>8, DisableKeeps
  <1> DEFINE Goal == OutputInv'
  <1> HIDE DEF Goal
  <1>9. OutputInv' => Goal
    BY DEF Goal
  <1>10. Goal
    BY <1>1, <1>2, <1>3, <1>4, <1>5, <1>6, <1>7, <1>8, <1>9, Zenon DEF OutputNext
  <1> QED BY <1>10 DEF Goal

(* So it always holds.                                                     *)
LEMMA OutputInvHolds == OutputSpec => []OutputInv
  <1>1. RegistryInit /\ OutputInit => OutputInv
    BY OutputInitInv
  <1>2. OutputInv /\ [OutputNext]_<<registryVars, outputVars>> => OutputInv'
    BY OutputNextInv
  <1> QED BY <1>1, <1>2, PTL DEF OutputSpec

(* The tables keep their types.                                            *)
THEOREM OutputTypes == OutputSpec => []OutputTypeOK
  <1>1. OutputInv => OutputTypeOK
    BY DEF OutputInv, StreamInv, FollowerInv, QuotaInv, OutputTypeOK
  <1> QED BY <1>1, OutputInvHolds, PTL

(* What a reader of a stream may rely on, for any number of producers,     *)
(* followers and reads in between (PublishOutput, outputHistory,           *)
(* RemoveOutputStream, consumeOutputQuota, validateArchive).               *)
THEOREM OutputsAreSound == OutputSpec => []OutputsSound
  <1>1. ASSUME OutputInv PROVE OutputsSound
    <2>1. ASSUME NEW s \in Streams
          PROVE  /\ streams[s] \in Stream /\ StreamSound(streams[s])
                 /\ {v.sequence : v \in streams[s].values}
                      = (streams[s].floor + 1)..streams[s].sequence
                 /\ Cardinality(streams[s].values) = streams[s].sequence - streams[s].floor
                 /\ Cardinality(streams[s].values) <= streams[s].retention
      <3> DEFINE x == streams[s]
      <3>1. x \in Stream /\ StreamSound(x)
        BY <1>1 DEF OutputInv, StreamInv, Streams
      <3> HIDE DEF x
      <3>2. /\ {v.sequence : v \in x.values} = (x.floor + 1)..x.sequence
            /\ Cardinality(x.values) = x.sequence - x.floor
        BY <3>1, ValuesCounted
      <3>3. Cardinality(x.values) <= x.retention
        BY <3>1, <3>2 DEF StreamSound
      <3> QED BY <3>1, <3>2, <3>3 DEF x
    <2>2. ValuesContiguous
      BY <2>1 DEF ValuesContiguous
    <2>3. NoValueSkipped /\ RateHeld /\ CredentialsHaveStream
      BY <1>1 DEF OutputInv, FollowerInv, QuotaInv, CredentialsHaveStream, OutputPrincipals
    <2>4. validArchivedOutputs
      <3>1. ASSUME NEW s \in Streams
            PROVE  /\ streams[s].retention # 0 /\ streams[s].floor <= streams[s].sequence
                   /\ Cardinality(streams[s].publishers) <= MaxOutputPublishers
                   /\ \A a \in streams[s].publishers : Registered(a)
                   /\ \A v \in streams[s].values :
                        /\ v.sequence > streams[s].floor
                        /\ v.sequence <= streams[s].sequence
                        /\ v.producer \in Agents => Registered(v.producer)
        <4>1. \A v \in streams[s].values :
                /\ v.sequence > streams[s].floor
                /\ v.sequence <= streams[s].sequence
          <5>1. /\ streams[s].floor \in Nat /\ streams[s].sequence \in Nat
                /\ \A v \in streams[s].values :
                     v.sequence \in (streams[s].floor + 1)..streams[s].sequence
            BY <2>1 DEF Stream, StreamSound
          <5> QED BY <5>1
        <4>2. /\ \A a \in streams[s].publishers : Registered(a)
              /\ \A v \in streams[s].values : v.producer \in Agents => Registered(v.producer)
              /\ Cardinality(streams[s].publishers) <= MaxOutputPublishers
          BY <1>1 DEF OutputInv, StreamInv, KnownAgents
        <4> QED BY <2>1, <4>1, <4>2 DEF StreamSound
      <3>2. Cardinality(Streams) <= MaxOutputStreams
        BY <1>1 DEF OutputInv, StreamInv
      <3> QED BY <2>1, <3>1, <3>2 DEF validArchivedOutputs
    <2> QED BY <2>2, <2>3, <2>4 DEF OutputsSound
  <1> QED BY <1>1, OutputInvHolds, PTL
=============================================================================
