----------------------------- MODULE MCStreams -----------------------------
(* What clients follow and wait for: the event log with its long poll, the *)
(* output streams, and the long poll of an inbox.  A behaviour exercises   *)
(* one: part says which.  "log" is the log alone, whose followers also     *)
(* restart.                                                                *)
EXTENDS LongPolls, OutputStreams

VARIABLE part

streamVars == <<eventVars, pollVars, allVars, outputVars, part>>

StreamsInit ==
  /\ part \in {"log", "wait", "output", "inbox"}
  /\ EventWaitInit
  /\ part \in {"wait", "inbox"} => log.marker = 0
  /\ now = IF part \in {"log", "wait"} THEN MaxTime ELSE 1
  /\ scopeToken = 1
  /\ agents = [a \in Agents |->
       IF part = "inbox"
       THEN [execution_id |-> 1, lifecycle |-> "starting",
             lease_expires_at |-> 1 + Min(LeaseTimes), registered_with |-> 1]
       ELSE NoAgent]
  /\ links = {}
  /\ messages = [m \in MessageIds |-> NoRow("absent")]
  /\ reservations = [r \in ReservationIds |-> NoReservation("unused")]
  /\ waiters = [w \in Waiters |-> Idle]
  /\ budget = [agent |-> [a \in Agents |-> 0], scope |-> 0]
  /\ signals = [a \in Agents |-> NoSignal]
  /\ closed = {}
  /\ pending = [a \in Agents |-> 0]
  /\ lapsed = {}
  /\ OutputInit

(* The log alone is checked at full length; a follower that waits sees     *)
(* few events, committed at one instant and never trimmed.                 *)
ShortLog == log.revision <= 1 /\ \A r \in 1..log.revision : log.created[r] = 1

(* The owner or the agent interferes with publishing in one way at a time. *)
Interference ==
  {1 : c \in {c \in OutputPrincipals : ~principals[c].enabled}}
  \cup {2 : c \in {c \in OutputPrincipals : principals[c].secret > 1}}
  \cup {3 : a \in {a \in Agents : Registered(a) /\ agents[a].lease_expires_at = 0}}
  \cup {4 : s \in {s \in Streams : streams[s].publishers = {}}}

ShortLife ==
  /\ now <= 3
  /\ \A a \in Agents : Registered(a) =>
       /\ agents[a].execution_id = 1 /\ agents[a].lifecycle # "ready"
       /\ agents[a].lease_expires_at \in {0, 4}

(* Heartbeats of the first execution are enough to move its lease.         *)
OneRenewed == \A a \in Agents : agents[a].execution_id > 1 => agents[a].lifecycle # "ready"

StreamsNext ==
  /\ \/ /\ part = "log"
        /\ EventNext
        /\ UNCHANGED <<pollVars, allVars, outputVars>>
     \/ /\ part = "wait"
        /\ EventWaitNext
        /\ ShortLog'
        /\ UNCHANGED <<allVars, outputVars>>
     \/ /\ part = "output"
        /\ OutputNext
        /\ Cardinality(Interference') <= 1
        /\ ShortLife'
        /\ UNCHANGED <<eventVars, pollVars, deliveryVars, waitVars, lapsed>>
     \/ /\ part = "inbox"
        /\ WaitNext
        /\ OneRenewed'
        /\ UNCHANGED <<eventVars, pollVars, outputVars>>
  /\ UNCHANGED part

StreamsSpec == StreamsInit /\ [][StreamsNext]_streamVars /\ EventWaitFairness /\ WaitFairness
=============================================================================
