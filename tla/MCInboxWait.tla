---------------------------- MODULE MCInboxWait ----------------------------
(* InboxWait for a few agents, their waiting requests and who writes them. *)
EXTENDS InboxWait, TLC

VARIABLE part

waitPartVars == <<allVars, part>>

WaitSymmetry ==
  Permutations(Agents) \cup Permutations(Waiters) \cup Permutations(ChannelIds)
    \cup Permutations(MessageIds) \cup Permutations(ReservationIds)

(* The agents are registered when the run starts, as after RegisterAgent:  *)
(* one for the budget, every one for the signals.                          *)
PollInit ==
  /\ part \in {"budget", "signals"}
  /\ now = 1
  /\ scopeToken = 1
  /\ \E first \in Agents :
       agents = [a \in Agents |->
         IF part = "signals" \/ a = first
         THEN [execution_id |-> 1, lifecycle |-> "starting", registered_with |-> 1,
               lease_expires_at |-> 1 + Min(LeaseTimes)]
         ELSE NoAgent]
  /\ links = {}
  /\ messages = [m \in MessageIds |-> NoRow("absent")]
  /\ reservations = [r \in ReservationIds |-> NoReservation("unused")]
  /\ waiters = [w \in Waiters |-> Idle]
  /\ budget = [agent |-> [a \in Agents |-> 0], scope |-> 0]
  /\ signals = [a \in Agents |-> NoSignal]
  /\ closed = {}
  /\ pending = [a \in Agents |-> 0]
  /\ lapsed = {}

(* The budget: two requests of one agent that is registered once.          *)
Budget ==
  /\ Cardinality({a \in Agents : Registered(a)}) <= 1
  /\ \A a \in Agents : agents[a].execution_id <= 1
  /\ now <= 3

(* The signals: one request at a time, two channels, one agent that ends   *)
(* or is registered again, and no members.                                 *)
ChannelsInUse ==
  (closed \cup {signals[a].channel : a \in Agents} \cup {waiters[w].channel : w \in Waiters}) \ {None}
Signals ==
  /\ now <= 2
  /\ Cardinality({w \in Waiters : waiters[w] # Idle}) <= 1
  /\ Cardinality(ChannelsInUse) <= 2
  /\ Cardinality({a \in Agents : agents[a].execution_id > 1 \/ agents[a].lease_expires_at = 0}) <= 1
  /\ \A m \in MessageIds : messages[m].from \notin Humans

PollNext ==
  /\ UNCHANGED part
  /\ WaitNext
  /\ part = "budget" => Budget'
  /\ part = "signals" => Signals'

PollSpec == PollInit /\ [][PollNext]_waitPartVars
=============================================================================
