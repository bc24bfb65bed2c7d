---------------------------- MODULE AgentSession ----------------------------
(***************************************************************************)
(* Managed sessions (bus/session.go): processes that register an execution *)
(* and keep it alive with heartbeats, over a wire that delays and loses    *)
(* requests and answers.                                                   *)
(*                                                                         *)
(* The heartbeat loop and a caller of SetState exclude each other (beatMu).*)
(* Close and the end of the loop cancel what is under way, but a cancelled *)
(* request may still reach the bus. The timer fires at any time.           *)
(***************************************************************************)
EXTENDS AgentRegistry

CONSTANTS
  Managed,        \* sessions
  AgentOfSession, \* the agent every session registers
  Retrying,       \* the sessions with device authority, which retry
  SessionLease,   \* leaseMS
  RetryMargin,    \* no retry this close to the end of the lease
  MaxStates,      \* bound: SetState calls per session
  MaxLosses       \* bound: requests and answers lost

ASSUME SessionAssumption ==
  /\ AgentOfSession \in [Managed -> Agents] /\ Retrying \subseteq Managed
  /\ SessionLease \in LeaseTimes /\ {RetryMargin, MaxStates, MaxLosses} \subseteq Nat

VARIABLES
  managed,   \* the sessions
  wire,      \* requests on their way; waited says whether somebody still waits
  losses     \* requests and answers lost so far (bound)

sessionVars == <<managed, wire, losses>>

NoAnswer == [kind |-> "none", lease |-> 0]

(* pc is the loop and caller the caller of SetState; acked is history, the *)
(* lifecycle last confirmed to a caller.                                   *)
NewSession ==
  [pc |-> "new", caller |-> "idle", execution |-> 0, lifecycle |-> "starting", lease |-> 0,
   deadline |-> 0, closed |-> FALSE, cancelled |-> FALSE, err |-> FALSE, want |-> "starting",
   answers |-> [who \in {"loop", "caller"} |-> NoAnswer], states |-> 0, acked |-> "starting"]

SessionInit == managed = [s \in Managed |-> NewSession] /\ wire = {} /\ losses = 0

PrincipalOf(s) == [agent |-> AgentOfSession[s], execution |-> managed[s].execution]
Request(s, who, kind, lifecycle) ==
  [session |-> s, who |-> who, kind |-> kind, lifecycle |-> lifecycle, waited |-> TRUE]
Abandon(s, who) ==
  {IF r.session = s /\ r.who = who THEN [r EXCEPT !.waited = FALSE] ELSE r : r \in wire}
BeatFree(s) == managed[s].pc \notin {"beat", "retiring"} /\ managed[s].caller # "beat"
Running(s) == managed[s].pc \in {"idle", "beat"}

-----------------------------------------------------------------------------
(* The wire                                                                *)

(* The bus handles a request; the answer arrives, is lost on the way, or   *)
(* nobody waits for it any more.                                           *)
Answer(r, kind, lease) ==
  \/ /\ managed' = IF r.waited
                   THEN [managed EXCEPT ![r.session].answers[r.who] = [kind |-> kind, lease |-> lease]]
                   ELSE managed
     /\ UNCHANGED losses
  \/ /\ r.waited /\ losses < MaxLosses /\ losses' = losses + 1
     /\ managed' = [managed EXCEPT ![r.session].answers[r.who] = [kind |-> "lost", lease |-> 0]]

(* Heartbeat and RetireAgent at the bus.                                   *)
Handle(r) ==
  LET p == PrincipalOf(r.session)
      row == agents[p.agent]
  IN /\ wire' = wire \ {r}
     /\ \/ /\ r.kind = "heartbeat" /\ HeartbeatRow(p, r.lifecycle, SessionLease)
           /\ Answer(r, "ok", now + SessionLease)
        \/ /\ r.kind = "heartbeat" /\ ~requireCurrentExecution(p) /\ UNCHANGED registryVars
           /\ Answer(r, "refused", 0)
        \/ /\ r.kind = "retire" /\ RetireRow(p)
           /\ Answer(r, "ok", 0)
        \/ /\ r.kind = "retire" /\ row.execution_id = p.execution /\ row.lease_expires_at = 0
           /\ UNCHANGED registryVars /\ Answer(r, "ok", 0)
        \/ /\ r.kind = "retire" /\ row.execution_id # p.execution
           /\ UNCHANGED registryVars /\ Answer(r, "refused", 0)

(* The client waits 30 seconds (httpClient); the request goes on without.  *)
RequestTimesOut(r) ==
  /\ r.waited /\ losses < MaxLosses /\ losses' = losses + 1
  /\ managed' = [managed EXCEPT ![r.session].answers[r.who] = [kind |-> "lost", lease |-> 0]]
  /\ wire' = Abandon(r.session, r.who)
  /\ UNCHANGED registryVars

(* A request that nobody waits for any more never arrives.                 *)
LoseRequest(r) ==
  /\ ~r.waited
  /\ wire' = wire \ {r}
  /\ UNCHANGED <<registryVars, managed, losses>>

-----------------------------------------------------------------------------
(* The loop                                                                *)

(* StartAgentSession registers the execution; without an answer there is   *)
(* no session, and its execution ends with the lease.                      *)
StartAgentSession(s) ==
  /\ managed[s].pc = "new"
  /\ RegisterRow(scopeToken, AgentOfSession[s], SessionLease, {}, FALSE)
  /\ \/ /\ managed' = [managed EXCEPT ![s].pc = "starting",
                         ![s].execution = agents[AgentOfSession[s]].execution_id + 1]
        /\ wire' = wire \cup {Request(s, "loop", "heartbeat", "starting")}
        /\ UNCHANGED losses
     \/ /\ losses < MaxLosses /\ losses' = losses + 1
        /\ managed' = [managed EXCEPT ![s].pc = "failed"]
        /\ UNCHANGED wire

(* Fault: the lease is counted from the moment the answer arrives.         *)
heartbeatExpiry_FromAnswer(answer) == now + SessionLease

(* The lease as the bus granted it.                                        *)
heartbeatExpiry(answer) == answer.lease

(* The initial heartbeat: without it the execution is retired again.       *)
Started(s) ==
  LET answer == managed[s].answers["loop"]
  IN /\ managed[s].pc = "starting" /\ answer.kind # "none"
     /\ managed' = [managed EXCEPT
          ![s].answers["loop"] = NoAnswer,
          ![s].pc = IF answer.kind = "ok" THEN "idle" ELSE "retiring",
          ![s].lease = heartbeatExpiry(answer), ![s].deadline = now + SessionLease,
          ![s].closed = answer.kind # "ok", ![s].err = answer.kind # "ok"]
     /\ wire' = IF answer.kind = "ok" THEN wire
                ELSE wire \cup {Request(s, "loop", "retire", "offline")}
     /\ UNCHANGED <<registryVars, losses>>

(* The timer fires: sendHeartbeat waits for beatMu and reads the state. On *)
(* a closed session, or with a cancelled context, it fails at once, which  *)
(* counts as an error of the heartbeat unless the context is cancelled.    *)
sendHeartbeat(s) ==
  /\ managed[s].pc = "idle" /\ BeatFree(s)
  /\ IF managed[s].closed \/ managed[s].cancelled
     THEN /\ managed' = [managed EXCEPT ![s].pc = "ending", ![s].err = @ \/ ~managed[s].cancelled]
          /\ UNCHANGED wire
     ELSE /\ managed' = [managed EXCEPT ![s].pc = "beat"]
          /\ wire' = wire \cup {Request(s, "loop", "heartbeat", managed[s].lifecycle)}
  /\ UNCHANGED <<registryVars, losses>>

(* Fault: a refused heartbeat is tried again.                              *)
Survives_Refusal(s, kind) == kind # "ok"

(* A failed heartbeat ends the loop, unless it may be transient and there  *)
(* is time left in the lease.                                              *)
Survives(s, kind) ==
  kind = "lost" /\ s \in Retrying /\ now + RetryMargin < managed[s].deadline

HeartbeatAnswered(s) ==
  LET answer == managed[s].answers["loop"]
      ended == answer.kind # "ok" /\ (managed[s].cancelled \/ ~Survives(s, answer.kind))
  IN /\ managed[s].pc = "beat" /\ answer.kind # "none"
     /\ managed' = [managed EXCEPT
          ![s].answers["loop"] = NoAnswer,
          ![s].pc = IF ended THEN "ending" ELSE "idle",
          ![s].lease = IF answer.kind = "ok" THEN heartbeatExpiry(answer) ELSE @,
          ![s].deadline = IF answer.kind = "ok" THEN now + SessionLease ELSE @,
          ![s].err = @ \/ (ended /\ ~managed[s].cancelled)]
     /\ UNCHANGED <<registryVars, wire, losses>>

(* A cancelled loop leaves its select, or gives up its heartbeat.          *)
LoopCancelled(s) ==
  /\ managed[s].cancelled /\ Running(s)
  /\ managed' = [managed EXCEPT ![s].pc = "ending", ![s].answers["loop"] = NoAnswer]
  /\ wire' = Abandon(s, "loop")
  /\ UNCHANGED <<registryVars, losses>>

(* The deferred function: closes, waits for beatMu, retires.               *)
EndLoop(s) ==
  /\ managed[s].pc = "ending"
  /\ managed' = [managed EXCEPT ![s].pc = "lock", ![s].closed = TRUE, ![s].cancelled = TRUE]
  /\ UNCHANGED <<registryVars, wire, losses>>

Retire(s) ==
  /\ managed[s].pc = "lock" /\ BeatFree(s)
  /\ managed' = [managed EXCEPT ![s].pc = "retiring"]
  /\ wire' = wire \cup {Request(s, "loop", "retire", "offline")}
  /\ UNCHANGED <<registryVars, losses>>

(* Fault: the outcome of the retirement is not looked at.                  *)
Retired_Ignored(s) ==
  /\ managed[s].pc = "retiring" /\ managed[s].answers["loop"].kind # "none"
  /\ managed' = [managed EXCEPT ![s].pc = "done", ![s].answers["loop"] = NoAnswer]
  /\ UNCHANGED <<registryVars, wire, losses>>

(* The session is done; a retirement that timed out was abandoned.         *)
Retired(s) ==
  /\ managed[s].pc = "retiring" /\ managed[s].answers["loop"].kind # "none"
  /\ managed' = [managed EXCEPT ![s].pc = "done", ![s].answers["loop"] = NoAnswer,
                                ![s].err = @ \/ managed[s].answers["loop"].kind # "ok"]
  /\ UNCHANGED <<registryVars, wire, losses>>

RetireTimesOut(s) ==
  /\ managed[s].pc = "retiring" /\ losses < MaxLosses /\ losses' = losses + 1
  /\ managed' = [managed EXCEPT ![s].pc = "done", ![s].err = TRUE, ![s].answers["loop"] = NoAnswer]
  /\ wire' = Abandon(s, "loop")
  /\ UNCHANGED registryVars

-----------------------------------------------------------------------------
(* The callers                                                             *)

SetState(s, lifecycle) ==
  /\ managed[s].pc \notin {"new", "failed", "starting"} /\ managed[s].caller = "idle"
  /\ ~managed[s].closed /\ managed[s].states < MaxStates
  /\ managed' = [managed EXCEPT ![s].caller = "waiting", ![s].want = lifecycle, ![s].states = @ + 1]
  /\ UNCHANGED <<registryVars, wire, losses>>

(* With beatMu, SetState looks again whether the session was closed.       *)
SendState(s) ==
  /\ managed[s].caller = "waiting" /\ BeatFree(s)
  /\ IF managed[s].closed
     THEN managed' = [managed EXCEPT ![s].caller = "idle"] /\ UNCHANGED wire
     ELSE /\ managed' = [managed EXCEPT ![s].caller = "beat"]
          /\ wire' = wire \cup {Request(s, "caller", "heartbeat", managed[s].want)}
  /\ UNCHANGED <<registryVars, losses>>

(* Fault: the next heartbeats go on with the former state.                 *)
StateAnswered_NotKept(s) ==
  LET answer == managed[s].answers["caller"]
  IN /\ managed[s].caller = "beat" /\ answer.kind # "none"
     /\ managed' = [managed EXCEPT
          ![s].caller = "idle", ![s].answers["caller"] = NoAnswer,
          ![s].lease = IF answer.kind = "ok" THEN heartbeatExpiry(answer) ELSE @,
          ![s].acked = IF answer.kind = "ok" THEN managed[s].want ELSE @]
     /\ UNCHANGED <<registryVars, wire, losses>>

StateAnswered(s) ==
  LET answer == managed[s].answers["caller"]
  IN /\ managed[s].caller = "beat" /\ answer.kind # "none"
     /\ managed' = [managed EXCEPT
          ![s].caller = "idle", ![s].answers["caller"] = NoAnswer,
          ![s].lease = IF answer.kind = "ok" THEN heartbeatExpiry(answer) ELSE @,
          ![s].lifecycle = IF answer.kind = "ok" THEN managed[s].want ELSE @,
          ![s].acked = IF answer.kind = "ok" THEN managed[s].want ELSE @]
     /\ UNCHANGED <<registryVars, wire, losses>>

(* The caller's context ends, or the session's, which SetState follows.    *)
StateCancelled(s) ==
  /\ managed[s].caller = "beat"
  /\ managed' = [managed EXCEPT ![s].caller = "idle", ![s].answers["caller"] = NoAnswer]
  /\ wire' = Abandon(s, "caller")
  /\ UNCHANGED <<registryVars, losses>>

(* The context that the session was started with ends.                     *)
ContextEnds(s) ==
  /\ Running(s) /\ ~managed[s].cancelled
  /\ managed' = [managed EXCEPT ![s].cancelled = TRUE]
  /\ UNCHANGED <<registryVars, wire, losses>>

(* Another process registers the same agent and replaces the execution.    *)
RegisterElsewhere(a, leaseMS) ==
  /\ RegisterRow(scopeToken, a, leaseMS, {}, FALSE)
  /\ UNCHANGED sessionVars

(* Close marks the session and then cancels its context.                   *)
Close(s) ==
  /\ managed[s].pc \notin {"new", "failed", "starting"} /\ ~managed[s].closed
  /\ managed' = [managed EXCEPT ![s].closed = TRUE]
  /\ UNCHANGED <<registryVars, wire, losses>>

CloseCancels(s) ==
  /\ managed[s].closed /\ ~managed[s].cancelled /\ managed[s].pc # "done"
  /\ managed' = [managed EXCEPT ![s].cancelled = TRUE]
  /\ UNCHANGED <<registryVars, wire, losses>>

-----------------------------------------------------------------------------
SessionStep(s) ==
  \/ Started(s) \/ HeartbeatAnswered(s) \/ LoopCancelled(s) \/ EndLoop(s) \/ Retire(s) \/ Retired(s)
  \/ SendState(s) \/ StateAnswered(s) \/ CloseCancels(s)

SessionNext ==
  \/ \E s \in Managed :
       \/ StartAgentSession(s) \/ sendHeartbeat(s) \/ SessionStep(s) \/ RetireTimesOut(s)
       \/ StateCancelled(s) \/ ContextEnds(s) \/ Close(s)
       \/ \E lifecycle \in ReportedLifecycles : SetState(s, lifecycle)
  \/ \E r \in wire : Handle(r) \/ RequestTimesOut(r) \/ LoseRequest(r)
  \/ \E a \in Agents, leaseMS \in LeaseTimes : RegisterElsewhere(a, leaseMS)
  \/ (Tick \/ RotateRows) /\ UNCHANGED sessionVars

(* Goroutines run, timers fire, and the bus answers a request that waits.  *)
SessionFairness ==
  /\ \A s \in Managed : /\ WF_<<registryVars, sessionVars>>(SessionStep(s))
                        /\ WF_<<registryVars, sessionVars>>(sendHeartbeat(s))
  /\ \A s \in Managed, who \in {"loop", "caller"} :
       WF_<<registryVars, sessionVars>>(\E r \in wire :
         r.session = s /\ r.who = who /\ r.waited /\ Handle(r))

SessionSpec ==
  RegistryInit /\ SessionInit /\ [][SessionNext]_<<registryVars, sessionVars>> /\ SessionFairness

-----------------------------------------------------------------------------
(* When Close reports success the execution has lost its authority for     *)
(* good, whatever heartbeats are still on their way.                       *)
CloseMeansRetired ==
  \A s \in Managed : managed[s].pc = "done" /\ ~managed[s].err =>
    ~requireCurrentExecution(PrincipalOf(s))

(* LeaseExpiresAt never promises more than the bus granted ("without       *)
(* inventing extra authority", bus/session.go), as long as the execution   *)
(* was not ended from elsewhere.                                           *)
LeaseNotInvented ==
  \A s \in Managed :
    /\ Running(s) /\ ~managed[s].closed
    /\ agents[AgentOfSession[s]].execution_id = managed[s].execution
    /\ agents[AgentOfSession[s]].lease_expires_at # 0
    => managed[s].lease <= agents[AgentOfSession[s]].lease_expires_at

(* A session that is closed, whose context ended or whose execution was    *)
(* replaced, revoked or ran out, comes to its end, although requests and   *)
(* answers are lost: none stays in between for ever.                       *)
SessionEnds ==
  <>[](\A s \in Managed :
         (\/ managed[s].closed \/ managed[s].cancelled
          \/ Running(s) /\ ~requireCurrentExecution(PrincipalOf(s)))
         => managed[s].pc = "done")

(* The state that SetState confirmed is the one the bus shows in the end,  *)
(* although heartbeats that were cancelled may overwrite it for a while.   *)
ConfirmedStateHolds ==
  <>[](\A s \in Managed :
         Running(s) /\ managed[s].caller = "idle" /\ requireCurrentExecution(PrincipalOf(s))
           => agents[AgentOfSession[s]].lifecycle = managed[s].acked)

(* What a session tells its user is true of the bus (Close and             *)
(* LeaseExpiresAt).                                                        *)
SessionHonest == CloseMeansRetired /\ LeaseNotInvented

(* A session comes to rest in agreement with the bus (heartbeat, SetState  *)
(* and Close).                                                             *)
SessionSettles == SessionEnds /\ ConfirmedStateHolds
=============================================================================
