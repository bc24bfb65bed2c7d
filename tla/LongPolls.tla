----------------------------- MODULE LongPolls ------------------------------
(* The two requests that a client holds open, GET /v1/events with a wait  *)
(* and the inbox with waitMs: they share nothing but the server.           *)
EXTENDS EventWait, InboxWait

(* A request that waits misses nothing it is told of, gives back its       *)
(* place, and does not wait on without authority (Runtime.Events and       *)
(* Runtime.ReserveInbox).                                                  *)
LongPollsSound == NothingMissed /\ PlacesReturned /\ WaitEndsWithAuthority

(* Both long polls end, whatever keeps waking them (Runtime.Events and     *)
(* Runtime.ReserveInbox).                                                  *)
LongPollsEnd == PollEnds /\ WaitsEnd
=============================================================================
