---------------------------- MODULE Escalations ----------------------------
(***************************************************************************)
(* Questions of agents to humans: the escalations table of bus/store.go,   *)
(* the pages and answers of bus/hosted_work.go, and their part of          *)
(* retention.  The answer is a message of the same transaction, under an   *)
(* idempotency key made of the escalation ID ("human-answer:" ID); here    *)
(* the key is the ID.  Clients are assumed not to send under such keys.    *)
(* Questions, options and answers are texts and left out.                  *)
(***************************************************************************)
EXTENDS Delivery

CONSTANTS
  EscalationIds,    \* random IDs: a used one never comes back
  PendingPerAgent,  \* pendingEscalationCapPerAgent
  PendingPerScope   \* pendingEscalationCapPerScope

(* An answer is sent without an expiry.                                    *)
ASSUME EscalationAssumption ==
  /\ EscalationIds \subseteq Keys
  /\ 0 \in ExpiryTimes
  /\ PendingPerAgent \in Nat \ {0}
  /\ PendingPerScope \in Nat \ {0}

VARIABLE escalations

NoEscalation(status) == [status |-> status, agent |-> None, resolved_at |-> 0]

Pending(S) == {e \in EscalationIds : escalations[e].status = "pending"
                                     /\ escalations[e].agent \in S}

AskHuman(p) ==
  /\ requireCurrentExecution(p)
  /\ Cardinality(Pending({p.agent})) < PendingPerAgent
  /\ Cardinality(Pending(Agents)) < PendingPerScope
  /\ \E e \in EscalationIds :
       /\ escalations[e].status = "absent"
       /\ escalations' = [escalations EXCEPT ![e] =
            [status |-> "pending", agent |-> p.agent, resolved_at |-> 0]]
  /\ UNCHANGED <<registryVars, deliveryVars>>

(* The answer that a resolution sends to the agent that asked.             *)
AnswerInput(e) ==
  [to |-> escalations[e].agent, mode |-> "notify", response_to |-> None,
   idempotency_key |-> e, expires_in |-> 0]

(* Fault: the resolution is committed although the answer was refused.     *)
ResolveEscalation_DropsAnswer(h, e) ==
  /\ escalations[e].status = "pending"
  /\ escalations' = [escalations EXCEPT ![e].status = "resolved", ![e].resolved_at = now]
  /\ \/ sendMessageTx(h, AnswerInput(e))
     \/ /\ Backlog(expireMessages(messages, now)) >= MessageBacklogCap
        /\ UNCHANGED messages
  /\ UNCHANGED <<registryVars, reservations>>

(* By the holder of the scope token (actor "owner") or by a member.  What  *)
(* refuses the answer rolls the resolution back.                           *)
ResolveEscalation(h, e) ==
  /\ escalations[e].status = "pending"
  /\ escalations' = [escalations EXCEPT ![e].status = "resolved", ![e].resolved_at = now]
  /\ sendMessageTx(h, AnswerInput(e))
  /\ UNCHANGED <<registryVars, reservations>>

(* A member's page of the history is a read after the scope's expiry.      *)
Messages ==
  /\ messages' = expireMessages(messages, now)
  /\ UNCHANGED <<registryVars, reservations, escalations>>

retentionEscalationCandidates(before) ==
  {e \in EscalationIds : /\ escalations[e].status = "resolved"
                         /\ escalations[e].resolved_at < before}

PruneEscalations(before, execute) ==
  escalations' = [e \in EscalationIds |->
    IF execute /\ e \in retentionEscalationCandidates(before)
    THEN NoEscalation("removed") ELSE escalations[e]]

PruneAnswered(token, before, execute) ==
  /\ PruneMessages(token, before, execute, {})
  /\ PruneEscalations(before, execute)

-----------------------------------------------------------------------------
EscalationsInit == escalations = [e \in EscalationIds |-> NoEscalation("absent")]

(* What clients do on the scope besides: they use no key of an answer, and *)
(* nothing but PruneAnswered removes rows.                                 *)
ClientStep ==
  \A m \in MessageIds :
    /\ messages'[m].idempotency_key \in EscalationIds
         => messages'[m].idempotency_key = messages[m].idempotency_key
    /\ messages'[m].state = "removed" => messages[m].state = "removed"

EscalationsNext ==
  \/ \E p \in KnownPrincipals : AskHuman(p)
  \/ \E h \in Humans, e \in EscalationIds : ResolveEscalation(h, e)
  \/ Messages
  \/ \E token \in 1..MaxTokens, before \in 1..MaxTime, execute \in BOOLEAN :
       PruneAnswered(token, before, execute)
  \/ DeliveryNext /\ ClientStep /\ UNCHANGED escalations

EscalationsSpec ==
  DeliveryInit /\ EscalationsInit /\ [][EscalationsNext]_<<vars, escalations>>

-----------------------------------------------------------------------------
(* The answer of a resolved question is a message to the agent that asked, *)
(* no more than one, written with the resolution or not at all, and        *)
(* retention with one cutoff never takes it away while the question stays. *)
AnswerStaysWithQuestion ==
  \A e \in EscalationIds :
    LET answers == {m \in MessageIds : /\ Present(messages[m])
                                       /\ messages[m].idempotency_key = e} IN
    /\ escalations[e].status = "pending" => answers = {}
    /\ escalations[e].status = "resolved" =>
         \E m \in answers : /\ answers = {m}
                            /\ messages[m].to = escalations[e].agent
                            /\ messages[m].created_at = escalations[e].resolved_at

(* Every question keeps its one answer, whether an agent or a human was    *)
(* asked (sendMessageTx, ResolveEscalation, PruneScope).                   *)
AnswersKept == ReplyPairing /\ AnswerStaysWithQuestion
=============================================================================
