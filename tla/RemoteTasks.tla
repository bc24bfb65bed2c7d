---------------------------- MODULE RemoteTasks ----------------------------
(***************************************************************************)
(* Work from outside the scope: A2A publications, the scoped credentials   *)
(* of remote principals, their tasks and the correlations of their         *)
(* messages with bus messages (bus/a2a_*.go, bus/scoped_credentials.go,    *)
(* bus/retention_a2a.go), over Delivery.                                   *)
(*                                                                         *)
(* A credential is authenticated before the transaction that uses it; what *)
(* arrives there is a principal and the version of its secret, current or  *)
(* not.  Bodies have one size, so that the caps on bytes are those on      *)
(* counts; contexts, which only refuse a mismatch, are left out.           *)
(***************************************************************************)
EXTENDS Delivery

CONSTANTS
  PublicationIds, RemoteTaskIds,  \* random IDs
  CredentialCap,                  \* scopedCredentialCapPerScope
  PrincipalMessageLimit,          \* A2APrincipalLimits.MessageLimit
  MaxRemoteBacklog,               \* maxRemoteBacklogMessages
  MaxVersions                     \* bound: secrets issued to a principal

(* The message of a principal has no expiry.                               *)
ASSUME RemoteAssumption ==
  /\ 0 \in ExpiryTimes
  /\ None \notin PublicationIds \cup RemoteTaskIds
  /\ CredentialCap \in Nat
  /\ PrincipalMessageLimit \in Nat
  /\ MaxRemoteBacklog \in Nat
  /\ MaxVersions \in Nat

VARIABLES publications, credentials, a2aTasks, correlations

remoteVars == <<publications, credentials, a2aTasks, correlations>>

TaskTerminal    == {"completed", "failed", "canceled", "rejected"}
RemoteTaskState == {"submitted", "working", "input-required"} \cup TaskTerminal
CorrelationKeys == RemotePrincipals \X Keys

NoPublication == [agent |-> None, enabled |-> FALSE]
NoCredential(version) == [publication |-> None, version |-> version, enabled |-> FALSE]
NoRemoteTask(state) ==
  [state |-> state, principal |-> None, agent |-> None, updated_at |-> 0]
NoCorrelation ==
  [task |-> None, asked |-> None, request |-> None, response |-> None]

Credentials        == {c \in RemotePrincipals : credentials[c].publication # None}
TaskPresent(k)     == a2aTasks[k].state \in RemoteTaskState
CorrelationsOf(k)  == {c \in CorrelationKeys : correlations[c].task = k}
RequestsOf(k)      == {correlations[c].request : c \in CorrelationsOf(k)}
TaskMessages(k)    ==
  (RequestsOf(k) \cup {correlations[c].response : c \in CorrelationsOf(k)}) \ {None}

validA2ATaskTransition(from, to) ==
  \/ from = to
  \/ from = "submitted" /\ to \in {"working", "input-required"} \cup TaskTerminal
  \/ from = "working" /\ to \in {"input-required"} \cup TaskTerminal
  \/ from = "input-required" /\ to \in {"working"} \cup TaskTerminal

requireCurrentA2APrincipal(c, version) ==
  /\ credentials[c].enabled
  /\ version = credentials[c].version
  /\ publications[credentials[c].publication].enabled

-----------------------------------------------------------------------------
(* What the operations of the inbox do to the task of a message of theirs. *)

(* Fault: an answer completes whatever state the task is in.               *)
transitionA2ATaskForMessage_Always(task, failed, answered, delivered) ==
  IF answered THEN [task EXCEPT !.state = "completed", !.updated_at = now']
  ELSE IF delivered /\ task.state = "submitted"
  THEN [task EXCEPT !.state = "working", !.updated_at = now']
  ELSE task

(* Fault: nothing happens to the task when its request is delivered.       *)
transitionA2ATaskForMessage_NotStarted(task, failed, answered, delivered) ==
  IF failed /\ task.state \notin TaskTerminal
  THEN [task EXCEPT !.state = "failed", !.updated_at = now']
  ELSE IF answered /\ task.state \notin TaskTerminal \cup {"input-required"}
  THEN [task EXCEPT !.state = "completed", !.updated_at = now']
  ELSE task

(* A request that expired undelivered fails its task, an answer completes  *)
(* it unless it waits for input, the first delivery starts it.             *)
transitionA2ATaskForMessage(task, failed, answered, delivered) ==
  IF failed /\ task.state \notin TaskTerminal
  THEN [task EXCEPT !.state = "failed", !.updated_at = now']
  ELSE IF answered /\ task.state \notin TaskTerminal \cup {"input-required"}
  THEN [task EXCEPT !.state = "completed", !.updated_at = now']
  ELSE IF delivered /\ task.state = "submitted"
  THEN [task EXCEPT !.state = "working", !.updated_at = now']
  ELSE task

Failed(q)    == messages[q].state \in Active /\ messages[q].delivered_at = 0
                /\ messages'[q].state = "expired"
Answered(q)  == messages[q].response_message_id = None
                /\ messages'[q].response_message_id # None
FirstSeen(q) == messages[q].delivered_at = 0 /\ messages'[q].delivered_at # 0

FollowMessages ==
  /\ correlations' = [c \in CorrelationKeys |->
       IF correlations[c].request # None /\ Answered(correlations[c].request)
       THEN [correlations[c] EXCEPT
               !.response = messages'[correlations[c].request].response_message_id]
       ELSE correlations[c]]
  /\ a2aTasks' = [k \in RemoteTaskIds |->
       IF TaskPresent(k)
       THEN transitionA2ATaskForMessage(a2aTasks[k],
              \E q \in RequestsOf(k) : Failed(q), \E q \in RequestsOf(k) : Answered(q),
              \E q \in RequestsOf(k) : FirstSeen(q))
       ELSE a2aTasks[k]]

-----------------------------------------------------------------------------
(* The owner's operations.                                                 *)

CreateAgentCardPublication(token, a) ==
  /\ requireScopeCredential(token)
  /\ Registered(a)
  /\ \A p \in PublicationIds : publications[p].agent # a
  /\ \E p \in PublicationIds :
       /\ publications[p] = NoPublication
       /\ publications' = [publications EXCEPT ![p] = [agent |-> a, enabled |-> TRUE]]
  /\ UNCHANGED <<vars, credentials, a2aTasks, correlations>>

SetAgentCardPublicationEnabled(token, p, enabled) ==
  /\ requireScopeCredential(token)
  /\ publications[p].agent # None
  /\ publications' = [publications EXCEPT ![p].enabled = enabled]
  /\ UNCHANGED <<vars, credentials, a2aTasks, correlations>>

CreateA2APrincipal(token, p) ==
  /\ requireScopeCredential(token)
  /\ publications[p].agent # None
  /\ Cardinality(Credentials) < CredentialCap
  /\ \E c \in RemotePrincipals :
       /\ credentials[c].version = 0
       /\ credentials' = [credentials EXCEPT ![c] =
            [publication |-> p, version |-> 1, enabled |-> TRUE]]
  /\ UNCHANGED <<vars, publications, a2aTasks, correlations>>

RotateA2APrincipal(token, c) ==
  /\ requireScopeCredential(token)
  /\ c \in Credentials
  /\ credentials[c].version < MaxVersions
  /\ credentials' = [credentials EXCEPT ![c].version = @ + 1]
  /\ UNCHANGED <<vars, publications, a2aTasks, correlations>>

SetA2APrincipalEnabled(token, c, enabled) ==
  /\ requireScopeCredential(token)
  /\ c \in Credentials
  /\ credentials' = [credentials EXCEPT ![c].enabled = enabled]
  /\ UNCHANGED <<vars, publications, a2aTasks, correlations>>

-----------------------------------------------------------------------------
(* The principal's operations.                                             *)

UnfinishedOf(c) ==
  {d \in CorrelationKeys : /\ d[1] = c /\ correlations[d].task # None
                           /\ a2aTasks[correlations[d].task].state \notin TaskTerminal}

(* Fault: what an agent has received no longer counts.                     *)
RemoteActive_QueuedOnly(msgs) ==
  {m \in MessageIds : msgs[m].from \in RemotePrincipals /\ msgs[m].state = "queued"}

RemoteActive(msgs) ==
  {m \in MessageIds : msgs[m].from \in RemotePrincipals /\ msgs[m].state \in Active}

RequestInput(agent, key) ==
  [to |-> agent, mode |-> "request", response_to |-> None,
   idempotency_key |-> key, expires_in |-> 0]

(* The task a message opens, or the one it continues, which has to wait    *)
(* for input and belong to the same principal and agent.                   *)
TaskFor(c, agent, asked) ==
  IF asked = None THEN {k \in RemoteTaskIds : a2aTasks[k].state = "absent"}
  ELSE {k \in {asked} : /\ a2aTasks[k].principal = c
                        /\ a2aTasks[k].agent = agent
                        /\ a2aTasks[k].state = "input-required"}

(* AcceptA2AMessage: the client's message ID, seen before with the same    *)
(* content, returns the task it opened; with other content it is refused.  *)
AcceptA2AMessage(c, version, key, asked) ==
  LET prior == correlations[<<c, key>>]
      agent == publications[credentials[c].publication].agent
      msgs  == expireMessages(messages, now) IN
  /\ requireCurrentA2APrincipal(c, version)
  /\ \/ /\ prior.task # None /\ prior.asked = asked
        /\ messages' = msgs
        /\ FollowMessages
     \/ /\ prior.task = None
        /\ Cardinality(UnfinishedOf(c)) < PrincipalMessageLimit
        /\ Cardinality(RemoteActive(msgs)) < MaxRemoteBacklog
        /\ sendMessageTx(c, RequestInput(agent, key))
        /\ \E k \in TaskFor(c, agent, asked), m \in MessageIds :
             /\ messages'[m].from = c /\ messages'[m].idempotency_key = key
             /\ a2aTasks' = [a2aTasks EXCEPT ![k] =
                  [state |-> IF asked = None THEN "submitted" ELSE "working",
                   principal |-> c, agent |-> agent, updated_at |-> now]]
             /\ correlations' = [correlations EXCEPT ![<<c, key>>] =
                  [task |-> k, asked |-> asked, request |-> m, response |-> None]]
  /\ UNCHANGED <<registryVars, reservations, publications, credentials>>

(* Reading a task or the usage of the principals expires messages first.   *)
A2ATask(c, version) ==
  /\ requireCurrentA2APrincipal(c, version)
  /\ messages' = expireMessages(messages, now)
  /\ FollowMessages
  /\ UNCHANGED <<registryVars, reservations, publications, credentials>>

SetA2ATaskState(c, version, k, state) ==
  /\ requireCurrentA2APrincipal(c, version)
  /\ a2aTasks[k].principal = c
  /\ validA2ATaskTransition(a2aTasks[k].state, state)
  /\ a2aTasks[k].state # state
  /\ a2aTasks' = [a2aTasks EXCEPT ![k].state = state, ![k].updated_at = now]
  /\ UNCHANGED <<vars, publications, credentials, correlations>>

-----------------------------------------------------------------------------
(* A task goes with its correlations once it is terminal and every message *)
(* of theirs may go.                                                       *)
retentionA2ACandidates(before, candidates) ==
  {k \in RemoteTaskIds : /\ a2aTasks[k].state \in TaskTerminal
                         /\ a2aTasks[k].updated_at < before
                         /\ TaskMessages(k) \subseteq candidates}

(* Fault: only tasks that are open protect their messages.                 *)
RetainedMessages_Open(tasks) ==
  UNION {TaskMessages(k) : k \in {k \in RemoteTaskIds :
                                    TaskPresent(k) /\ a2aTasks[k].state \notin TaskTerminal}}

(* The messages that the tasks which stay take out of the candidates.      *)
RetainedMessages(tasks) ==
  UNION {TaskMessages(k) : k \in {k \in RemoteTaskIds : TaskPresent(k)} \ tasks}

PruneRemote(token, before, execute) ==
  LET msgs       == expireMessages(messages, now)
      candidates == retentionMessageCandidates(msgs, before)
      tasks      == retentionA2ACandidates(before, candidates) IN
  /\ PruneMessages(token, before, execute, RetainedMessages(tasks))
  /\ IF execute
     THEN /\ a2aTasks' = [k \in RemoteTaskIds |->
               IF k \in tasks THEN NoRemoteTask("removed") ELSE a2aTasks[k]]
          /\ correlations' = [c \in CorrelationKeys |->
               IF correlations[c].task \in tasks THEN NoCorrelation ELSE correlations[c]]
     ELSE UNCHANGED <<a2aTasks, correlations>>
  /\ UNCHANGED <<publications, credentials>>

-----------------------------------------------------------------------------
RemoteInit ==
  /\ publications = [p \in PublicationIds |-> NoPublication]
  /\ credentials = [c \in RemotePrincipals |-> NoCredential(0)]
  /\ a2aTasks = [k \in RemoteTaskIds |-> NoRemoteTask("absent")]
  /\ correlations = [c \in CorrelationKeys |-> NoCorrelation]

OwnerNext ==
  \E token \in 1..MaxTokens :
    \/ \E a \in Agents : CreateAgentCardPublication(token, a)
    \/ \E p \in PublicationIds, enabled \in BOOLEAN :
         SetAgentCardPublicationEnabled(token, p, enabled)
    \/ \E p \in PublicationIds : CreateA2APrincipal(token, p)
    \/ \E c \in RemotePrincipals : RotateA2APrincipal(token, c)
    \/ \E c \in RemotePrincipals, enabled \in BOOLEAN :
         SetA2APrincipalEnabled(token, c, enabled)

(* The steps of the scope take their tasks along, and a new scope token    *)
(* disables every credential.                                              *)
RemoteStep ==
  \/ OwnerNext
  \/ \E c \in RemotePrincipals, version \in 1..MaxVersions :
       \/ \E key \in Keys, asked \in RemoteTaskIds \cup {None} :
            AcceptA2AMessage(c, version, key, asked)
       \/ A2ATask(c, version)
       \/ \E k \in RemoteTaskIds, state \in RemoteTaskState :
            SetA2ATaskState(c, version, k, state)
  \/ /\ DeliveryNext
     /\ \A m \in MessageIds : messages'[m].state = "removed" => messages[m].state = "removed"
     /\ FollowMessages
     /\ credentials' = [c \in RemotePrincipals |->
          [credentials[c] EXCEPT !.enabled = @ /\ scopeToken' = scopeToken]]
     /\ UNCHANGED publications

RemoteNext ==
  \/ RemoteStep
  \/ \E token \in 1..MaxTokens, before \in 1..MaxTime, execute \in BOOLEAN :
       PruneRemote(token, before, execute)

RemoteSpec == DeliveryInit /\ RemoteInit /\ [][RemoteNext]_<<vars, remoteVars>>

-----------------------------------------------------------------------------
(* A remote message keeps what it stands for: each correlation names a     *)
(* task that is there, a request of that principal under the client's ID,  *)
(* and its answer exactly when the request has one.  Neither retention nor *)
(* a late answer separates the three, in whatever order the task, the      *)
(* request and the answer finish.                                          *)
CorrelationsHold ==
  \A c \in CorrelationKeys : correlations[c].task # None =>
    /\ TaskPresent(correlations[c].task)
    /\ a2aTasks[correlations[c].task].principal = c[1]
    /\ LET request == messages[correlations[c].request] IN
       /\ Present(request)
       /\ request.from = c[1] /\ request.idempotency_key = c[2]
       /\ request.response_message_id = correlations[c].response
       /\ correlations[c].response # None => Present(messages[correlations[c].response])

(* The state that a remote principal sees never runs ahead of delivery nor *)
(* stays behind it: a submitted task has one request, which is waiting and *)
(* was never handed to the agent of the task.                              *)
SubmittedIsWaiting ==
  \A k \in RemoteTaskIds : a2aTasks[k].state = "submitted" =>
    /\ Cardinality(RequestsOf(k)) = 1
    /\ \A q \in RequestsOf(k) : /\ messages[q].state \in {"queued", "reserved"}
                                /\ messages[q].delivered_at = 0
                                /\ messages[q].to = a2aTasks[k].agent

(* A task moves along the A2A life cycle and a finished one stays as it    *)
(* is, also when the agent answers an earlier message afterwards.          *)
TaskTransitionsLegal ==
  [][\A k \in RemoteTaskIds :
       TaskPresent(k) /\ TaskPresent(k)'
         => validA2ATaskTransition(a2aTasks[k].state, a2aTasks'[k].state)]_<<vars, remoteVars>>

(* No principal has more unfinished messages than its limit, nor all of    *)
(* them together more than the remote part of the backlog: redelivery and  *)
(* late answers never make finished work count again.                      *)
RemoteShareBounded ==
  /\ Cardinality({m \in MessageIds : messages[m].from \in RemotePrincipals
                                    /\ messages[m].state \in Active}) <= MaxRemoteBacklog
  /\ \A c \in RemotePrincipals : Cardinality(UnfinishedOf(c)) <= PrincipalMessageLimit

(* Remote tasks follow the messages they stand for, whatever expires, is   *)
(* delivered late or removed (transitionA2ATaskForMessage,                 *)
(* retentionA2ACandidates).                                                *)
TasksFollowMessages == CorrelationsHold /\ SubmittedIsWaiting

(* The backlog of the scope is bounded, and remote work cannot fill it     *)
(* (sendMessageTx, AcceptA2AMessage).                                      *)
BacklogShared == BacklogBounded /\ RemoteShareBounded
=============================================================================
