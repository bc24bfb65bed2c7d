------------------------------ MODULE Archive ------------------------------
(***************************************************************************)
(* Moving a scope: ExportScope, DeleteScope and ImportScope                *)
(* (bus/archive.go, bus/scope_admin.go) over the messages, the questions   *)
(* to humans and the remote work of a scope.                               *)
(*                                                                         *)
(* An archive is a value outside the database: it may be imported long     *)
(* after the scope went on and was deleted.  It holds no execution, token, *)
(* reservation, claim or credential.  The archived board and the archived  *)
(* output streams are in TaskBoard and OutputStreams.                      *)
(*                                                                         *)
(* The rows of a deleted scope are gone, what is left of them here is that *)
(* their random IDs were used: "removed", a used principal ID, and the     *)
(* number of the last execution of an agent.                               *)
(***************************************************************************)
EXTENDS Escalations, RemoteTasks

VARIABLES
  exists,   \* the scope has its row
  archive   \* the last export, None before there is one

archiveVars == <<exists, archive>>

-----------------------------------------------------------------------------
(* Fault: a reserved message is written as it is.                          *)
archivedMessage_AsStored(msg) == [msg EXCEPT !.reservation_id = None]

(* A reservation is not archived: its messages are as before it.           *)
archivedMessage(msg) ==
  [msg EXCEPT !.reservation_id = None, !.state = PhaseOf(msg)]

(* What an export writes down of tables that expireMessages has brought up *)
(* to date.  Publications are archived without their switch.               *)
archiveOf(msgs, tks, corrs) ==
  [agents       |-> {a \in Agents : Registered(a)},
   links        |-> links,
   messages     |-> [m \in MessageIds |-> archivedMessage(msgs[m])],
   escalations  |-> escalations,
   publications |-> [p \in PublicationIds |-> publications[p].agent],
   tasks        |-> tks,
   correlations |-> corrs]

-----------------------------------------------------------------------------
(* validateArchive, by the collections it walks through.                   *)

(* The timestamps that a state allows.                                     *)
validTimestamps(msg) ==
  CASE msg.state = "queued"       -> msg.delivered_at = 0 /\ msg.acknowledged_at = 0
    [] msg.state = "delivered"    -> msg.delivered_at # 0 /\ msg.acknowledged_at = 0
    [] msg.state = "acknowledged" -> msg.delivered_at # 0 /\ msg.acknowledged_at # 0
    [] msg.state = "expired"      -> msg.expires_at # 0 /\ msg.acknowledged_at = 0
    [] OTHER                      -> FALSE

validResponse(msgs, m) ==
  IF msgs[m].mode = "response"
  THEN /\ msgs[m].response_to # None
       /\ LET request == msgs[msgs[m].response_to] IN
          /\ Present(request) /\ request.mode = "request"
          /\ request.from = msgs[m].to /\ request.to = msgs[m].from
          /\ request.response_message_id = m
  ELSE msgs[m].response_to = None

validReplyState(msgs, m) ==
  msgs[m].response_message_id # None =>
    LET response == msgs[msgs[m].response_message_id] IN
    msgs[m].mode = "request" /\ Present(response) /\ response.response_to = m

validMessages(x) ==
  LET rows == {m \in MessageIds : x.messages[m].state \notin {"absent", "removed"}} IN
  /\ \A m \in rows :
       /\ {x.messages[m].from, x.messages[m].to} \cap Agents \subseteq x.agents
       /\ validTimestamps(x.messages[m])
       /\ validResponse(x.messages, m)
       /\ validReplyState(x.messages, m)
  /\ \A m, n \in rows :
       /\ x.messages[m].idempotency_key # None
       /\ x.messages[m].idempotency_key = x.messages[n].idempotency_key
       /\ x.messages[m].from = x.messages[n].from
       => m = n
  /\ Backlog(x.messages) <= MessageBacklogCap

validEscalations(x) ==
  LET pending(S) == {e \in EscalationIds : /\ x.escalations[e].status = "pending"
                                           /\ x.escalations[e].agent \in S} IN
  /\ \A e \in EscalationIds : x.escalations[e].status \in {"pending", "resolved"} =>
       /\ x.escalations[e].agent \in x.agents
       /\ x.escalations[e].status = "resolved" => x.escalations[e].resolved_at # 0
  /\ \A a \in Agents : Cardinality(pending({a})) <= PendingPerAgent
  /\ Cardinality(pending(Agents)) <= PendingPerScope

validPublications(x) ==
  \A p \in PublicationIds : x.publications[p] # None =>
    /\ x.publications[p] \in x.agents
    /\ \A q \in PublicationIds : x.publications[q] = x.publications[p] => q = p

validRemoteTasks(x) ==
  /\ \A k \in RemoteTaskIds : x.tasks[k].state \in RemoteTaskState =>
       /\ x.tasks[k].agent \in x.agents
       /\ \E p \in PublicationIds : x.publications[p] = x.tasks[k].agent
  /\ \A c \in CorrelationKeys : x.correlations[c].task # None =>
       LET task    == x.tasks[x.correlations[c].task]
           request == x.messages[x.correlations[c].request] IN
       /\ task.state \in RemoteTaskState /\ task.principal = c[1]
       /\ Present(request) /\ request.mode = "request"
       /\ request.from = c[1] /\ request.to = task.agent
       /\ x.correlations[c].response # None =>
            /\ request.response_message_id = x.correlations[c].response
            /\ x.messages[x.correlations[c].response].response_to = x.correlations[c].request

validateArchive(x) ==
  /\ \A link \in x.links : link \subseteq x.agents /\ Cardinality(link) = 2
  /\ validMessages(x)
  /\ validEscalations(x)
  /\ validPublications(x)
  /\ validRemoteTasks(x)

-----------------------------------------------------------------------------
(* ExportScope: refused while an execution is active.  It expires messages *)
(* first, and commits that.                                                *)
ExportScope ==
  /\ exists
  /\ \A a \in Agents : ~Reachable(a)
  /\ messages' = expireMessages(messages, now)
  /\ FollowMessages
  /\ archive' = archiveOf(messages', a2aTasks', correlations')
  /\ validateArchive(archive')
  /\ UNCHANGED <<registryVars, reservations, escalations, publications, credentials, exists>>

(* Every row of the scope goes with it (ON DELETE CASCADE, and the remote  *)
(* tasks that a restriction protects before it).                           *)
DeleteScope ==
  /\ exists
  /\ exists' = FALSE
  /\ agents' = [a \in Agents |->
       [agents[a] EXCEPT !.lifecycle = "offline", !.lease_expires_at = 0]]
  /\ links' = {}
  /\ messages' = [m \in MessageIds |->
       IF Present(messages[m]) THEN NoRow("removed") ELSE messages[m]]
  /\ reservations' = deleteReservations(Held)
  /\ escalations' = [e \in EscalationIds |->
       IF escalations[e].status = "absent" THEN escalations[e] ELSE NoEscalation("removed")]
  /\ publications' = [p \in PublicationIds |-> NoPublication]
  /\ credentials' = [c \in RemotePrincipals |->
       IF credentials[c].version = 0 THEN credentials[c] ELSE NoCredential(MaxVersions)]
  /\ a2aTasks' = [k \in RemoteTaskIds |->
       IF TaskPresent(k) THEN NoRemoteTask("removed") ELSE a2aTasks[k]]
  /\ correlations' = [c \in CorrelationKeys |-> NoCorrelation]
  /\ UNCHANGED <<now, scopeToken, archive>>

(* Fault: the second pass, which sets response_to, is missing.             *)
insertedMessages_OnePass(x) ==
  [m \in MessageIds |-> IF Present(x.messages[m])
                        THEN [x.messages[m] EXCEPT !.response_to = None]
                        ELSE messages[m]]

(* The archived messages, the references between them set last.            *)
insertedMessages(x) ==
  [m \in MessageIds |-> IF Present(x.messages[m]) THEN x.messages[m] ELSE messages[m]]

(* Every archived agent is offline, under a new execution that has no      *)
(* lease and whose token nobody has.                                       *)
insertedAgents(x) ==
  [a \in Agents |->
     IF a \in x.agents
     THEN [execution_id |-> agents[a].execution_id + 1, lifecycle |-> "offline",
           lease_expires_at |-> 0, registered_with |-> 0]
     ELSE NoAgent]

(* Every publication is disabled until the owner enables it again.         *)
insertArchive(x) ==
  /\ agents' = insertedAgents(x)
  /\ links' = x.links
  /\ messages' = insertedMessages(x)
  /\ escalations' = [e \in EscalationIds |->
       IF x.escalations[e].status \in {"pending", "resolved"}
       THEN x.escalations[e] ELSE escalations[e]]
  /\ publications' = [p \in PublicationIds |->
       [agent |-> x.publications[p], enabled |-> FALSE]]
  /\ a2aTasks' = [k \in RemoteTaskIds |->
       IF x.tasks[k].state \in RemoteTaskState THEN x.tasks[k] ELSE a2aTasks[k]]
  /\ correlations' = x.correlations

(* ImportScope: refused where the scope exists; the repetition of an       *)
(* import that went through finds its marker and changes nothing.  The     *)
(* scope gets a new token.                                                 *)
ImportScope ==
  /\ ~exists
  /\ archive # None
  /\ validateArchive(archive)
  /\ scopeToken < MaxTokens
  /\ \A a \in Agents : agents[a].execution_id < MaxExecutions
  /\ insertArchive(archive)
  /\ scopeToken' = scopeToken + 1
  /\ exists' = TRUE
  /\ UNCHANGED <<now, reservations, credentials, archive>>

-----------------------------------------------------------------------------
(* PruneScope: one transaction for messages, tasks and questions.          *)
PruneScope(token, before, execute) ==
  PruneRemote(token, before, execute) /\ PruneEscalations(before, execute)

(* What happens in a scope, its questions and its remote work side by      *)
(* side; the messages that a human's answer or page expires take their     *)
(* tasks along.                                                            *)
ScopeNext ==
  \/ \E p \in KnownPrincipals : AskHuman(p) /\ UNCHANGED remoteVars
  \/ /\ \/ Messages
        \/ \E h \in Humans, e \in EscalationIds : ResolveEscalation(h, e)
     /\ FollowMessages
     /\ UNCHANGED <<publications, credentials>>
  \/ \E token \in 1..MaxTokens, before \in 1..MaxTime, execute \in BOOLEAN :
       PruneScope(token, before, execute)
  \/ RemoteStep /\ ClientStep /\ UNCHANGED escalations

ArchiveInit == exists = TRUE /\ archive = None

(* Nothing but time passes without the scope: every transaction looks for  *)
(* its row, an agent or a credential of it.                                *)
ArchiveNext ==
  \/ ExportScope
  \/ DeleteScope
  \/ ImportScope
  \/ ~exists /\ Tick /\ UNCHANGED <<deliveryVars, escalations, remoteVars, archiveVars>>

ArchiveSpec ==
  /\ DeliveryInit /\ EscalationsInit /\ RemoteInit /\ ArchiveInit
  /\ [][\/ exists /\ ScopeNext /\ UNCHANGED archiveVars
        \/ ArchiveNext]_<<vars, escalations, remoteVars, archiveVars>>

-----------------------------------------------------------------------------
(* A scope can always leave: whatever its operations made of it, in any    *)
(* order, retention and earlier imports included, the export accepts what  *)
(* it reads (validateArchive), and so will the import of that archive.     *)
Exportable ==
  exists => validateArchive(archiveOf(messages, a2aTasks, correlations))
=============================================================================
