---------------------------- MODULE MCScopeData ----------------------------
(* What agents and members of a workspace share, channels and attachments, *)
(* and the managed sessions of one agent.  A behaviour exercises one part, *)
(* as these meet in no state.                                              *)
EXTENDS Channels, Attachments, AgentSession, TLC

CONSTANTS m1, m2, s1, s2, q1, q2,
          Parts  \* the parts that a run exercises

VARIABLE part

dataVars == <<vars, channelVars, attachmentVars, sessionVars, part>>

SameAgent == [s \in Managed |-> CHOOSE a \in Agents : TRUE]

(* Two agents are registered for good, but for "sessions".                 *)
DataInit ==
  /\ part \in Parts
  /\ now = 1
  /\ scopeToken = 1
  /\ agents = [a \in Agents |->
       IF part = "sessions" THEN NoAgent
       ELSE [execution_id |-> 1, lifecycle |-> "starting",
             lease_expires_at |-> MaxTime + 2, registered_with |-> 1]]
  /\ links = {}
  /\ messages = [m \in MessageIds |-> NoRow("absent")]
  /\ reservations = [r \in ReservationIds |-> NoReservation("unused")]
  /\ ChannelsInit
  /\ AttachmentsInit
  /\ SessionInit
  /\ part # "files" => backend = "sqlite"

(* Paging does not depend on notifications: in "history" one member posts  *)
(* and nobody subscribes, in "channels" nobody pages, there are two posts  *)
(* and two messages, numbered as they come, an agent makes one of the two  *)
(* posts at most, and only members use keys.                               *)
Simplified ==
  IF part = "history"
  THEN /\ \A c \in ChannelIds : subs[c] = {}
       /\ \A a \in Agents : Reachable(a)
       /\ \A p \in Posts : posts[p].author \in Humans /\ posts[p].key = None
  ELSE /\ pager = NoReader
       /\ Cardinality({p \in PostIds : posts[p].row # "absent"}) <= 2
       /\ \A p, q \in PostIds : q < p /\ posts[p].row # "absent" => posts[q].row # "absent"
       /\ Cardinality({p \in Posts : posts[p].author \in Agents}) <= 1
       /\ \A p \in Posts : posts[p].key = None \/ posts[p].author \in Humans
       /\ messages[m2].state # "absent" => messages[m1].state # "absent"

(* One of the two sessions is started, and its agent registered elsewhere  *)
(* once it runs; the other agent stays away.                               *)
OneSession ==
  /\ \E s \in Managed : managed[s].pc = "new"
  /\ \A a \in Agents : agents[a].execution_id > 0 => \E s \in Managed :
       AgentOfSession[s] = a /\ managed[s].pc # "new"

(* With one attachment a key decides nothing about imports, and one of two *)
(* finds the scope there.                                                  *)
(* Requests differ in nothing but their names, and start in this order.    *)
PlainImports ==
  /\ \A q \in Requests : calls'[q].op = "import" => calls'[q].key = Nobody
  /\ Cardinality({q \in Requests : calls'[q].op = "import"}) <= 1
  /\ q2 \in Requests /\ calls[q2] = NoRequest /\ calls'[q2] # NoRequest => calls[q1] # NoRequest

DataNext ==
  /\ UNCHANGED part
  /\ \/ /\ part \in {"channels", "history"} /\ ChannelsNext /\ Simplified'
        /\ UNCHANGED <<attachmentVars, sessionVars>>
     \/ /\ part = "files" /\ AttachmentsNext /\ PlainImports
        /\ UNCHANGED <<vars, channelVars, sessionVars>>
     \/ /\ part = "sessions" /\ SessionNext /\ OneSession'
        /\ UNCHANGED <<messages, reservations, channelVars, attachmentVars>>

(* The collector starts over and over where there are files: a step that   *)
(* is always due and never taken would leave the other parts without a     *)
(* fair behaviour.                                                         *)
CollectionFairness == WF_attachmentVars(part = "files" /\ StartCollection)

DataSpec ==
  DataInit /\ [][DataNext]_dataVars
  /\ AttachmentsFairness /\ CollectionFairness /\ SessionFairness
=============================================================================
