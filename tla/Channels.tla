------------------------------ MODULE Channels ------------------------------
(***************************************************************************)
(* Shared channels of one scope (bus/channels.go and its transport) over   *)
(* the message inbox: a post and the notifications of its subscribers are  *)
(* one transaction.  A post is its channel, thread, author, key and time;  *)
(* IDs are random, so their order says nothing about time.  Retention      *)
(* removes whole threads in the transaction that removes messages.         *)
(***************************************************************************)
EXTENDS Delivery

CONSTANTS
  ChannelIds,        \* channels by name
  PostIds,           \* random post IDs, ordered as strings are
  HistoryLimits,     \* the limit values of a history request
  MaxChannels,       \* 100 per scope
  MaxSubscribers,    \* 128 per channel
  MaxPosts,          \* 65536 retained per scope
  Week               \* notifications expire after 7 days, posts stay that long

ASSUME ChannelsAssumption ==
  /\ PostIds \subseteq Nat \ {0}
  /\ HistoryLimits \subseteq Nat \ {0}
  /\ {MaxChannels, MaxSubscribers, MaxPosts} \subseteq Nat
  /\ Week \in Nat \ {0}

VARIABLES
  channels,   \* the channels table
  subs,       \* channel_subscriptions
  posts,      \* channel_posts
  notices,    \* the post that the body of a notification names, or 0
  pager       \* a reader that pages through the roots of a channel

channelVars == <<channels, subs, posts, notices, pager>>

NoPost(row) == [row |-> row, channel |-> None, thread |-> 0, author |-> None,
                key |-> None, created_at |-> 0, audience |-> {}]

(* due: the roots that were there when the reader began and that it has    *)
(* not seen; cursor: where it goes on.                                     *)
NoReader == [channel |-> None, due |-> {}, cursor |-> 0]

Posts == {p \in PostIds : posts[p].row = "present"}
Roots(c) == {p \in Posts : posts[p].channel = c /\ posts[p].thread = 0}
RootOf(p) == IF posts[p].thread = 0 THEN p ELSE posts[p].thread

ChannelsInit ==
  /\ channels = {}
  /\ subs = [c \in ChannelIds |-> {}]
  /\ posts = [p \in PostIds |-> NoPost("absent")]
  /\ notices = [m \in MessageIds |-> 0]
  /\ pager = NoReader

-----------------------------------------------------------------------------
CreateChannel(c) ==
  /\ c \notin channels
  /\ Cardinality(channels) < MaxChannels
  /\ channels' = channels \cup {c}
  /\ UNCHANGED <<vars, subs, posts, notices, pager>>

SubscribeChannel(p, c, subscribe) ==
  /\ requireCurrentExecution(p)
  /\ c \in channels
  /\ (p.agent \in subs[c]) # subscribe
  /\ subscribe => Cardinality(subs[c]) < MaxSubscribers
  /\ subs' = [subs EXCEPT ![c] = IF subscribe THEN @ \cup {p.agent} ELSE @ \ {p.agent}]
  /\ UNCHANGED <<vars, channels, posts, notices, pager>>

(* The post of an earlier request with the same key.                       *)
PriorPosts(author, key) ==
  {p \in Posts : key # None /\ posts[p].author = author /\ posts[p].key = key}

Notification(a) == [to |-> a, mode |-> "notify", response_to |-> None,
                    idempotency_key |-> None, expires_in |-> Week]

(* Notifications of the post for the targets, at a reading of the clock    *)
(* that is later than the post's.                                          *)
Notify(author, p, targets, t) ==
  LET msgs == expireMessages(messages, t) IN
  IF targets = {} THEN UNCHANGED <<messages, notices>> ELSE
  \E ids \in SUBSET {m \in MessageIds : messages[m].state = "absent"} :
    /\ Cardinality(ids) = Cardinality(targets)
    /\ Backlog(msgs) + Cardinality(ids) <= MessageBacklogCap
    /\ \E to \in [ids -> targets] :
         /\ \A m, n \in ids : to[m] = to[n] => m = n
         /\ messages' = [m \in MessageIds |->
              IF m \in ids THEN NewMessage(author, Notification(to[m]), t) ELSE msgs[m]]
    /\ notices' = [m \in MessageIds |-> IF m \in ids THEN p ELSE notices[m]]

(* Fault: a subscriber whose notification is refused is passed over.       *)
FanOut_WhileRoom(author, p, targets, t) ==
  \E some \in SUBSET targets : Notify(author, p, some, t)

(* One sendMessageTx per subscriber: the first that is refused rolls back  *)
(* the post and the other notifications.                                   *)
FanOut(author, p, targets, t) == Notify(author, p, targets, t)

(* A repeated key answers with the first post, or with CONFLICT when the   *)
(* content differs, and changes nothing either way.                        *)
PostChannel(author, c, thread, key, p, t) ==
  LET targets == subs[c] \ {author} IN
  /\ c \in channels
  /\ thread # 0 => thread \in Roots(c)
  /\ PriorPosts(author, key) = {}
  /\ Cardinality(Posts) < MaxPosts
  /\ posts[p].row = "absent"
  /\ posts' = [posts EXCEPT ![p] =
       [row |-> "present", channel |-> c, thread |-> thread, author |-> author,
        key |-> key, created_at |-> now, audience |-> targets]]
  /\ FanOut(author, p, targets, t)
  /\ ClockOnly(t)
  /\ UNCHANGED <<reservations, channels, subs, pager>>

(* The author is the authenticated execution or the member of the          *)
(* workspace that is signed in (channelAuthor).                            *)
channelAuthor(author) ==
  \/ author \in Humans
  \/ \E p \in KnownPrincipals : p.agent = author /\ requireCurrentExecution(p)

-----------------------------------------------------------------------------
(* created_at DESC, post_id DESC.                                          *)
Older(p, q) ==
  \/ posts[p].created_at < posts[q].created_at
  \/ posts[p].created_at = posts[q].created_at /\ p < q

(* Fault: the cursor is a time only.                                       *)
AfterCursor_TimeOnly(c, cursor) ==
  {p \in Roots(c) : cursor # 0 => posts[p].created_at < posts[cursor].created_at}

AfterCursor(c, cursor) == {p \in Roots(c) : cursor # 0 => Older(p, cursor)}

StartReading(c) ==
  /\ pager = NoReader /\ c \in channels
  /\ pager' = [channel |-> c, due |-> Roots(c), cursor |-> 0]
  /\ UNCHANGED <<vars, channels, subs, posts, notices>>

(* One page, newest first.  One that has nothing after it ends the reading *)
(* and a cursor that retention took away fails it.                         *)
ChannelHistory(limit) ==
  LET rest == AfterCursor(pager.channel, pager.cursor)
      page == {p \in rest : Cardinality({q \in rest : Older(p, q)}) < limit} IN
  /\ pager.channel # None
  /\ pager.cursor # 0 => pager.cursor \in Posts
  /\ page # rest
  /\ pager' = [pager EXCEPT !.due = @ \ page,
                            !.cursor = CHOOSE p \in page : \A q \in page : p = q \/ Older(p, q)]
  /\ UNCHANGED <<vars, channels, subs, posts, notices>>

EndReading(limit) ==
  LET rest == AfterCursor(pager.channel, pager.cursor) IN
  /\ pager.channel # None
  /\ Cardinality(rest) <= limit \/ (pager.cursor # 0 /\ pager.cursor \notin Posts)
  /\ pager' = NoReader
  /\ UNCHANGED <<vars, channels, subs, posts, notices>>

-----------------------------------------------------------------------------
(* Fault: every post is judged by its own age.                             *)
channelRetentionCandidates_Each(before) ==
  {p \in Posts : posts[p].created_at < before /\ posts[p].created_at + Week < now}

(* Fault: the cutoff of the request is all that counts.                    *)
channelRetentionCandidates_AnyAge(before) ==
  {p \in Posts : \A q \in Posts : RootOf(q) = RootOf(p) => posts[q].created_at < before}

(* Whole threads whose last post is older than the cutoff and a week.      *)
channelRetentionCandidates(before) ==
  {p \in Posts : \A q \in Posts : RootOf(q) = RootOf(p) =>
     posts[q].created_at < before /\ posts[q].created_at + Week < now}

PruneChannels(token, before) ==
  /\ PruneMessages(token, before, TRUE, {})
  /\ posts' = [p \in PostIds |->
       IF p \in channelRetentionCandidates(before) THEN NoPost("removed") ELSE posts[p]]
  /\ UNCHANGED <<channels, subs, notices, pager>>

(* The inbox goes on meanwhile.                                            *)
InboxStep ==
  /\ \/ Tick /\ UNCHANGED deliveryVars
     \/ \E p \in KnownPrincipals, m \in MessageIds, t \in LaterInTx : AcknowledgeMessages(p, {m}, t)
     \/ \E p \in KnownPrincipals : RetireAgent(p)
  /\ UNCHANGED channelVars

ChannelsNext ==
  \/ InboxStep
  \/ \E c \in ChannelIds : CreateChannel(c) \/ StartReading(c)
  \/ \E p \in KnownPrincipals, c \in ChannelIds, subscribe \in BOOLEAN :
       SubscribeChannel(p, c, subscribe)
  \/ \E author \in Agents \cup Humans, c \in ChannelIds, thread \in {0} \cup PostIds,
        key \in Keys \cup {None}, p \in PostIds, t \in LaterInTx :
       channelAuthor(author) /\ PostChannel(author, c, thread, key, p, t)
  \/ \E limit \in HistoryLimits : ChannelHistory(limit) \/ EndReading(limit)
  \/ \E token \in 1..MaxTokens, before \in 1..MaxTime : PruneChannels(token, before)

(* The rest of the scope goes on as well, but for its retention.           *)
ChannelsScopeStep ==
  /\ DeliveryNext
  /\ \A m \in MessageIds : messages'[m].state = "removed" => messages[m].state = "removed"
  /\ UNCHANGED channelVars

ChannelsSpec ==
  DeliveryInit /\ ChannelsInit /\ [][ChannelsNext \/ ChannelsScopeStep]_<<vars, channelVars>>

-----------------------------------------------------------------------------
(* Everybody who was subscribed when a post was made got its notification, *)
(* however full the inbox was: a post without it was not made.             *)
FanOutComplete ==
  \A p \in Posts : \A a \in posts[p].audience : \E m \in MessageIds :
    notices[m] = p /\ (messages[m].state = "removed" \/ messages[m].to = a)

(* A reply has its root, in the same channel, whatever retention removed.  *)
ThreadsWhole ==
  \A p \in Posts : posts[p].thread # 0 => posts[p].thread \in Roots(posts[p].channel)

(* The part of validateArchive on the channels.                            *)
validArchivedChannels ==
  /\ Cardinality(channels) <= MaxChannels /\ Cardinality(Posts) <= MaxPosts
  /\ \A c \in ChannelIds : subs[c] # {} =>
       /\ c \in channels /\ Cardinality(subs[c]) <= MaxSubscribers
       /\ \A a \in subs[c] : Registered(a)
  /\ \A p \in Posts : /\ posts[p].channel \in channels
                      /\ posts[p].author \in Agents => Registered(posts[p].author)
  /\ \A p, q \in Posts : /\ posts[p].key # None /\ posts[p].key = posts[q].key
                         /\ posts[p].author = posts[q].author
                         => p = q
  /\ ThreadsWhole

(* A notification that can still be delivered names a post that can be     *)
(* read, but for the time that its own transaction took.                   *)
NoticeHasPost ==
  \A m \in MessageIds :
    messages[m].state \in Active /\ notices[m] # 0 /\ notices[m] \notin Posts =>
      messages[m].expires_at <= now + TxTime

(* A reader that follows the cursor from page to page misses no post that  *)
(* was there when it began, posts of the same millisecond included.        *)
PagesComplete ==
  pager.cursor \in Posts =>
    \A p \in pager.due \cap Posts : p \in AfterCursor(pager.channel, pager.cursor)

(* Retention takes threads whole and no post that somebody is still to be  *)
(* told about (channelRetentionCandidates), and what is left can be        *)
(* exported: a retried post is one post and a reply finds its thread.      *)
ThreadsKept == validArchivedChannels /\ NoticeHasPost
=============================================================================
