--------------------------- MODULE OutputStreams ---------------------------
(***************************************************************************)
(* Output streams of one scope (bus/output_streams.go) and the principals  *)
(* outside the scope that publish to them or read them                     *)
(* (bus/output_principals.go over bus/scoped_credentials.go).              *)
(*                                                                         *)
(* A stream numbers its values and keeps the newest retention of them; a   *)
(* value is its sequence and its producer.  A credential belongs to one    *)
(* stream.  Quotas are counted per producer and minute.  What only hosted  *)
(* workspaces check (requireHostedNewWork) is in HostedBilling.            *)
(***************************************************************************)
EXTENDS AgentRegistry, FiniteSetsExt

CONSTANTS
  StreamIds, PrincipalIds,   \* random IDs: a used one never comes back
  Retentions,                \* the retentionLimit values
  OutputLimits,              \* the limit values of a read
  MaxOutputStreams,          \* maxOutputStreams
  MaxOutputPublishers,       \* maxOutputPublishers
  MaxPrincipals,             \* scopedCredentialCapPerScope
  PublishRate, ReadRate,     \* outputPublishRate and outputReadRate
  Minute,                    \* the quota window, in units of now
  MaxSequence,               \* bound: values published per stream
  MaxSecrets                 \* bound: secrets a principal has in turn

ASSUME OutputAssumption ==
  /\ Retentions \subseteq Nat \ {0}
  /\ OutputLimits \subseteq Nat \ {0}
  /\ {MaxOutputStreams, MaxOutputPublishers, MaxPrincipals, PublishRate, ReadRate} \subseteq Nat
  /\ Minute \in Nat \ {0}
  /\ {MaxSequence, MaxSecrets} \subseteq Nat
  /\ Agents \cap PrincipalIds = {}

VARIABLES
  streams,     \* output_streams with output_stream_publishers and output_values
  principals,  \* scoped_credentials with their grants on a stream
  usage,       \* output_rate_usage: rows [producer, kind, window, count]
  followers,   \* per principal: the sequence it has read up to and what it knows
  accepted     \* history: publishes accepted per producer and window

outputVars == <<streams, principals, usage, followers, accepted>>

Producers == Agents \cup PrincipalIds
Windows == 0..(MaxTime \div Minute)
Permissions == {{"read"}, {"publish"}, {"read", "publish"}}

NoStream(row) == [row |-> row, retention |-> 0, sequence |-> 0, floor |-> 0,
                  publishers |-> {}, values |-> {}]
NoPrincipal(row) == [row |-> row, stream |-> "", permissions |-> {}, secret |-> 0, enabled |-> FALSE]
NewFollower == [cursor |-> 0, known |-> {}]

Streams == {s \in StreamIds : streams[s].row = "present"}
OutputPrincipals == {c \in PrincipalIds : principals[c].row = "present"}

OutputInit ==
  /\ streams = [s \in StreamIds |-> NoStream("absent")]
  /\ principals = [c \in PrincipalIds |-> NoPrincipal("absent")]
  /\ usage = {}
  /\ followers = [c \in PrincipalIds |-> NewFollower]
  /\ accepted = [p \in Producers |-> [w \in Windows |-> 0]]

-----------------------------------------------------------------------------
(* The owner manages streams and principals.                               *)

(* Each owner operation authenticates the scope token, and again in its    *)
(* transaction.                                                            *)
ownerOperation(token) ==
  /\ requireScopeCredential(token)
  /\ UNCHANGED <<registryVars, usage, accepted>>

CreateOutputStream(token, s, retention, publishers) ==
  /\ ownerOperation(token)
  /\ streams[s].row = "absent"
  /\ Cardinality(Streams) < MaxOutputStreams
  /\ Cardinality(publishers) <= MaxOutputPublishers
  /\ \A a \in publishers : Registered(a)
  /\ streams' = [streams EXCEPT ![s] = [NoStream("present") EXCEPT
       !.retention = retention, !.publishers = publishers]]
  /\ UNCHANGED <<principals, followers>>

(* Fault: the credentials for the stream stay behind.                      *)
RemoveOutputStream_KeepsCredentials(token, s) ==
  /\ ownerOperation(token)
  /\ s \in Streams
  /\ streams' = [streams EXCEPT ![s] = NoStream("removed")]
  /\ UNCHANGED <<principals, followers>>

RemoveOutputStream(token, s) ==
  /\ ownerOperation(token)
  /\ s \in Streams
  /\ principals' = [c \in PrincipalIds |->
       IF principals[c].row = "present" /\ principals[c].stream = s
       THEN NoPrincipal("removed") ELSE principals[c]]
  /\ streams' = [streams EXCEPT ![s] = NoStream("removed")]
  /\ UNCHANGED followers

(* Adding a publisher that is one already changes nothing.                 *)
SetOutputPublisher(token, s, a, allowed) ==
  /\ ownerOperation(token)
  /\ s \in Streams
  /\ Registered(a)
  /\ (a \in streams[s].publishers) # allowed
  /\ allowed => Cardinality(streams[s].publishers) < MaxOutputPublishers
  /\ streams' = [streams EXCEPT ![s].publishers = IF allowed THEN @ \cup {a} ELSE @ \ {a}]
  /\ UNCHANGED <<principals, followers>>

CreateOutputPrincipal(token, c, s, permissions) ==
  /\ ownerOperation(token)
  /\ principals[c].row = "absent"
  /\ s \in Streams
  /\ Cardinality(OutputPrincipals) < MaxPrincipals
  /\ principals' = [principals EXCEPT ![c] =
       [row |-> "present", stream |-> s, permissions |-> permissions, secret |-> 1, enabled |-> TRUE]]
  /\ UNCHANGED <<streams, followers>>

RotateOutputPrincipal(token, c) ==
  /\ ownerOperation(token)
  /\ c \in OutputPrincipals
  /\ principals[c].secret < MaxSecrets
  /\ principals' = [principals EXCEPT ![c].secret = @ + 1]
  /\ UNCHANGED <<streams, followers>>

SetOutputPrincipalEnabled(token, c, enabled) ==
  /\ ownerOperation(token)
  /\ c \in OutputPrincipals
  /\ principals[c].enabled # enabled
  /\ principals' = [principals EXCEPT ![c].enabled = enabled]
  /\ UNCHANGED <<streams, followers>>

-----------------------------------------------------------------------------
(* Publishing and reading.                                                 *)

(* The window of now.                                                      *)
Window == now \div Minute

Used(producer, kind) ==
  LET rows == {u \in usage : u.producer = producer /\ u.kind = kind /\ u.window = Window} IN
  IF rows = {} THEN 0 ELSE (CHOOSE u \in rows : TRUE).count

Counted(producer, kind) ==
  [producer |-> producer, kind |-> kind, window |-> Window, count |-> Used(producer, kind) + 1]

(* Fault: the rows of the current window go with those of the last one.    *)
consumeOutputQuota_Forgets(producer, kind, rate) ==
  /\ Used(producer, kind) < rate
  /\ usage' = {u \in usage : u.window > Window /\ u.producer # producer} \cup {Counted(producer, kind)}

(* Rows older than the previous window are deleted first.  A request over  *)
(* the rate rolls its transaction back, and its count with it.             *)
consumeOutputQuota(producer, kind, rate) ==
  /\ Used(producer, kind) < rate
  /\ usage' = {u \in usage : /\ u.window >= Window - 1
                             /\ u.producer # producer \/ u.kind # kind \/ u.window # Window}
              \cup {Counted(producer, kind)}

authenticateScopedCredential(c, secret, s, permission) ==
  /\ c \in OutputPrincipals
  /\ principals[c].stream = s /\ permission \in principals[c].permissions
  /\ principals[c].enabled /\ principals[c].secret = secret

(* Fault: the oldest value goes although the floor says it is there.       *)
published_OffByOne(stream, producer) ==
  LET sequence == stream.sequence + 1
      floor    == sequence - stream.retention IN
  [stream EXCEPT
     !.sequence = sequence,
     !.values = {v \in stream.values : floor <= stream.floor \/ v.sequence > floor + 1}
                \cup {[sequence |-> sequence, producer |-> producer]},
     !.floor = IF floor > stream.floor THEN floor ELSE stream.floor]

(* The stream after a value of the producer: it takes the next sequence,   *)
(* and the values beyond the retention go.                                 *)
published(stream, producer) ==
  LET sequence == stream.sequence + 1
      floor    == sequence - stream.retention
      values   == stream.values \cup {[sequence |-> sequence, producer |-> producer]} IN
  IF floor > stream.floor
  THEN [stream EXCEPT !.sequence = sequence, !.floor = floor,
                      !.values = {v \in values : v.sequence > floor}]
  ELSE [stream EXCEPT !.sequence = sequence, !.values = values]

publishTx(s, producer) ==
  /\ s \in Streams
  /\ streams[s].sequence < MaxSequence
  /\ consumeOutputQuota(producer, "publish", PublishRate)
  /\ streams' = [streams EXCEPT ![s] = published(streams[s], producer)]
  /\ accepted' = [accepted EXCEPT ![producer][Window] = @ + 1]
  /\ UNCHANGED <<registryVars, principals, followers>>

(* Authority is checked in the transaction that publishes.                 *)
PublishAsAgent(p, s) ==
  /\ requireCurrentExecution(p)
  /\ p.agent \in streams[s].publishers
  /\ publishTx(s, p.agent)

PublishAsPrincipal(c, secret, s) ==
  /\ authenticateScopedCredential(c, secret, s, "publish")
  /\ publishTx(s, c)

(* Fault: a reader that fell behind is given what is left.                 *)
outputHistory_NoResync(s, f, limit) ==
  LET rest == {v \in streams[s].values : v.sequence > f.cursor}
      page == {v \in rest : Cardinality({u \in rest : u.sequence < v.sequence}) < limit} IN
  [cursor |-> IF page = {} THEN f.cursor ELSE Max({v.sequence : v \in page}),
   known  |-> f.known \cup page]

(* outputHistory: at most limit values after the cursor, oldest first, or  *)
(* below the floor the demand to start over at the current sequence.       *)
outputHistory(s, f, limit) ==
  LET stream == streams[s]
      rest   == {v \in stream.values : v.sequence > f.cursor}
      page   == {v \in rest : Cardinality({u \in rest : u.sequence < v.sequence}) < limit} IN
  IF f.cursor < stream.floor
  THEN [cursor |-> stream.sequence, known |-> {}]
  ELSE [cursor |-> IF page = {} THEN f.cursor ELSE Max({v.sequence : v \in page}),
        known  |-> f.known \cup page]

(* A principal follows its stream.  LatestOutput is a read as well, of the *)
(* newest value.                                                           *)
readOutput(c, secret, s, limit) ==
  /\ authenticateScopedCredential(c, secret, s, "read")
  /\ consumeOutputQuota(c, "read", ReadRate)
  /\ followers[c].cursor <= streams[s].sequence
  /\ followers' = [followers EXCEPT ![c] = outputHistory(s, followers[c], limit)]
  /\ UNCHANGED <<registryVars, streams, principals, accepted>>

-----------------------------------------------------------------------------
(* The executions of the scope come and go meanwhile.                      *)
ExecutionNext ==
  /\ \/ Tick
     \/ \E p \in KnownPrincipals : RetireRow(p)
     \/ \E a \in Agents, leaseMS \in LeaseTimes : RegisterRow(scopeToken, a, leaseMS, {}, FALSE)
  /\ UNCHANGED outputVars

(* A new scope token also disables every credential of the scope.          *)
DisableCredentials ==
  /\ RotateRows
  /\ principals' = [c \in PrincipalIds |-> [principals[c] EXCEPT !.enabled = FALSE]]
  /\ UNCHANGED <<streams, usage, followers, accepted>>

OutputNext ==
  \/ ExecutionNext
  \/ DisableCredentials
  \/ \E token \in 1..MaxTokens, s \in StreamIds :
       \/ \E retention \in Retentions, publishers \in SUBSET Agents :
            CreateOutputStream(token, s, retention, publishers)
       \/ RemoveOutputStream(token, s)
       \/ \E a \in Agents, allowed \in BOOLEAN : SetOutputPublisher(token, s, a, allowed)
       \/ \E c \in PrincipalIds, permissions \in Permissions :
            CreateOutputPrincipal(token, c, s, permissions)
  \/ \E token \in 1..MaxTokens, c \in PrincipalIds :
       \/ RotateOutputPrincipal(token, c)
       \/ \E enabled \in BOOLEAN : SetOutputPrincipalEnabled(token, c, enabled)
  \/ \E s \in StreamIds, p \in KnownPrincipals : PublishAsAgent(p, s)
  \/ \E s \in StreamIds, c \in PrincipalIds, secret \in 1..MaxSecrets :
       \/ PublishAsPrincipal(c, secret, s)
       \/ \E limit \in OutputLimits : readOutput(c, secret, s, limit)

OutputSpec == RegistryInit /\ OutputInit /\ [][OutputNext]_<<registryVars, outputVars>>

-----------------------------------------------------------------------------
(* Types.  An empty stream name stands for the grant of no credential.     *)
Rows == {"absent", "present", "removed"}

Value == [sequence : Nat \ {0}, producer : Producers]

Stream ==
  [row : Rows, retention : Nat, sequence : Nat, floor : Nat,
   publishers : SUBSET Agents, values : SUBSET Value]

Credential ==
  [row : Rows, stream : StreamIds \cup {""}, permissions : SUBSET {"read", "publish"},
   secret : Nat, enabled : BOOLEAN]

OutputTypeOK ==
  /\ RegistryTypeOK
  /\ streams \in [StreamIds -> Stream]
  /\ principals \in [PrincipalIds -> Credential]
  /\ usage \subseteq [producer : Producers, kind : {"publish", "read"}, window : Nat, count : Nat]
  /\ followers \in [PrincipalIds -> [cursor : Nat, known : SUBSET Value]]
  /\ accepted \in [Producers -> [Windows -> Nat]]

(* A stream holds the newest values without a hole: whoever publishes and  *)
(* whatever retention removed, each sequence above the floor has exactly   *)
(* one value, and there are never more than the retention (PublishOutput). *)
ValuesContiguous ==
  \A s \in Streams :
    LET values == streams[s].values IN
    /\ {v.sequence : v \in values} = (streams[s].floor + 1)..streams[s].sequence
    /\ Cardinality(values) = streams[s].sequence - streams[s].floor
    /\ Cardinality(values) <= streams[s].retention

(* A follower that was not told to start over has seen every value up to   *)
(* its cursor since it last did, and what it saw is what is stored.        *)
NoValueSkipped ==
  \A c \in OutputPrincipals :
    LET seen == {v.sequence : v \in followers[c].known} IN
    /\ \A n \in seen : n..followers[c].cursor \subseteq seen
    /\ \A v \in followers[c].known, u \in streams[principals[c].stream].values :
         v.sequence = u.sequence => v = u

(* A credential never outlives its stream, where it would count against    *)
(* the limit of the scope without a way to revoke it (RemoveOutputStream). *)
CredentialsHaveStream ==
  \A c \in OutputPrincipals : principals[c].stream \in Streams

(* No producer publishes faster than the rate in any minute, although the  *)
(* rows that count it are deleted as time goes on (consumeOutputQuota).    *)
RateHeld ==
  \A p \in Producers, w \in Windows : accepted[p][w] <= PublishRate

(* The part of validateArchive on the output streams.                      *)
validArchivedOutputs ==
  /\ Cardinality(Streams) <= MaxOutputStreams
  /\ \A s \in Streams :
       LET stream == streams[s] IN
       /\ stream.retention # 0 /\ stream.floor <= stream.sequence
       /\ Cardinality(stream.publishers) <= MaxOutputPublishers
       /\ \A a \in stream.publishers : Registered(a)
       /\ \A v \in stream.values : /\ v.sequence > stream.floor
                                   /\ v.sequence <= stream.sequence
                                   /\ v.producer \in Agents => Registered(v.producer)
       /\ Cardinality(stream.values) <= stream.retention
       /\ Cardinality(stream.values) = stream.sequence - stream.floor

(* What a reader of a stream may rely on (PublishOutput, outputHistory,    *)
(* RemoveOutputStream, consumeOutputQuota): no value is skipped unsaid, no *)
(* credential outlives its stream, no rotation or window boundary hands    *)
(* out more than the allowed rate, and the export of the scope accepts the *)
(* streams as they are.                                                    *)
OutputsSound ==
  /\ ValuesContiguous /\ NoValueSkipped /\ CredentialsHaveStream /\ RateHeld
  /\ validArchivedOutputs
=============================================================================
