----------------------------- MODULE HostedProofs -----------------------------
(***************************************************************************)
(* Proofs about HostedAccess and HostedOAuth for every number of           *)
(* workspaces, accounts, connections and requests, and every limit; and    *)
(* about HostedBilling for every length of the times that matter to a      *)
(* purchase.                                                               *)
(***************************************************************************)
EXTENDS HostedOAuth, HostedBilling, FiniteSetTheorems, TLAPS

-----------------------------------------------------------------------------
(* The inductive invariant.                                                *)

(* Ownership being granted has been counted, once per account.             *)
Granting(c) == call[c].op \in {"create", "promote"}
GrantingTo(c, u) == Granting(c) /\ call[c].u = u
OwnershipCounted ==
  /\ \A u \in Users : IsFiniteSet(Owned(u)) /\ Cardinality(Owned(u)) <= OwnedLimit
  /\ \A c \in Calls, u \in Users : GrantingTo(c, u) => Cardinality(Owned(u)) < OwnedLimit
  /\ \A b, c \in Calls, u \in Users : GrantingTo(b, u) /\ GrantingTo(c, u) => b = c

(* An approval that issued a connection is decided.                        *)
GrantsDecided ==
  /\ OneGrantPerApproval
  /\ \A d \in Enrolled :
       dev[d].via # Nothing => approval[dev[d].via].status \notin {"none", "pending"}

TrialsRunning ==
  \A w \in Workspaces : hosting[w].on = "trial" =>
    hosting[w].by \in Users /\ trialOf[hosting[w].by] = "running"

(* The tokens of a connection are of its current grant, and a row that is  *)
(* not used up is the only one.                                            *)
FamilyCurrent ==
  \A t \in tokens : /\ dev[t.dev] # Nothing
                    /\ dev[t.dev].kind = "mcp" /\ dev[t.dev].gen = t.gen
Chained ==
  /\ \A t \in tokens : t.revoked = t.used
  /\ \A s, t \in tokens : s.dev = t.dev /\ ~s.used /\ ~t.used => s = t

HostedInv ==
  /\ OAuthTypeOK /\ ExecutionHasAuthority
  /\ OwnerRemains /\ OwnershipCounted /\ InvitesStand /\ GrantsDecided /\ TrialsRunning
  /\ FamilyCurrent /\ Chained

-----------------------------------------------------------------------------
(* A row keeps the rest when one column changes.                           *)
LEMMA InviteColumn ==
  ASSUME NEW r \in InviteRows, NEW st \in {"live", "expired", "revoked", "consumed", "gone"}
  PROVE  LET q == [r EXCEPT !.status = st] IN
         q \in InviteRows /\ q.status = st /\ q.w = r.w /\ q.to = r.to /\ q.by = r.by
  BY DEF InviteRows

(* Ending the lease of a session leaves a session row, and no other column *)
(* changes.                                                                *)
LEMMA SessionColumn ==
  ASSUME NEW r \in SessionRows
  PROVE  LET q == [r EXCEPT !.live = FALSE] IN
         q \in SessionRows /\ q.live = FALSE /\ q.dev = r.dev /\ q.gen = r.gen
  BY DEF SessionRows

(* What ending leases does to a session: it is kept, and is not leased     *)
(* when its connection is one of those.                                    *)
LEMMA Retired ==
  ASSUME AccessTypeOK, NEW D
  PROVE  /\ retireHostedSessions(D) \in [Sessions -> SessionRows \union {Nothing}]
         /\ \A s \in Sessions :
              LET r == retireHostedSessions(D)[s] IN
              /\ r = Nothing <=> sess[s] = Nothing
              /\ r # Nothing => /\ r.dev = sess[s].dev /\ r.gen = sess[s].gen
                                /\ r.live => sess[s].live /\ sess[s].dev \notin D
  <1> SUFFICES ASSUME NEW s \in Sessions
               PROVE  LET r == retireHostedSessions(D)[s] IN
                      /\ r \in SessionRows \union {Nothing}
                      /\ r = Nothing <=> sess[s] = Nothing
                      /\ r # Nothing => /\ r.dev = sess[s].dev /\ r.gen = sess[s].gen
                                        /\ r.live => sess[s].live /\ sess[s].dev \notin D
    BY DEF retireHostedSessions
  <1>1. sess[s] \in SessionRows \union {Nothing}
    BY DEF AccessTypeOK
  <1>2. CASE sess[s] # Nothing /\ sess[s].dev \in D
    <2>1. retireHostedSessions(D)[s] = [sess[s] EXCEPT !.live = FALSE]
      BY <1>2 DEF retireHostedSessions, Started
    <2> QED BY <1>1, <1>2, <2>1, SessionColumn, NothingIsNoRow
  <1>3. CASE ~(sess[s] # Nothing /\ sess[s].dev \in D)
    <2>1. retireHostedSessions(D)[s] = sess[s]
      BY <1>3 DEF retireHostedSessions, Started
    <2> QED BY <1>1, <1>3, <2>1
  <1> QED BY <1>2, <1>3

-----------------------------------------------------------------------------
(* Types.                                                                  *)

(* What a request in flight carries.                                       *)
LEMMA RequestParts ==
  ASSUME AccessTypeOK, NEW c \in Calls
  PROVE  /\ Granting(c) => call[c].u \in Users /\ call[c].w \in Workspaces
         /\ call[c].op = "accept" => call[c].u \in Users /\ call[c].i \in Invites
         /\ call[c].op \in {"start", "revoke", "oauth_token", "oauth_revoke", "oauth_access"} =>
              call[c].dev \in Devices /\ call[c].gen \in Nat /\ call[c] # Idle
         /\ call[c].op # "idle" <=> call[c] # Idle
  <1>1. call[c] \in Requests \union {Idle}
    BY DEF AccessTypeOK
  <1> QED BY <1>1 DEF Requests, Idle, Granting

(* A request begins or ends.                                               *)
LEMMA CallType ==
  ASSUME AccessTypeOK, NEW c, NEW r \in Requests \union {Idle}, call' = [call EXCEPT ![c] = r]
  PROVE  call' \in [Calls -> Requests \union {Idle}]
  BY DEF AccessTypeOK

(* An enrolled connection has a row.                                       *)
LEMMA EnrolledRow ==
  ASSUME AccessTypeOK, NEW d \in Enrolled
  PROVE  /\ d \in Devices /\ dev[d] \in DeviceRows
         /\ dev[d].w \in Workspaces /\ dev[d].user \in Users /\ dev[d].gen \in Nat
         /\ dev[d].status \in {"live", "revoked", "expired"}
  <1>1. d \in Devices /\ dev[d] \in DeviceRows /\ dev[d].status # "deleted"
    BY DEF AccessTypeOK, Enrolled
  <1> QED BY <1>1 DEF DeviceRows

(* Writing the status of a connection leaves a connection row, and no      *)
(* other column changes.                                                   *)
LEMMA DeviceColumn ==
  ASSUME NEW r \in DeviceRows, NEW st \in {"live", "revoked", "expired", "deleted"}
  PROVE  LET q == [r EXCEPT !.status = st] IN
         /\ q \in DeviceRows /\ q # Nothing /\ q.status = st
         /\ q.w = r.w /\ q.user = r.user /\ q.kind = r.kind /\ q.gen = r.gen /\ q.via = r.via
  <1> DEFINE q == [r EXCEPT !.status = st]
  <1>1. /\ q \in DeviceRows /\ q.status = st
        /\ q.w = r.w /\ q.user = r.user /\ q.kind = r.kind /\ q.gen = r.gen /\ q.via = r.via
    BY DEF DeviceRows
  <1> HIDE DEF q
  <1>2. q # Nothing
    BY <1>1, NothingIsNoRow
  <1> QED BY <1>1, <1>2 DEF q

(* The end of some connections: their rows are marked deleted and nothing  *)
(* else of them changes, their sessions are gone, and an approval that was *)
(* decided stays so.                                                       *)
LEMMA CascadeRows ==
  ASSUME AccessTypeOK, NEW D \in SUBSET Enrolled, Cascade(D)
  PROVE  /\ dev' \in [Devices -> DeviceRows \union {Nothing}]
         /\ sess' \in [Sessions -> SessionRows \union {Nothing}]
         /\ approval' \in [Approvals -> [status : {"none", "pending", "approved", "dropped"},
                                         cred : Credentials \union {Nothing}]]
         /\ \A d \in Enrolled' : d \in Enrolled /\ d \notin D /\ dev'[d] = dev[d]
         /\ \A d \in Devices : d \notin D => dev'[d] = dev[d]
         /\ \A d \in D : dev'[d] # Nothing /\ dev'[d].kind = dev[d].kind /\ dev'[d].gen = dev[d].gen
         /\ \A s \in Sessions :
              sess'[s] # Nothing => s \in Started /\ sess'[s] = sess[s] /\ sess[s].dev \notin D
         /\ \A p \in Approvals : approval[p].status \notin {"none", "pending"} =>
                                 approval'[p].status \notin {"none", "pending"}
  <1> DEFINE Row(d) == [dev[d] EXCEPT !.status = "deleted"]
  <1>1. \A d \in D : /\ d \in Devices /\ Row(d) \in DeviceRows /\ Row(d) # Nothing
                     /\ Row(d).status = "deleted"
                     /\ Row(d).kind = dev[d].kind /\ Row(d).gen = dev[d].gen
    BY EnrolledRow, DeviceColumn
  <1>2. dev' = [d \in Devices |-> IF d \in D THEN Row(d) ELSE dev[d]]
    BY DEF Cascade
  <1> HIDE DEF Row
  <1>3. dev' \in [Devices -> DeviceRows \union {Nothing}]
    BY <1>1, <1>2 DEF AccessTypeOK
  <1>4. \A d \in Enrolled' : d \in Enrolled /\ d \notin D /\ dev'[d] = dev[d]
    BY <1>1, <1>2 DEF Enrolled
  <1>5. \A d \in Devices : d \notin D => dev'[d] = dev[d]
    BY <1>2
  <1>6. \A d \in D : dev'[d] # Nothing /\ dev'[d].kind = dev[d].kind /\ dev'[d].gen = dev[d].gen
    BY <1>1, <1>2
  <1>7. sess' = [s \in Sessions |-> IF s \in Started /\ sess[s].dev \in D THEN Nothing ELSE sess[s]]
    BY DEF Cascade
  <1>8. sess' \in [Sessions -> SessionRows \union {Nothing}]
    BY <1>7 DEF AccessTypeOK
  <1>9. \A s \in Sessions :
          sess'[s] # Nothing => s \in Started /\ sess'[s] = sess[s] /\ sess[s].dev \notin D
    BY <1>7 DEF Started
  <1>10. approval' = [p \in Approvals |->
                        IF approval[p].cred # Nothing /\ approval[p].cred.dev \in D
                        THEN [status |-> "dropped", cred |-> Nothing] ELSE approval[p]]
    BY DEF Cascade
  <1>11. approval' \in [Approvals -> [status : {"none", "pending", "approved", "dropped"},
                                     cred : Credentials \union {Nothing}]]
    BY <1>10 DEF AccessTypeOK
  <1>12. \A p \in Approvals : approval[p].status \notin {"none", "pending"} =>
                             approval'[p].status \notin {"none", "pending"}
    BY <1>10
  <1> QED BY <1>3, <1>4, <1>5, <1>6, <1>8, <1>9, <1>11, <1>12

(* The steps on accounts keep the types.                                   *)
LEMMA AccountType ==
  ASSUME AccessTypeOK, AccountStep
  PROVE  AccessTypeOK'
  <1> USE DEF AccessTypeOK
  <1>1. ASSUME NEW c \in Calls, NEW u \in Users, NEW w \in Workspaces, CreateBegin(c, u, w)
        PROVE  AccessTypeOK'
    <2>1. [op |-> "create", u |-> u, w |-> w] \in Requests
      BY DEF Requests
    <2> QED BY <1>1, <2>1 DEF CreateBegin
  <1>2. ASSUME NEW c \in Calls, NEW u \in Users, NEW w \in Workspaces, NEW a \in Users,
               PromoteBegin(c, a, w, u)
        PROVE  AccessTypeOK'
    <2>1. [op |-> "promote", u |-> u, w |-> w] \in Requests
      BY DEF Requests
    <2> QED BY <1>2, <2>1 DEF PromoteBegin
  <1>3. ASSUME NEW c \in Calls, CreateCommit(c) PROVE AccessTypeOK'
    <2>1. call[c].u \in Users /\ call[c].w \in Workspaces
      BY <1>3, RequestParts DEF CreateCommit, Granting
    <2> QED BY <1>3, <2>1 DEF CreateCommit, TrialFor
  <1>4. ASSUME NEW c \in Calls, PromoteCommit(c) PROVE AccessTypeOK'
    BY <1>4 DEF PromoteCommit
  <1>5. ASSUME NEW c \in Calls, AcceptInvite(c) PROVE AccessTypeOK'
    <2>1. call[c].u \in Users /\ call[c].i \in Invites
      BY <1>5, RequestParts DEF AcceptInvite
    <2>2. invite[call[c].i] \in InviteRows
      BY <1>5, <2>1 DEF AcceptInvite, LiveInvites
    <2>3. /\ invite[call[c].i].w \in Workspaces
          /\ invite[call[c].i].role \in {"none", "member", "admin", "owner"}
      BY <2>2 DEF InviteRows
    <2>4. invite' \in [Invites -> InviteRows \union {Nothing}]
      BY <1>5, <2>1, <2>2, InviteColumn DEF AcceptInvite
    <2>5. role' \in [Workspaces -> [Users -> {"none", "member", "admin", "owner"}]]
      <3>1. PICK u, w, r : /\ u = call[c].u /\ w = invite[call[c].i].w
                           /\ r = invite[call[c].i].role
        OBVIOUS
      <3>2. role' = [role EXCEPT ![w][u] = IF @ = "none" THEN r ELSE @]
        BY <1>5, <3>1 DEF AcceptInvite
      <3> QED BY <2>1, <2>3, <3>1, <3>2
    <2> QED BY <1>5, <2>4, <2>5 DEF AcceptInvite
  <1>6. ASSUME NEW u \in Users, EndTrial(u) PROVE AccessTypeOK'
    BY <1>6 DEF EndTrial
  <1>7. ASSUME NEW i \in Invites, ExpireInvite(i) PROVE AccessTypeOK'
    <2>1. invite[i] \in InviteRows
      BY <1>7 DEF ExpireInvite, LiveInvites
    <2> QED BY <1>7, <2>1, InviteColumn DEF ExpireInvite
  <1>8. ASSUME NEW c \in Calls, NEW u \in Users, NEW i \in Invites, LookupInvite(c, u, i)
        PROVE  AccessTypeOK'
    <2>1. [op |-> "accept", u |-> u, i |-> i] \in Requests
      BY DEF Requests
    <2> QED BY <1>8, <2>1 DEF LookupInvite
  <1>9. ASSUME NEW a \in Users, NEW u \in Users, NEW w \in Workspaces, NEW i \in Invites,
               NEW r \in {"member", "admin"}, Invite(a, w, i, u, r)
        PROVE  AccessTypeOK'
    <2>1. [w |-> w, to |-> u, role |-> r, by |-> a, status |-> "live"] \in InviteRows
      BY DEF InviteRows
    <2> QED BY <1>9, <2>1 DEF Invite
  <1>10. ASSUME NEW a \in Users, NEW u \in Users, NEW w \in Workspaces,
                NEW r \in {"none", "member", "admin", "owner"}, ChangeMember(a, w, u, r)
         PROVE  AccessTypeOK'
    <2>1. invite' \in [Invites -> InviteRows \union {Nothing}]
      <3>1. \A i \in LiveInvites : invite[i] \in InviteRows
        BY DEF LiveInvites
      <3>2. \A i \in InvitesOf(w, u) : [invite[i] EXCEPT !.status = "revoked"] \in InviteRows
        BY <3>1, InviteColumn DEF InvitesOf
      <3>3. \/ invite' = invite
            \/ invite' = [i \in Invites |-> IF i \in InvitesOf(w, u)
                                           THEN [invite[i] EXCEPT !.status = "revoked"] ELSE invite[i]]
        BY <1>10 DEF ChangeMember
      <3>4. \A i \in Invites : invite[i] \in InviteRows \union {Nothing}
        OBVIOUS
      <3> HIDE DEF AccessTypeOK
      <3>5. CASE invite' = invite
        BY <3>5 DEF AccessTypeOK
      <3> QED BY <3>2, <3>3, <3>4, <3>5
    <2>2. /\ dev' \in [Devices -> DeviceRows \union {Nothing}]
          /\ sess' \in [Sessions -> SessionRows \union {Nothing}]
          /\ approval' \in [Approvals -> [status : {"none", "pending", "approved", "dropped"},
                                         cred : Credentials \union {Nothing}]]
      <3>1. Cascade(DevicesOf(w, u)) \/ UNCHANGED <<dev, sess, approval>>
        BY <1>10 DEF ChangeMember
      <3>2. DevicesOf(w, u) \in SUBSET Enrolled
        BY DEF DevicesOf, DevicesIn
      <3>3. CASE UNCHANGED <<dev, sess, approval>>
        BY <3>3
      <3> HIDE DEF AccessTypeOK
      <3> QED BY <3>1, <3>2, <3>3, CascadeRows
    <2>3. role' \in [Workspaces -> [Users -> {"none", "member", "admin", "owner"}]]
      BY <1>10 DEF ChangeMember
    <2>4. UNCHANGED <<ws, hosting, trialOf, call>>
      BY <1>10 DEF ChangeMember
    <2> QED BY <2>1, <2>2, <2>3, <2>4
  <1> HIDE DEF AccessTypeOK
  <1> QED
    BY <1>1, <1>2, <1>3, <1>4, <1>5, <1>6, <1>7, <1>8, <1>9, <1>10, Zenon DEF AccountStep

(* So does noting that its credential is held.                             *)
LEMMA DeviceHeld ==
  ASSUME NEW r \in DeviceRows
  PROVE  LET q == [r EXCEPT !.held = TRUE] IN
         /\ q \in DeviceRows /\ q.status = r.status
         /\ q.w = r.w /\ q.user = r.user /\ q.kind = r.kind /\ q.gen = r.gen /\ q.via = r.via
  BY DEF DeviceRows

(* The row of a connection with a new credential.                          *)
Recredentialed(r, held, p) ==
  [r EXCEPT !.gen = r.gen + 1, !.status = "live", !.held = held, !.via = p]

(* It is the row of a live connection, its generation one higher, of the   *)
(* same workspace, member and kind.                                        *)
LEMMA NewCredential ==
  ASSUME NEW r \in DeviceRows, NEW held \in BOOLEAN, NEW p \in Approvals \union {Nothing}
  PROVE  LET q == Recredentialed(r, held, p) IN
         /\ q \in DeviceRows /\ q.status = "live" /\ q.via = p
         /\ q.w = r.w /\ q.user = r.user /\ q.kind = r.kind /\ q.gen = r.gen + 1
  <1> DEFINE q == Recredentialed(r, held, p)
  <1>1. r.gen + 1 \in Nat
    BY DEF DeviceRows
  <1>2. /\ q.status = "live" /\ q.via = p /\ q.held = held /\ q.gen = r.gen + 1
        /\ q.w = r.w /\ q.user = r.user /\ q.kind = r.kind
    BY DEF DeviceRows, Recredentialed
  <1>3. q \in DeviceRows
    BY <1>1 DEF DeviceRows, Recredentialed
  <1> QED BY <1>2, <1>3

(* enrollDeviceTx and replaceConnectionTx write one row: a member's live   *)
(* connection with a credential it has not had before.                     *)
Connecting(u, w, d, k, p) == \E held \in BOOLEAN : Connect(u, w, d, k, held, p)

Connected(u, w, d, k, p) ==
  \E r \in DeviceRows :
     /\ dev' = [dev EXCEPT ![d] = r] /\ dev'[d] = r
     /\ r.w = w /\ r.user = u /\ r.kind = k /\ r.status = "live" /\ r.via = p
     /\ Member(w, u) /\ workspaceOpen(w)
     /\ sess' \in [Sessions -> SessionRows \union {Nothing}]
     /\ \/ dev[d] = Nothing /\ sess' = sess
        \/ /\ d \in DevicesOf(w, u) /\ dev[d].kind = k
           /\ r.gen = dev[d].gen + 1 /\ sess' = retireHostedSessions({d})

(* A step that issues a credential writes such a row and retires the       *)
(* sessions of the credential it replaces.                                 *)
LEMMA ConnectStep ==
  ASSUME AccessTypeOK, NEW u \in Users, NEW w \in Workspaces, NEW d \in Devices,
         NEW k \in Kinds, NEW p \in Approvals \union {Nothing}, Connecting(u, w, d, k, p)
  PROVE  Connected(u, w, d, k, p)
  <1> USE DEF Connected
  <1>0. /\ sess \in [Sessions -> SessionRows \union {Nothing}]
        /\ retireHostedSessions({d}) \in [Sessions -> SessionRows \union {Nothing}]
    BY Retired DEF AccessTypeOK
  <1> PICK held \in BOOLEAN : Connect(u, w, d, k, held, p)
    BY DEF Connecting
  <1>1. CASE Enroll(u, w, d, k, held, p)
    <2> DEFINE r == [w |-> w, user |-> u, kind |-> k, gen |-> 1, status |-> "live",
                     held |-> held, via |-> p]
    <2>1. /\ r \in DeviceRows /\ r.w = w /\ r.user = u /\ r.kind = k
          /\ r.status = "live" /\ r.via = p
      BY DEF DeviceRows
    <2>2. dev' = [dev EXCEPT ![d] = r] /\ dev'[d] = r
      BY <1>1 DEF Enroll, AccessTypeOK
    <2>3. Member(w, u) /\ workspaceOpen(w) /\ dev[d] = Nothing /\ sess' = sess
      BY <1>1 DEF Enroll
    <2> HIDE DEF r
    <2> QED BY <1>0, <2>1, <2>2, <2>3
  <1>2. CASE Replace(u, w, d, k, held, p)
    <2> DEFINE r == Recredentialed(dev[d], held, p)
    <2>1. d \in DevicesOf(w, u) /\ d \in Enrolled /\ dev[d].w = w /\ dev[d].user = u /\ dev[d].kind = k
      BY <1>2 DEF Replace, DevicesOf, DevicesIn
    <2>2. dev[d] \in DeviceRows
      BY <2>1, EnrolledRow
    <2>3. /\ r \in DeviceRows /\ r.w = w /\ r.user = u /\ r.kind = k
          /\ r.status = "live" /\ r.via = p /\ r.gen = dev[d].gen + 1
      BY <2>1, <2>2, NewCredential
    <2>4. dev' = [dev EXCEPT ![d] = r] /\ dev'[d] = r
      BY <1>2, <2>2 DEF Replace, AccessTypeOK, DeviceRows, Recredentialed
    <2>5. Member(w, u) /\ workspaceOpen(w) /\ sess' = retireHostedSessions({d})
      BY <1>2 DEF Replace
    <2> HIDE DEF r
    <2> QED BY <1>0, <2>1, <2>3, <2>4, <2>5
  <1> QED BY <1>1, <1>2 DEF Connect

(* Ending a connection.                                                    *)
LEMMA EndStep ==
  ASSUME AccessTypeOK, NEW d \in Enrolled, EndConnection(d)
  PROVE  /\ dev' = [dev EXCEPT ![d] = [dev[d] EXCEPT !.status = "revoked"]]
         /\ dev' \in [Devices -> DeviceRows \union {Nothing}]
         /\ sess' = retireHostedSessions({d})
         /\ sess' \in [Sessions -> SessionRows \union {Nothing}]
  <1>1. dev[d] \in DeviceRows /\ [dev[d] EXCEPT !.status = "revoked"] \in DeviceRows
    BY EnrolledRow, DeviceColumn
  <1>2. dev' = [dev EXCEPT ![d] = [dev[d] EXCEPT !.status = "revoked"]]
    BY DEF EndConnection, AccessTypeOK
  <1>3. dev' \in [Devices -> DeviceRows \union {Nothing}]
    BY <1>1, <1>2 DEF AccessTypeOK
  <1>4. sess' = retireHostedSessions({d})
    BY DEF EndConnection
  <1> QED BY <1>2, <1>3, <1>4, Retired

(* Starting a session leases it to the connection's current credential.    *)
LEMMA StartStep ==
  ASSUME AccessTypeOK, NEW d \in Enrolled, NEW s \in Sessions,
         startSessionTx(d, s) \/ commitConnectorExecution(d, s)
  PROVE  /\ sess' \in [Sessions -> SessionRows \union {Nothing}]
         /\ ws[dev[d].w] = "open"
         /\ \/ sess' = sess
            \/ sess' = [sess EXCEPT ![s] = [dev |-> d, gen |-> dev[d].gen, live |-> TRUE]]
  <1>1. [dev |-> d, gen |-> dev[d].gen, live |-> TRUE] \in SessionRows
    BY EnrolledRow DEF SessionRows
  <1> QED BY <1>1 DEF AccessTypeOK, startSessionTx, commitConnectorExecution

(* A step that writes one connection and some leases.                      *)
LEMMA WriteType ==
  ASSUME AccessTypeOK, NEW d \in Devices, NEW r \in DeviceRows, dev' = [dev EXCEPT ![d] = r],
         sess' \in [Sessions -> SessionRows \union {Nothing}],
         UNCHANGED <<ws, hosting, trialOf, role, invite, approval, call>>
  PROVE  AccessTypeOK'
  BY DEF AccessTypeOK

(* The steps on connections and sessions keep the types.                   *)
LEMMA ConnectionType ==
  ASSUME AccessTypeOK, ConnectionStep
  PROVE  AccessTypeOK'
  <1>1. ASSUME NEW u \in Users, NEW w \in Workspaces, NEW d \in Devices,
               EnrollDevice(u, w, d) \/ CreateMCPKey(u, w, d)
        PROVE  AccessTypeOK'
    <2>1. PICK k \in Kinds : Connecting(u, w, d, k, Nothing)
      BY <1>1 DEF EnrollDevice, CreateMCPKey, Connect, Kinds, Connecting
    <2> Connected(u, w, d, k, Nothing)
      BY <2>1, ConnectStep
    <2>2. PICK r \in DeviceRows : /\ dev' = [dev EXCEPT ![d] = r]
                                  /\ sess' \in [Sessions -> SessionRows \union {Nothing}]
      BY DEF Connected
    <2>3. UNCHANGED <<ws, hosting, trialOf, role, invite, approval, call>>
      BY <1>1 DEF EnrollDevice, CreateMCPKey
    <2> QED BY <2>2, <2>3, WriteType
  <1>2. ASSUME NEW u \in Users, NEW w \in Workspaces, NEW d \in Devices, RevokeByMember(u, w, d)
        PROVE  AccessTypeOK'
    <2>1. d \in Enrolled /\ EndConnection(d)
      BY <1>2 DEF RevokeByMember, RevokeDevice, DevicesIn
    <2>2. UNCHANGED <<ws, hosting, trialOf, role, invite, approval, call>>
      BY <1>2 DEF RevokeByMember
    <2> QED BY <2>1, <2>2, EndStep DEF AccessTypeOK
  <1>3. ASSUME NEW u \in Users, NEW w \in Workspaces, NEW d \in Devices, NEW p \in Approvals,
               completeDevicePairing(p, u, w, d)
        PROVE  AccessTypeOK'
    <2>1. Connecting(u, w, d, "device", p)
      BY <1>3 DEF completeDevicePairing, Approve, Connecting
    <2> Connected(u, w, d, "device", p)
      BY <2>1, ConnectStep DEF Kinds
    <2>2. PICK r \in DeviceRows : /\ dev' = [dev EXCEPT ![d] = r] /\ dev'[d] = r
                                  /\ sess' \in [Sessions -> SessionRows \union {Nothing}]
      BY DEF Connected
    <2>3. [dev |-> d, gen |-> dev'[d].gen] \in Credentials
      BY <2>2 DEF Credentials, DeviceRows
    <2>4. UNCHANGED <<ws, hosting, trialOf, role, invite, call>>
      BY <1>3 DEF completeDevicePairing
    <2>5. approval' = [approval EXCEPT ![p] = [status |-> "approved",
                                              cred |-> [dev |-> d, gen |-> dev'[d].gen]]]
      BY <1>3 DEF completeDevicePairing, Approve
    <2>6. dev' \in [Devices -> DeviceRows \union {Nothing}]
      BY <2>2 DEF AccessTypeOK
    <2>7. approval' \in [Approvals -> [status : {"none", "pending", "approved", "dropped"},
                                      cred : Credentials \union {Nothing}]]
      BY <2>3, <2>5 DEF AccessTypeOK
    <2>8. sess' \in [Sessions -> SessionRows \union {Nothing}]
      BY <2>2
    <2> QED BY <2>4, <2>6, <2>7, <2>8 DEF AccessTypeOK
  <1>4. ASSUME NEW p \in Approvals, BeginDevicePairing(p) \/ DropApproval(p)
        PROVE  AccessTypeOK'
    <2>1. PICK st \in {"pending", "dropped"} : approval' = [approval EXCEPT ![p].status = st]
      BY <1>4 DEF BeginDevicePairing, DropApproval
    <2>2. UNCHANGED <<ws, hosting, trialOf, role, invite, dev, sess, call>>
      BY <1>4 DEF BeginDevicePairing, DropApproval
    <2> QED BY <2>1, <2>2 DEF AccessTypeOK
  <1>5. ASSUME NEW p \in Approvals, PollDevicePairing(p) PROVE AccessTypeOK'
    <2> DEFINE d == approval[p].cred.dev
    <2>1. d \in Enrolled /\ dev' = [dev EXCEPT ![d].held = TRUE]
      BY <1>5 DEF PollDevicePairing, authenticateHostedDevice
    <2>2. dev[d] \in DeviceRows /\ [dev[d] EXCEPT !.held = TRUE] \in DeviceRows /\ d \in Devices
      BY <2>1, EnrolledRow, DeviceHeld
    <2>3. UNCHANGED <<ws, hosting, trialOf, role, invite, sess, approval, call>>
      BY <1>5 DEF PollDevicePairing
    <2> HIDE DEF d
    <2>4. dev' = [dev EXCEPT ![d] = [dev[d] EXCEPT !.held = TRUE]]
      BY <2>1, <2>2 DEF AccessTypeOK
    <2> QED BY <2>2, <2>3, <2>4 DEF AccessTypeOK
  <1>6. ASSUME NEW d \in Devices, ExpireDevice(d) PROVE AccessTypeOK'
    <2>1. d \in Enrolled
      BY <1>6 DEF ExpireDevice
    <2>2. dev[d] \in DeviceRows /\ [dev[d] EXCEPT !.status = "expired"] \in DeviceRows
      BY <2>1, EnrolledRow, DeviceColumn
    <2>3. UNCHANGED <<ws, hosting, trialOf, role, invite, sess, approval, call>>
      BY <1>6 DEF ExpireDevice
    <2>4. dev' = [dev EXCEPT ![d] = [dev[d] EXCEPT !.status = "expired"]]
      BY <1>6 DEF ExpireDevice, AccessTypeOK
    <2> QED BY <2>2, <2>3, <2>4 DEF AccessTypeOK
  <1>7. ASSUME NEW c \in Calls, NEW d \in Devices, NEW kind \in {"start", "revoke"}, Authenticate(c, d, kind)
        PROVE  AccessTypeOK'
    <2>1. [op |-> kind, dev |-> d, gen |-> dev[d].gen] \in Requests
      BY <1>7, EnrolledRow DEF Authenticate, Requests
    <2>2. UNCHANGED <<ws, hosting, trialOf, role, invite, dev, sess, approval>>
      BY <1>7 DEF Authenticate
    <2>3. call' = [call EXCEPT ![c] = [op |-> kind, dev |-> d, gen |-> dev[d].gen]]
      BY <1>7 DEF Authenticate
    <2> QED BY <2>1, <2>2, <2>3, CallType DEF AccessTypeOK
  <1>8. ASSUME NEW c \in Calls, SelfRevoke(c) PROVE AccessTypeOK'
    <2>1. call[c].dev \in Enrolled /\ EndConnection(call[c].dev)
      BY <1>8 DEF SelfRevoke, RevokeDevice
    <2>2. UNCHANGED <<ws, hosting, trialOf, role, invite, approval>> /\ call' = [call EXCEPT ![c] = Idle]
      BY <1>8 DEF SelfRevoke
    <2> QED BY <2>1, <2>2, EndStep, CallType DEF AccessTypeOK
  <1>9. ASSUME NEW c \in Calls, NEW s \in Sessions, StartDeviceSession(c, s) PROVE AccessTypeOK'
    <2>1. call[c].dev \in Enrolled
      BY <1>9 DEF StartDeviceSession, authenticateHostedDevice
    <2>2. startSessionTx(call[c].dev, s) \/ commitConnectorExecution(call[c].dev, s)
      BY <1>9 DEF StartDeviceSession
    <2>3. /\ UNCHANGED <<ws, hosting, trialOf, role, invite, dev, approval>>
          /\ call' = [call EXCEPT ![c] = Idle]
      BY <1>9 DEF StartDeviceSession
    <2> QED BY <2>1, <2>2, <2>3, StartStep, CallType DEF AccessTypeOK
  <1>10. ASSUME NEW s \in Sessions, LapseLease(s) PROVE AccessTypeOK'
    <2>1. sess[s] \in SessionRows
      BY <1>10 DEF LapseLease, Started, AccessTypeOK
    <2> QED BY <1>10, <2>1, SessionColumn DEF LapseLease, AccessTypeOK
  <1> QED
    BY <1>1, <1>2, <1>3, <1>4, <1>5, <1>6, <1>7, <1>8, <1>9, <1>10, Zenon DEF ConnectionStep

(* The steps on workspaces keep the types.                                 *)
LEMMA WorkspaceType ==
  ASSUME AccessTypeOK, WorkspaceStep
  PROVE  AccessTypeOK'
  <1>1. ASSUME NEW w \in Workspaces, finishWorkspaceDeletion(w) PROVE AccessTypeOK'
    <2>1. invite' \in [Invites -> InviteRows \union {Nothing}]
      <3>1. \A i \in Invites : invite[i] # Nothing =>
              invite[i] \in InviteRows /\ [invite[i] EXCEPT !.status = "gone"] \in InviteRows
        <4>1. \A i \in Invites : invite[i] # Nothing => invite[i] \in InviteRows
          BY DEF AccessTypeOK
        <4> QED BY <4>1, InviteColumn
      <3> QED BY <1>1, <3>1 DEF finishWorkspaceDeletion
    <2>2. Cascade(DevicesIn(w)) /\ DevicesIn(w) \in SUBSET Enrolled
      BY <1>1 DEF finishWorkspaceDeletion, DevicesIn
    <2>3. /\ dev' \in [Devices -> DeviceRows \union {Nothing}]
          /\ sess' \in [Sessions -> SessionRows \union {Nothing}]
          /\ approval' \in [Approvals -> [status : {"none", "pending", "approved", "dropped"},
                                         cred : Credentials \union {Nothing}]]
      BY <2>2, CascadeRows
    <2>5. /\ ws' = [ws EXCEPT ![w] = "gone"]
          /\ role' = [role EXCEPT ![w] = [u \in Users |-> "none"]]
          /\ hosting' = [hosting EXCEPT ![w].on = "inactive"]
          /\ UNCHANGED <<trialOf, call>>
      BY <1>1 DEF finishWorkspaceDeletion
    <2> QED BY <2>1, <2>3, <2>5 DEF AccessTypeOK
  <1>2. ASSUME NEW w \in Workspaces, NEW b \in BOOLEAN, SetPaid(w, b) PROVE AccessTypeOK'
    BY <1>2 DEF SetPaid, AccessTypeOK
  <1>3. ASSUME NEW w \in Workspaces, NEW u \in Users, requestWorkspaceDeletion(u, w)
        PROVE  AccessTypeOK'
    <2>1. dev' \in [Devices -> DeviceRows \union {Nothing}]
      <3>1. \A d \in DevicesIn(w) : [dev[d] EXCEPT !.status = "revoked"] \in DeviceRows
        BY EnrolledRow, DeviceColumn DEF DevicesIn
      <3> QED BY <1>3, <3>1 DEF requestWorkspaceDeletion, AccessTypeOK
    <2>2. sess' = retireHostedSessions(DevicesIn(w)) /\ ws' = [ws EXCEPT ![w] = "closing"]
      BY <1>3 DEF requestWorkspaceDeletion
    <2>3. UNCHANGED <<hosting, trialOf, role, invite, approval, call>>
      BY <1>3 DEF requestWorkspaceDeletion
    <2> QED BY <2>1, <2>2, <2>3, Retired DEF AccessTypeOK
  <1>4. ASSUME NEW w \in Workspaces, NEW u \in Users, NEW b \in BOOLEAN, PauseWorkspace(u, w, b)
        PROVE  AccessTypeOK'
    BY <1>4, Retired DEF PauseWorkspace, AccessTypeOK
  <1> QED BY <1>1, <1>2, <1>3, <1>4, Zenon DEF WorkspaceStep

(* A new token, and a token one of whose columns changes.                  *)
LEMMA TokenNew ==
  ASSUME NEW d \in Devices, NEW g \in Nat, NEW n \in Nat
  PROVE  LET q == NewToken(d, g, n) IN
         q \in TokenRows /\ q.dev = d /\ q.gen = g /\ q.n = n /\ ~q.used /\ ~q.revoked
  BY DEF NewToken, TokenRows

(* Spending, revoking or outdating a token leaves a token row of the same  *)
(* grant.                                                                  *)
LEMMA TokenColumn ==
  ASSUME NEW t \in TokenRows
  PROVE  /\ LET q == [t EXCEPT !.used = TRUE, !.revoked = TRUE] IN
            q \in TokenRows /\ q.dev = t.dev /\ q.gen = t.gen /\ q.n = t.n /\ q.used /\ q.revoked
         /\ LET q == [t EXCEPT !.old = TRUE] IN
            /\ q \in TokenRows /\ q.dev = t.dev /\ q.gen = t.gen /\ q.n = t.n
            /\ q.used = t.used /\ q.revoked = t.revoked
         /\ t.dev \in Devices /\ t.gen \in Nat /\ t.n \in Nat
  BY DEF TokenRows

(* A row that is read again under the lock is of an enrolled connection,   *)
(* with a member, and of the credential the request had read.              *)
LEMMA RereadRow ==
  ASSUME OAuthTypeOK, NEW c \in Calls, NEW t \in Reread(c)
  PROVE  /\ t \in tokens /\ t.dev = call[c].dev /\ t.gen = call[c].gen
         /\ t.dev \in Enrolled /\ Member(dev[t.dev].w, dev[t.dev].user)
  BY DEF Reread, oauthRecord, Family

(* The requests that carry a token, and the tokens, keep the types.        *)
LEMMA OAuthStepType ==
  ASSUME OAuthTypeOK, OAuthStep
  PROVE  OAuthTypeOK'
  <1> USE DEF OAuthTypeOK
  <1>1. ASSUME NEW p \in Approvals, oauthAuthorize(p) PROVE OAuthTypeOK'
    BY <1>1 DEF oauthAuthorize, AccessTypeOK
  <1>2. ASSUME NEW p \in Approvals, NEW u \in Users, NEW w \in Workspaces, NEW d \in Devices,
               oauthConsent(p, u, w, d)
        PROVE  OAuthTypeOK'
    <2>1. Connecting(u, w, d, "mcp", p)
      BY <1>2 DEF oauthConsent, Approve, Connecting
    <2> Connected(u, w, d, "mcp", p)
      BY <2>1, ConnectStep DEF Kinds
    <2>2. PICK r \in DeviceRows : /\ dev' = [dev EXCEPT ![d] = r] /\ dev'[d] = r
                                  /\ sess' \in [Sessions -> SessionRows \union {Nothing}]
      BY DEF Connected
    <2>3. r.gen \in Nat
      BY DEF DeviceRows
    <2>4. UNCHANGED <<ws, hosting, trialOf, role, invite, call>>
      BY <1>2 DEF oauthConsent
    <2>5. approval' = [approval EXCEPT ![p] = [status |-> "approved", cred |-> [dev |-> d, gen |-> r.gen]]]
      BY <1>2, <2>2 DEF oauthConsent, Approve
    <2>6. dev' \in [Devices -> DeviceRows \union {Nothing}]
      BY <2>2 DEF AccessTypeOK
    <2>7. approval' \in [Approvals -> [status : {"none", "pending", "approved", "dropped"},
                                      cred : Credentials \union {Nothing}]]
      BY <2>3, <2>5 DEF AccessTypeOK, Credentials
    <2>8. sess' \in [Sessions -> SessionRows \union {Nothing}]
      BY <2>2
    <2>9. tokens' \subseteq tokens \union {NewToken(d, r.gen, 0)}
      BY <1>2, <2>2 DEF oauthConsent
    <2>10. AccessTypeOK'
      BY <2>4, <2>6, <2>7, <2>8 DEF AccessTypeOK
    <2>11. NewToken(d, r.gen, 0) \in TokenRows
      BY <2>3, TokenNew
    <2> QED BY <2>9, <2>10, <2>11
  <1>3. ASSUME NEW c \in Calls, NEW t \in tokens,
               NEW kind \in {"oauth_token", "oauth_revoke", "oauth_access"}, OAuthLookup(c, t, kind)
        PROVE  OAuthTypeOK'
    <2> DEFINE r == [op |-> kind, dev |-> t.dev, gen |-> t.gen, n |-> t.n, used |-> t.used]
    <2>1. r \in Requests
      BY DEF Requests, TokenRows
    <2>2. call' = [call EXCEPT ![c] = r]
      BY <1>3 DEF OAuthLookup
    <2>3. UNCHANGED <<ws, hosting, trialOf, role, invite, dev, sess, approval, tokens>>
      BY <1>3 DEF OAuthLookup
    <2> HIDE DEF r
    <2>4. call' \in [Calls -> Requests \union {Idle}]
      BY <2>1, <2>2, CallType
    <2> QED BY <2>3, <2>4 DEF AccessTypeOK
  <1>4. ASSUME NEW c \in Calls, IssueTokens(c) PROVE OAuthTypeOK'
    <2>1. PICK t \in Reread(c) :
            tokens' = (tokens \ {t}) \union {[t EXCEPT !.used = TRUE, !.revoked = TRUE],
                                             NewToken(t.dev, t.gen, t.n + 1)}
      BY <1>4 DEF IssueTokens
    <2>2. t \in tokens
      BY RereadRow
    <2>3. /\ [t EXCEPT !.used = TRUE, !.revoked = TRUE] \in TokenRows
          /\ NewToken(t.dev, t.gen, t.n + 1) \in TokenRows
      <3>1. t \in TokenRows
        BY <2>2
      <3>2. t.dev \in Devices /\ t.gen \in Nat /\ t.n \in Nat
        BY <3>1, TokenColumn
      <3>3. t.n + 1 \in Nat
        BY <3>2
      <3> QED BY <3>1, <3>2, <3>3, TokenColumn, TokenNew
    <2>4. UNCHANGED <<ws, hosting, trialOf, role, invite, dev, sess, approval>>
          /\ call' = [call EXCEPT ![c] = Idle]
      BY <1>4 DEF IssueTokens
    <2>5. tokens' \subseteq TokenRows
      BY <2>1, <2>3
    <2>6. call' \in [Calls -> Requests \union {Idle}]
      BY <2>4, CallType
    <2> QED BY <2>4, <2>5, <2>6 DEF AccessTypeOK
  <1>5. ASSUME NEW c \in Calls, ReplayedRefresh(c) \/ oauthRevoke(c) PROVE OAuthTypeOK'
    <2>1. PICK t \in Reread(c) : EndConnection(t.dev)
      BY <1>5 DEF ReplayedRefresh, oauthRevoke
    <2>2. t.dev \in Enrolled
      BY RereadRow
    <2>3. UNCHANGED <<ws, hosting, trialOf, role, invite, approval, tokens>>
          /\ call' = [call EXCEPT ![c] = Idle]
      BY <1>5 DEF ReplayedRefresh, oauthRevoke
    <2> QED BY <2>1, <2>2, <2>3, EndStep, CallType DEF AccessTypeOK
  <1>6. ASSUME NEW c \in Calls, NEW s \in Sessions, oauthExecution(c, s) PROVE OAuthTypeOK'
    <2>1. PICK t \in Reread(c) : commitConnectorExecution(t.dev, s)
      BY <1>6 DEF oauthExecution
    <2>2. t.dev \in Enrolled
      BY RereadRow
    <2>3. UNCHANGED <<ws, hosting, trialOf, role, invite, dev, approval, tokens>>
          /\ call' = [call EXCEPT ![c] = Idle]
      BY <1>6 DEF oauthExecution
    <2> QED BY <2>1, <2>2, <2>3, StartStep, CallType DEF AccessTypeOK
  <1>7. ASSUME NEW t \in tokens, ExpireToken(t) PROVE OAuthTypeOK'
    <2>1. [t EXCEPT !.old = TRUE] \in TokenRows
      BY TokenColumn
    <2>2. tokens' \subseteq TokenRows
      BY <1>7, <2>1 DEF ExpireToken
    <2>3. UNCHANGED accessVars
      BY <1>7 DEF ExpireToken
    <2> QED BY <2>2, <2>3 DEF accessVars, AccessTypeOK
  <1>8. ASSUME MaintainTokens PROVE OAuthTypeOK'
    BY <1>8 DEF MaintainTokens, accessVars, AccessTypeOK
  <1> HIDE DEF OAuthTypeOK
  <1> QED BY <1>1, <1>2, <1>3, <1>4, <1>5, <1>6, <1>7, <1>8, Zenon DEF OAuthStep

(* Every step keeps the types.                                             *)
LEMMA OAuthType ==
  ASSUME OAuthTypeOK, [OAuthNext]_oauthVars
  PROVE  OAuthTypeOK'
  <1>1. ASSUME AccessNext PROVE AccessTypeOK'
    <2>1. AccessTypeOK
      BY DEF OAuthTypeOK
    <2>2. ASSUME NEW c \in Calls, Abandon(c) PROVE AccessTypeOK'
      BY <2>1, <2>2 DEF Abandon, AccessTypeOK
    <2> QED BY <1>1, <2>1, <2>2, AccountType, ConnectionType, WorkspaceType DEF AccessNext
  <1>2. CASE AccessNext /\ tokens' = {t \in tokens : dev'[t.dev].status # "deleted"}
    BY <1>1, <1>2 DEF OAuthTypeOK
  <1>3. CASE UNCHANGED oauthVars
    BY <1>3 DEF oauthVars, accessVars, OAuthTypeOK, AccessTypeOK
  <1> QED BY <1>2, <1>3, OAuthStepType DEF OAuthNext

-----------------------------------------------------------------------------
(* What the steps on connections, with and without tokens, come to.        *)
Grants(u, w, d, k, p) ==
  /\ Connecting(u, w, d, k, p)
  /\ \/ p = Nothing /\ approval' = approval
     \/ /\ p \in Approvals /\ Pending(p)
        /\ approval' = [approval EXCEPT ![p] = [status |-> "approved",
                                               cred |-> [dev |-> d, gen |-> dev'[d].gen]]]

Ends(d) == d \in Enrolled /\ EndConnection(d) /\ approval' = approval

Starts(d, s) ==
  /\ d \in Enrolled /\ dev[d].status = "live" /\ Member(dev[d].w, dev[d].user)
  /\ startSessionTx(d, s) \/ commitConnectorExecution(d, s)
  /\ UNCHANGED <<dev, approval>>

Marks(d) ==
  /\ d \in Enrolled
  /\ \/ dev' = [dev EXCEPT ![d].held = TRUE]
     \/ dev[d].status = "live" /\ dev' = [dev EXCEPT ![d].status = "expired"]
  /\ UNCHANGED <<sess, approval>>

Notes(p) ==
  /\ \/ approval[p].status = "none" /\ approval' = [approval EXCEPT ![p].status = "pending"]
     \/ /\ approval[p].status \in {"pending", "approved"}
        /\ approval' = [approval EXCEPT ![p].status = "dropped"]
  /\ UNCHANGED <<dev, sess>>

Lapses(s) ==
  /\ s \in Started /\ sess' = [sess EXCEPT ![s].live = FALSE]
  /\ UNCHANGED <<dev, approval>>

ConnectionMove(K) ==
  \/ \E u \in Users, w \in Workspaces, d \in Devices, k \in K, p \in Approvals \union {Nothing} :
       Grants(u, w, d, k, p)
  \/ \E d \in Devices : Ends(d) \/ Marks(d) \/ \E s \in Sessions : Starts(d, s)
  \/ \E p \in Approvals : Notes(p)
  \/ \E s \in Sessions : Lapses(s)
  \/ UNCHANGED <<dev, sess, approval>>

(* A credential that reaches its machine, or expires, is otherwise as it   *)
(* was.                                                                    *)
Marked(d) ==
  \E r \in DeviceRows :
     /\ dev' = [dev EXCEPT ![d] = r] /\ sess' = sess /\ approval' = approval
     /\ r.w = dev[d].w /\ r.user = dev[d].user /\ r.kind = dev[d].kind
     /\ r.gen = dev[d].gen /\ r.via = dev[d].via
     /\ dev[d] # Nothing /\ dev[d].status # "deleted"
     /\ r.status = dev[d].status \/ (r.status = "expired" /\ dev[d].status = "live")

(* A step that marks a connection writes a row that differs in its status  *)
(* or its held mark only, and starts or ends no session.                   *)
LEMMA MarkStep ==
  ASSUME AccessTypeOK, NEW d \in Devices, Marks(d)
  PROVE  Marked(d)
  <1>1. dev[d] \in DeviceRows /\ dev[d] # Nothing /\ dev[d].status # "deleted"
    BY EnrolledRow DEF Marks, Enrolled
  <1>2. UNCHANGED <<sess, approval>>
    BY DEF Marks
  <1>3. CASE dev' = [dev EXCEPT ![d].held = TRUE]
    <2> DEFINE r == [dev[d] EXCEPT !.held = TRUE]
    <2>1. dev' = [dev EXCEPT ![d] = r]
      BY <1>3 DEF AccessTypeOK
    <2>2. /\ r \in DeviceRows /\ r.w = dev[d].w /\ r.user = dev[d].user /\ r.kind = dev[d].kind
          /\ r.gen = dev[d].gen /\ r.via = dev[d].via /\ r.status = dev[d].status
      BY <1>1, DeviceHeld
    <2> HIDE DEF r
    <2> QED BY <1>1, <1>2, <2>1, <2>2 DEF Marked
  <1>4. CASE dev[d].status = "live" /\ dev' = [dev EXCEPT ![d].status = "expired"]
    <2> DEFINE r == [dev[d] EXCEPT !.status = "expired"]
    <2>1. dev' = [dev EXCEPT ![d] = r]
      BY <1>4 DEF AccessTypeOK
    <2>2. /\ r \in DeviceRows /\ r.w = dev[d].w /\ r.user = dev[d].user /\ r.kind = dev[d].kind
          /\ r.gen = dev[d].gen /\ r.via = dev[d].via /\ r.status = "expired"
      BY <1>1, DeviceColumn
    <2> HIDE DEF r
    <2> QED BY <1>1, <1>2, <1>4, <2>1, <2>2 DEF Marked
  <1> QED BY <1>3, <1>4 DEF Marks

(* A request that ends, or begins, without granting ownership.             *)
NoGrant ==
  \A c \in Calls : call'[c].op \in {"create", "promote"} => call'[c] = call[c]

(* A request that becomes one that grants no ownership begins no grant of  *)
(* it.                                                                     *)
LEMMA NoGrantBy ==
  ASSUME AccessTypeOK, NEW c, NEW r, r.op \notin {"create", "promote"},
         call' = [call EXCEPT ![c] = r]
  PROVE  NoGrant
  BY DEF NoGrant, AccessTypeOK

ConnectionOnly == UNCHANGED <<ws, hosting, trialOf, role, invite>>

(* The kinds of connection the server issues itself.                       *)
ServerKinds == {"device", "mcp_key"}

(* Each connection step is one of those moves, on a connection of a kind   *)
(* the server issues itself, and touches no account.                       *)
LEMMA ConnectionMoves ==
  ASSUME AccessTypeOK, ConnectionStep
  PROVE  ConnectionMove(ServerKinds) /\ NoGrant /\ ConnectionOnly
  <1> DEFINE Goal == ConnectionMove(ServerKinds) /\ NoGrant /\ ConnectionOnly
  <1>0. Idle.op \notin {"create", "promote"}
    BY DEF Idle
  <1>1. ASSUME NEW u \in Users, NEW w \in Workspaces, NEW d \in Devices,
               EnrollDevice(u, w, d) \/ CreateMCPKey(u, w, d)
        PROVE  Goal
    <2>1. PICK k \in ServerKinds : Connecting(u, w, d, k, Nothing)
      BY <1>1 DEF EnrollDevice, CreateMCPKey, Connect, ServerKinds, Connecting
    <2>2. ConnectionOnly /\ UNCHANGED <<approval, call>>
      BY <1>1 DEF EnrollDevice, CreateMCPKey, ConnectionOnly
    <2>3. Grants(u, w, d, k, Nothing)
      BY <2>1, <2>2 DEF Grants
    <2> QED BY <2>2, <2>3 DEF ConnectionMove, NoGrant
  <1>2. ASSUME NEW u \in Users, NEW w \in Workspaces, NEW d \in Devices, RevokeByMember(u, w, d)
        PROVE  Goal
    <2>1. Ends(d)
      BY <1>2 DEF RevokeByMember, RevokeDevice, DevicesIn, Ends
    <2>2. ConnectionOnly /\ UNCHANGED call
      BY <1>2 DEF RevokeByMember, ConnectionOnly
    <2> QED BY <2>1, <2>2 DEF ConnectionMove, NoGrant
  <1>3. ASSUME NEW u \in Users, NEW w \in Workspaces, NEW d \in Devices, NEW p \in Approvals,
               completeDevicePairing(p, u, w, d)
        PROVE  Goal
    <2>1. Grants(u, w, d, "device", p)
      BY <1>3 DEF completeDevicePairing, Approve, Connecting, Grants
    <2>2. ConnectionOnly /\ UNCHANGED call
      BY <1>3 DEF completeDevicePairing, ConnectionOnly
    <2> QED BY <2>1, <2>2 DEF ConnectionMove, NoGrant, ServerKinds
  <1>4. ASSUME NEW p \in Approvals, BeginDevicePairing(p) \/ DropApproval(p)
        PROVE  Goal
    <2>1. Notes(p)
      BY <1>4 DEF BeginDevicePairing, DropApproval, Notes
    <2>2. ConnectionOnly /\ UNCHANGED call
      BY <1>4 DEF BeginDevicePairing, DropApproval, ConnectionOnly
    <2> QED BY <2>1, <2>2 DEF ConnectionMove, NoGrant
  <1>5. ASSUME NEW p \in Approvals, PollDevicePairing(p) PROVE Goal
    <2>1. Marks(approval[p].cred.dev) /\ approval[p].cred.dev \in Devices
      BY <1>5 DEF PollDevicePairing, authenticateHostedDevice, Marks, Enrolled
    <2>2. ConnectionOnly /\ UNCHANGED call
      BY <1>5 DEF PollDevicePairing, ConnectionOnly
    <2> QED BY <2>1, <2>2 DEF ConnectionMove, NoGrant
  <1>6. ASSUME NEW d \in Devices, ExpireDevice(d) PROVE Goal
    <2>1. Marks(d)
      BY <1>6 DEF ExpireDevice, Marks
    <2>2. ConnectionOnly /\ UNCHANGED call
      BY <1>6 DEF ExpireDevice, ConnectionOnly
    <2> QED BY <2>1, <2>2 DEF ConnectionMove, NoGrant
  <1>7. ASSUME NEW c \in Calls, NEW d \in Devices, NEW kind \in {"start", "revoke"}, Authenticate(c, d, kind)
        PROVE  Goal
    <2> DEFINE r == [op |-> kind, dev |-> d, gen |-> dev[d].gen]
    <2>1. call' = [call EXCEPT ![c] = r] /\ r.op \notin {"create", "promote"}
      BY <1>7 DEF Authenticate
    <2>2. ConnectionOnly /\ UNCHANGED <<dev, sess, approval>>
      BY <1>7 DEF Authenticate, ConnectionOnly
    <2> QED BY <2>1, <2>2, NoGrantBy DEF ConnectionMove
  <1>8. ASSUME NEW c \in Calls, SelfRevoke(c) PROVE Goal
    <2>1. Ends(call[c].dev) /\ call[c].dev \in Devices
      BY <1>8 DEF SelfRevoke, RevokeDevice, Ends, Enrolled
    <2>2. ConnectionOnly /\ call' = [call EXCEPT ![c] = Idle]
      BY <1>8 DEF SelfRevoke, ConnectionOnly
    <2>3. NoGrant
      BY <1>0, <2>2, NoGrantBy
    <2> QED BY <2>1, <2>2, <2>3 DEF ConnectionMove
  <1>9. ASSUME NEW c \in Calls, NEW s \in Sessions, StartDeviceSession(c, s) PROVE Goal
    <2>1. Starts(call[c].dev, s) /\ call[c].dev \in Devices
      BY <1>9 DEF StartDeviceSession, authenticateHostedDevice, Starts, Enrolled
    <2>2. ConnectionOnly /\ call' = [call EXCEPT ![c] = Idle]
      BY <1>9 DEF StartDeviceSession, ConnectionOnly
    <2>3. NoGrant
      BY <1>0, <2>2, NoGrantBy
    <2> QED BY <2>1, <2>2, <2>3 DEF ConnectionMove
  <1>10. ASSUME NEW s \in Sessions, LapseLease(s) PROVE Goal
    <2>1. Lapses(s)
      BY <1>10 DEF LapseLease, Lapses
    <2>2. ConnectionOnly /\ UNCHANGED call
      BY <1>10 DEF LapseLease, ConnectionOnly
    <2> QED BY <2>1, <2>2 DEF ConnectionMove, NoGrant
  <1> HIDE DEF Goal
  <1>11. Goal
    BY <1>1, <1>2, <1>3, <1>4, <1>5, <1>6, <1>7, <1>8, <1>9, <1>10, Zenon DEF ConnectionStep
  <1> QED BY <1>11 DEF Goal

(* So is each step of the authorization server, on a connection of the     *)
(* application.                                                            *)
LEMMA OAuthMoves ==
  ASSUME OAuthTypeOK, OAuthStep
  PROVE  ConnectionMove({"mcp"}) /\ NoGrant /\ ConnectionOnly
  <1> DEFINE Goal == ConnectionMove({"mcp"}) /\ NoGrant /\ ConnectionOnly
  <1>0. Idle.op \notin {"create", "promote"} /\ AccessTypeOK
    BY DEF Idle, OAuthTypeOK
  <1>1. ASSUME NEW p \in Approvals, oauthAuthorize(p) PROVE Goal
    <2>1. Notes(p)
      BY <1>1 DEF oauthAuthorize, Notes
    <2>2. ConnectionOnly /\ UNCHANGED call
      BY <1>1 DEF oauthAuthorize, ConnectionOnly
    <2> QED BY <2>1, <2>2 DEF ConnectionMove, NoGrant
  <1>2. ASSUME NEW p \in Approvals, NEW u \in Users, NEW w \in Workspaces, NEW d \in Devices,
               oauthConsent(p, u, w, d)
        PROVE  Goal
    <2>1. Grants(u, w, d, "mcp", p)
      BY <1>2 DEF oauthConsent, Approve, Connecting, Grants
    <2>2. ConnectionOnly /\ UNCHANGED call
      BY <1>2 DEF oauthConsent, ConnectionOnly
    <2> QED BY <2>1, <2>2 DEF ConnectionMove, NoGrant
  <1>3. ASSUME NEW c \in Calls, NEW t \in tokens,
               NEW kind \in {"oauth_token", "oauth_revoke", "oauth_access"}, OAuthLookup(c, t, kind)
        PROVE  Goal
    <2> DEFINE r == [op |-> kind, dev |-> t.dev, gen |-> t.gen, n |-> t.n, used |-> t.used]
    <2>1. call' = [call EXCEPT ![c] = r] /\ r.op \notin {"create", "promote"}
      BY <1>3 DEF OAuthLookup
    <2>2. ConnectionOnly /\ UNCHANGED <<dev, sess, approval>>
      BY <1>3 DEF OAuthLookup, ConnectionOnly
    <2> HIDE DEF r
    <2>3. NoGrant
      BY <1>0, <2>1, NoGrantBy
    <2> QED BY <2>2, <2>3 DEF ConnectionMove
  <1>4. ASSUME NEW c \in Calls, IssueTokens(c) PROVE Goal
    <2>1. call' = [call EXCEPT ![c] = Idle] /\ ConnectionOnly /\ UNCHANGED <<dev, sess, approval>>
      BY <1>4 DEF IssueTokens, ConnectionOnly
    <2>2. NoGrant
      BY <1>0, <2>1, NoGrantBy
    <2> QED BY <2>1, <2>2 DEF ConnectionMove
  <1>5. ASSUME NEW c \in Calls, ReplayedRefresh(c) \/ oauthRevoke(c) PROVE Goal
    <2>1. PICK t \in Reread(c) : EndConnection(t.dev)
      BY <1>5 DEF ReplayedRefresh, oauthRevoke
    <2>2. call' = [call EXCEPT ![c] = Idle] /\ ConnectionOnly /\ approval' = approval
      BY <1>5 DEF ReplayedRefresh, oauthRevoke, ConnectionOnly
    <2>3. Ends(t.dev) /\ t.dev \in Devices
      BY <2>1, <2>2, RereadRow DEF Ends, Enrolled
    <2>4. NoGrant
      BY <1>0, <2>2, NoGrantBy
    <2> QED BY <2>2, <2>3, <2>4 DEF ConnectionMove
  <1>6. ASSUME NEW c \in Calls, NEW s \in Sessions, oauthExecution(c, s) PROVE Goal
    <2>1. PICK t \in Reread(c) : Grantable(t) /\ commitConnectorExecution(t.dev, s)
      BY <1>6 DEF oauthExecution
    <2>2. call' = [call EXCEPT ![c] = Idle] /\ ConnectionOnly /\ UNCHANGED <<dev, approval>>
      BY <1>6 DEF oauthExecution, ConnectionOnly
    <2>3. Starts(t.dev, s) /\ t.dev \in Devices
      BY <2>1, <2>2, RereadRow DEF Starts, Enrolled, Grantable
    <2>4. NoGrant
      BY <1>0, <2>2, NoGrantBy
    <2> QED BY <2>2, <2>3, <2>4 DEF ConnectionMove
  <1>7. ASSUME NEW t \in tokens, ExpireToken(t) PROVE Goal
    BY <1>7 DEF ExpireToken, accessVars, ConnectionMove, NoGrant, ConnectionOnly
  <1>8. ASSUME MaintainTokens PROVE Goal
    BY <1>8 DEF MaintainTokens, accessVars, ConnectionMove, NoGrant, ConnectionOnly
  <1> HIDE DEF Goal
  <1>9. Goal
    BY <1>1, <1>2, <1>3, <1>4, <1>5, <1>6, <1>7, <1>8, Zenon DEF OAuthStep
  <1> QED BY <1>9 DEF Goal

-----------------------------------------------------------------------------
(* A leased session keeps its authority through each of these moves.       *)
Authorized(s) ==
  sess[s].live =>
    LET d == sess[s].dev IN
    /\ d \in Enrolled /\ dev[d].gen = sess[s].gen /\ dev[d].status # "revoked"
    /\ Member(dev[d].w, dev[d].user) /\ ws[dev[d].w] = "open"

(* The authority of executions, said of each started one by itself.        *)
LEMMA AuthorityOfAll == ExecutionHasAuthority <=> \A s \in Started : Authorized(s)
  BY DEF ExecutionHasAuthority, Authorized

(* What a session that is still leased needs: it was leased before, and    *)
(* its connection, its member and its workspace have not changed for it.   *)
CredentialKept(d) ==
  dev[d] # Nothing /\ dev[d].status \notin {"deleted", "revoked"} =>
    /\ dev'[d] # Nothing /\ dev'[d].status \notin {"deleted", "revoked"}
    /\ dev'[d].w = dev[d].w /\ dev'[d].user = dev[d].user /\ dev'[d].gen = dev[d].gen
    /\ Member(dev[d].w, dev[d].user) => role'[dev[d].w][dev[d].user] # "none"
    /\ ws[dev[d].w] = "open" => ws'[dev[d].w] = "open"

(* A started execution keeps its authority when its connection, member and *)
(* workspace are kept for as long as it is leased.                         *)
LEMMA AuthorityKept ==
  ASSUME NEW s \in Started, Authorized(s),
         sess'[s].live => sess[s].live /\ sess'[s].dev = sess[s].dev /\ sess'[s].gen = sess[s].gen,
         sess'[s].live => CredentialKept(sess[s].dev)
  PROVE  Authorized(s)'
  BY DEF Authorized, Enrolled, Member, CredentialKept

(* A step on connections leaves alone the sessions whose leases it does    *)
(* not end: they run on other connections.                                 *)
LEMMA ConnectionAuthority ==
  ASSUME AccessTypeOK, ExecutionHasAuthority, NEW K \in SUBSET Kinds, ConnectionMove(K),
         ConnectionOnly
  PROVE  ExecutionHasAuthority'
  <1> SUFFICES ASSUME NEW s \in Sessions, sess'[s] # Nothing PROVE Authorized(s)'
    BY DEF ExecutionHasAuthority, Authorized, Started
  <1>0. s \in Started => Authorized(s) /\ sess[s] \in SessionRows
    BY AuthorityOfAll DEF Started, AccessTypeOK
  <1>1r. UNCHANGED <<ws, role>>
    BY DEF ConnectionOnly
  <1>1. ASSUME NEW u \in Users, NEW w \in Workspaces, NEW d \in Devices, NEW k \in K,
               NEW p \in Approvals \union {Nothing}, Grants(u, w, d, k, p)
        PROVE  Authorized(s)'
    <2> Connected(u, w, d, k, p)
      BY <1>1, ConnectStep DEF Grants
    <2>1. PICK r \in DeviceRows :
            /\ dev' = [dev EXCEPT ![d] = r]
            /\ \/ dev[d] = Nothing /\ sess' = sess
               \/ d \in DevicesOf(w, u) /\ sess' = retireHostedSessions({d})
      BY DEF Connected
    <2>2. /\ sess[s] # Nothing
          /\ sess'[s].live =>
               sess[s].live /\ sess'[s].dev = sess[s].dev /\ sess'[s].gen = sess[s].gen
      BY <2>1, Retired
    <2>3. s \in Started
      BY <2>2 DEF Started
    <2>4. sess'[s].live => sess[s].dev # d
      <3>1. sess[s].live => sess[s].dev \in Enrolled
        BY <1>0, <2>3 DEF Authorized
      <3> QED BY <2>1, <2>2, <3>1, Retired DEF Enrolled
    <2>5. sess'[s].live => dev'[sess[s].dev] = dev[sess[s].dev]
      BY <2>1, <2>4 DEF AccessTypeOK
    <2>6. sess'[s].live => CredentialKept(sess[s].dev)
      BY <1>1r, <2>5 DEF CredentialKept, Member
    <2> QED BY <1>0, <2>2, <2>3, <2>6, AuthorityKept
  <1>2. ASSUME NEW d \in Devices, Ends(d) PROVE Authorized(s)'
    <2>1. /\ dev' = [dev EXCEPT ![d] = [dev[d] EXCEPT !.status = "revoked"]]
          /\ sess' = retireHostedSessions({d})
      BY <1>2, EndStep DEF Ends
    <2>2. /\ s \in Started
          /\ sess'[s].live => /\ sess[s].live /\ sess[s].dev # d
                              /\ sess'[s].dev = sess[s].dev /\ sess'[s].gen = sess[s].gen
      BY <2>1, Retired DEF Started
    <2>3. sess'[s].live => dev'[sess[s].dev] = dev[sess[s].dev]
      BY <2>1, <2>2 DEF AccessTypeOK
    <2>4. sess'[s].live => CredentialKept(sess[s].dev)
      BY <1>1r, <2>3 DEF CredentialKept, Member
    <2> QED BY <1>0, <2>2, <2>4, AuthorityKept
  <1>3. ASSUME NEW d \in Devices, Marks(d) PROVE Authorized(s)'
    <2> Marked(d)
      BY <1>3, MarkStep
    <2>1. PICK r \in DeviceRows :
            /\ dev' = [dev EXCEPT ![d] = r] /\ sess' = sess
            /\ r.w = dev[d].w /\ r.user = dev[d].user /\ r.gen = dev[d].gen
            /\ r.status = dev[d].status \/ r.status = "expired"
      BY DEF Marked
    <2>2. \A e \in Devices : dev'[e] = IF e = d THEN r ELSE dev[e]
      BY <2>1 DEF AccessTypeOK
    <2>3. \A e \in Devices : CredentialKept(e)
      BY <1>1r, <2>1, <2>2, NothingIsNoRow DEF CredentialKept, Member
    <2>4. s \in Started
      BY <2>1 DEF Started
    <2>5. sess[s].dev \in Devices
      BY <1>0, <2>4 DEF SessionRows
    <2> QED BY <1>0, <2>1, <2>3, <2>4, <2>5, AuthorityKept
  <1>4. ASSUME NEW d \in Devices, NEW q \in Sessions, Starts(d, q) PROVE Authorized(s)'
    <2>1. /\ d \in Enrolled /\ dev[d].status = "live" /\ Member(dev[d].w, dev[d].user)
          /\ dev' = dev
      BY <1>4 DEF Starts
    <2>2. /\ ws[dev[d].w] = "open"
          /\ \/ sess' = sess
             \/ sess' = [sess EXCEPT ![q] = [dev |-> d, gen |-> dev[d].gen, live |-> TRUE]]
      BY <1>4, StartStep DEF Starts
    <2>3. CASE sess'[s] = sess[s]
      <3>1. CredentialKept(sess[s].dev)
        BY <1>1r, <2>1 DEF CredentialKept, Member
      <3>2. s \in Started
        BY <2>3 DEF Started
      <3> QED BY <1>0, <2>3, <3>1, <3>2, AuthorityKept
    <2>4. CASE sess'[s] = [dev |-> d, gen |-> dev[d].gen, live |-> TRUE]
      BY <1>1r, <2>1, <2>2, <2>4 DEF Authorized, Enrolled, Member
    <2> QED BY <2>2, <2>3, <2>4 DEF AccessTypeOK
  <1>5. CASE UNCHANGED <<dev, sess>>
    <2>1. CredentialKept(sess[s].dev) /\ s \in Started
      BY <1>1r, <1>5 DEF CredentialKept, Started, Member
    <2> QED BY <1>0, <1>5, <2>1, AuthorityKept
  <1>6. ASSUME NEW q \in Sessions, Lapses(q) PROVE Authorized(s)'
    <2>1. q \in Started /\ sess' = [sess EXCEPT ![q].live = FALSE] /\ dev' = dev
      BY <1>6 DEF Lapses
    <2>2. s \in Started
      BY <2>1 DEF Started, AccessTypeOK
    <2>3. sess'[s].live => sess'[s] = sess[s]
      BY <1>0, <2>1, <2>2 DEF AccessTypeOK, SessionRows
    <2>4. CredentialKept(sess[s].dev)
      BY <1>1r, <2>1 DEF CredentialKept, Member
    <2> QED BY <1>0, <2>2, <2>3, <2>4, AuthorityKept
  <1>7. ASSUME NEW p \in Approvals, Notes(p) PROVE UNCHANGED <<dev, sess>>
    BY <1>7 DEF Notes
  <1>8. ConnectionMove(K)
    OBVIOUS
  <1> QED BY <1>1, <1>2, <1>3, <1>4, <1>5, <1>6, <1>7, <1>8, Zenon DEF ConnectionMove

(* Most steps on accounts: no member leaves, no workspace closes.          *)
LEMMA AuthoritySpared ==
  ASSUME AccessTypeOK, ExecutionHasAuthority, UNCHANGED <<dev, sess>>,
         \A w \in Workspaces, u \in Users : Member(w, u) => role'[w][u] # "none",
         \A w \in Workspaces : ws[w] = "open" => ws'[w] = "open"
  PROVE  ExecutionHasAuthority'
  <1> SUFFICES ASSUME NEW s \in Started PROVE Authorized(s)'
    BY DEF ExecutionHasAuthority, Authorized, Started
  <1>1. Authorized(s) /\ (sess[s].live => sess[s].dev \in Enrolled)
    BY AuthorityOfAll DEF Authorized
  <1>2. sess[s].live => CredentialKept(sess[s].dev)
    BY <1>1, EnrolledRow DEF CredentialKept, Enrolled
  <1> QED BY <1>1, <1>2, AuthorityKept

(* The account and invitation steps end the leases of the connections      *)
(* whose member or workspace they take away.                               *)
LEMMA AccountAuthority ==
  ASSUME AccessTypeOK, ExecutionHasAuthority, AccountStep
  PROVE  ExecutionHasAuthority'
  <1>1. ASSUME NEW c \in Calls, NEW u \in Users, NEW w \in Workspaces, CreateBegin(c, u, w)
        PROVE  ExecutionHasAuthority'
    <2>1. UNCHANGED <<ws, role, dev, sess>>
      BY <1>1 DEF CreateBegin
    <2> QED BY <2>1, AuthoritySpared DEF Member
  <1>2. ASSUME NEW c \in Calls, NEW u \in Users, NEW w \in Workspaces, NEW a \in Users,
               PromoteBegin(c, a, w, u)
        PROVE  ExecutionHasAuthority'
    <2>1. UNCHANGED <<ws, role, dev, sess>>
      BY <1>2 DEF PromoteBegin
    <2> QED BY <2>1, AuthoritySpared DEF Member
  <1>3. ASSUME NEW c \in Calls, CreateCommit(c) PROVE ExecutionHasAuthority'
    <2> DEFINE u == call[c].u
               w == call[c].w
    <2>1. /\ ws' = [ws EXCEPT ![w] = "open"] /\ role' = [role EXCEPT ![w][u] = "owner"]
          /\ UNCHANGED <<dev, sess>>
      BY <1>3 DEF CreateCommit
    <2> HIDE DEF u, w
    <2>2. \A x \in Workspaces, v \in Users : Member(x, v) => role'[x][v] # "none"
      BY <2>1 DEF Member, AccessTypeOK
    <2>3. \A x \in Workspaces : ws[x] = "open" => ws'[x] = "open"
      BY <2>1 DEF AccessTypeOK
    <2> QED BY <2>1, <2>2, <2>3, AuthoritySpared
  <1>4. ASSUME NEW c \in Calls, PromoteCommit(c) PROVE ExecutionHasAuthority'
    <2> DEFINE u == call[c].u
               w == call[c].w
    <2>1. /\ role' = [role EXCEPT ![w][u] = "owner"] /\ UNCHANGED <<ws, dev, sess>>
      BY <1>4 DEF PromoteCommit
    <2> HIDE DEF u, w
    <2>2. \A x \in Workspaces, v \in Users : Member(x, v) => role'[x][v] # "none"
      BY <2>1 DEF Member, AccessTypeOK
    <2> QED BY <2>1, <2>2, AuthoritySpared
  <1>5. ASSUME NEW c \in Calls, AcceptInvite(c) PROVE ExecutionHasAuthority'
    <2> DEFINE u == call[c].u
               i == call[c].i
               w == invite[i].w
    <2>1. /\ role' = [role EXCEPT ![w][u] = IF role[w][u] = "none" THEN invite[i].role ELSE role[w][u]]
          /\ UNCHANGED <<ws, dev, sess>> /\ i \in LiveInvites
      BY <1>5 DEF AcceptInvite
    <2>2. invite[i].role # "none"
      BY <2>1 DEF LiveInvites, AccessTypeOK, InviteRows
    <2> HIDE DEF u, w, i
    <2>3. \A x \in Workspaces, v \in Users : Member(x, v) => role'[x][v] # "none"
      BY <2>1, <2>2 DEF Member, AccessTypeOK
    <2> QED BY <2>1, <2>3, AuthoritySpared
  <1>6. ASSUME NEW u \in Users, EndTrial(u) PROVE ExecutionHasAuthority'
    <2>1. UNCHANGED <<ws, role, dev, sess>>
      BY <1>6 DEF EndTrial
    <2> QED BY <2>1, AuthoritySpared DEF Member
  <1>7. ASSUME NEW i \in Invites, ExpireInvite(i) PROVE ExecutionHasAuthority'
    <2>1. UNCHANGED <<ws, role, dev, sess>>
      BY <1>7 DEF ExpireInvite
    <2> QED BY <2>1, AuthoritySpared DEF Member
  <1>8. ASSUME NEW c \in Calls, NEW u \in Users, NEW i \in Invites, LookupInvite(c, u, i)
        PROVE  ExecutionHasAuthority'
    <2>1. UNCHANGED <<ws, role, dev, sess>>
      BY <1>8 DEF LookupInvite
    <2> QED BY <2>1, AuthoritySpared DEF Member
  <1>9. ASSUME NEW a \in Users, NEW u \in Users, NEW w \in Workspaces, NEW i \in Invites,
               NEW r \in {"member", "admin"}, Invite(a, w, i, u, r)
        PROVE  ExecutionHasAuthority'
    <2>1. UNCHANGED <<ws, role, dev, sess>>
      BY <1>9 DEF Invite
    <2> QED BY <2>1, AuthoritySpared DEF Member
  <1>10. ASSUME NEW a \in Users, NEW u \in Users, NEW w \in Workspaces,
                NEW r \in {"none", "member", "admin", "owner"}, ChangeMember(a, w, u, r)
         PROVE  ExecutionHasAuthority'
    <2>1. role' = [role EXCEPT ![w][u] = r] /\ UNCHANGED ws
      BY <1>10 DEF ChangeMember
    <2>2. CASE r = "none"
      <3> SUFFICES ASSUME NEW s \in Sessions, sess'[s] # Nothing PROVE Authorized(s)'
        BY DEF ExecutionHasAuthority, Authorized, Started
      <3>1. Cascade(DevicesOf(w, u)) /\ DevicesOf(w, u) \in SUBSET Enrolled
        BY <1>10, <2>2 DEF ChangeMember, DevicesOf, DevicesIn
      <3>2. /\ s \in Started /\ sess'[s] = sess[s] /\ sess[s].dev \notin DevicesOf(w, u)
            /\ \A d \in Devices : d \notin DevicesOf(w, u) => dev'[d] = dev[d]
        BY <3>1, CascadeRows
      <3>3. Authorized(s) /\ (sess[s].live => sess[s].dev \in Enrolled)
        BY <3>2, AuthorityOfAll DEF Authorized
      <3>4. sess[s].live => ~(dev[sess[s].dev].w = w /\ dev[sess[s].dev].user = u)
        BY <3>2, <3>3 DEF DevicesOf, DevicesIn
      <3>5. sess[s].live => /\ dev[sess[s].dev].w \in Workspaces /\ dev[sess[s].dev].user \in Users
                            /\ sess[s].dev \in Devices
        BY <3>3, EnrolledRow
      <3>6. sess[s].live => CredentialKept(sess[s].dev)
        BY <2>1, <3>2, <3>4, <3>5 DEF CredentialKept, Member, AccessTypeOK
      <3> QED BY <3>2, <3>3, <3>6, AuthorityKept
    <2>3. CASE r # "none"
      <3>1. UNCHANGED <<dev, sess>>
        BY <1>10, <2>3 DEF ChangeMember
      <3>2. \A x \in Workspaces, v \in Users : Member(x, v) => role'[x][v] # "none"
        BY <2>1, <2>3 DEF Member, AccessTypeOK
      <3> QED BY <2>1, <3>1, <3>2, AuthoritySpared
    <2> QED BY <2>2, <2>3
  <1> QED
    BY <1>1, <1>2, <1>3, <1>4, <1>5, <1>6, <1>7, <1>8, <1>9, <1>10, Zenon DEF AccountStep

(* So do the steps that close, pause or delete a whole workspace.          *)
LEMMA WorkspaceAuthority ==
  ASSUME AccessTypeOK, ExecutionHasAuthority, WorkspaceStep
  PROVE  ExecutionHasAuthority'
  <1>1. ASSUME NEW w \in Workspaces, UNCHANGED role, sess' = retireHostedSessions(DevicesIn(w)),
               \A x \in Workspaces : x # w => ws'[x] = ws[x],
               \A d \in Devices : d \notin DevicesIn(w) => dev'[d] = dev[d]
        PROVE  ExecutionHasAuthority'
    <2> SUFFICES ASSUME NEW s \in Sessions, sess'[s] # Nothing PROVE Authorized(s)'
      BY DEF ExecutionHasAuthority, Authorized, Started
    <2>1. /\ s \in Started
          /\ sess'[s].live => /\ sess[s].live /\ sess[s].dev \notin DevicesIn(w)
                              /\ sess'[s].dev = sess[s].dev /\ sess'[s].gen = sess[s].gen
      BY <1>1, Retired DEF Started
    <2>2. Authorized(s) /\ (sess[s].live => sess[s].dev \in Enrolled)
      BY <2>1, AuthorityOfAll DEF Authorized
    <2>3. sess'[s].live => dev[sess[s].dev].w # w
      BY <2>1, <2>2 DEF DevicesIn
    <2>4. sess[s].live => dev[sess[s].dev].w \in Workspaces /\ sess[s].dev \in Devices
      BY <2>2, EnrolledRow
    <2>5. sess'[s].live => CredentialKept(sess[s].dev)
      BY <1>1, <2>1, <2>3, <2>4 DEF CredentialKept, Member
    <2> QED BY <2>1, <2>2, <2>5, AuthorityKept
  <1>2. ASSUME NEW w \in Workspaces, finishWorkspaceDeletion(w) PROVE ExecutionHasAuthority'
    <2> SUFFICES ASSUME NEW s \in Sessions, sess'[s] # Nothing PROVE Authorized(s)'
      BY DEF ExecutionHasAuthority, Authorized, Started
    <2>0. Cascade(DevicesIn(w)) /\ DevicesIn(w) \in SUBSET Enrolled
      BY <1>2 DEF finishWorkspaceDeletion, DevicesIn
    <2>1. /\ s \in Started /\ sess'[s] = sess[s] /\ sess[s].dev \notin DevicesIn(w)
          /\ \A d \in Devices : d \notin DevicesIn(w) => dev'[d] = dev[d]
      BY <2>0, CascadeRows
    <2>2. Authorized(s) /\ (sess[s].live => sess[s].dev \in Enrolled)
      BY <2>1, AuthorityOfAll DEF Authorized
    <2>3. sess[s].live => /\ dev[sess[s].dev].w # w /\ dev[sess[s].dev].w \in Workspaces
                          /\ sess[s].dev \in Devices
      BY <2>1, <2>2, EnrolledRow DEF DevicesIn
    <2>4. /\ ws' = [ws EXCEPT ![w] = "gone"]
          /\ role' = [role EXCEPT ![w] = [u \in Users |-> "none"]]
      BY <1>2 DEF finishWorkspaceDeletion
    <2>5. sess[s].live => CredentialKept(sess[s].dev)
      BY <2>1, <2>3, <2>4 DEF CredentialKept, Member, AccessTypeOK
    <2> QED BY <2>1, <2>2, <2>5, AuthorityKept
  <1>3. ASSUME NEW w \in Workspaces, NEW b \in BOOLEAN, SetPaid(w, b) PROVE ExecutionHasAuthority'
    <2>1. UNCHANGED <<ws, role, dev, sess>>
      BY <1>3 DEF SetPaid
    <2> QED BY <2>1, AuthoritySpared DEF Member
  <1>4. ASSUME NEW w \in Workspaces, NEW u \in Users, requestWorkspaceDeletion(u, w)
        PROVE  ExecutionHasAuthority'
    BY <1>1, <1>4 DEF requestWorkspaceDeletion, AccessTypeOK
  <1>5. ASSUME NEW w \in Workspaces, NEW u \in Users, NEW b \in BOOLEAN, PauseWorkspace(u, w, b)
        PROVE  ExecutionHasAuthority'
    <2>1. CASE b
      BY <1>1, <1>5, <2>1 DEF PauseWorkspace, AccessTypeOK
    <2>2. CASE ~b
      <3>1. ws' = [ws EXCEPT ![w] = "open"] /\ UNCHANGED <<role, dev, sess>>
        BY <1>5, <2>2 DEF PauseWorkspace
      <3>2. \A x \in Workspaces : ws[x] = "open" => ws'[x] = "open"
        BY <3>1 DEF AccessTypeOK
      <3> QED BY <3>1, <3>2, AuthoritySpared DEF Member
    <2> QED BY <2>1, <2>2
  <1> QED BY <1>2, <1>3, <1>4, <1>5, Zenon DEF WorkspaceStep

-----------------------------------------------------------------------------
(* Ownership: what is counted under the account's lock stays true until it *)
(* is written.                                                             *)

(* Nobody owns more than before and no grant begins.                       *)
LEMMA CountKept ==
  ASSUME HostedLimits, OwnershipCounted,
         \A u \in Users : Owned(u)' \subseteq Owned(u),
         \A c \in Calls, u \in Users : GrantingTo(c, u)' => GrantingTo(c, u)
  PROVE  OwnershipCounted'
  <1>1. \A u \in Users : /\ IsFiniteSet(Owned(u)') /\ Cardinality(Owned(u)') <= Cardinality(Owned(u))
                         /\ Cardinality(Owned(u)) \in Nat /\ Cardinality(Owned(u)') \in Nat
    BY FS_Subset, FS_CardinalityType DEF OwnershipCounted
  <1>2. OwnedLimit \in Nat
    BY DEF HostedLimits
  <1>3. \A u \in Users : /\ IsFiniteSet(Owned(u)') /\ Cardinality(Owned(u)') <= OwnedLimit
                         /\ Cardinality(Owned(u)) < OwnedLimit => Cardinality(Owned(u)') < OwnedLimit
    BY <1>1, <1>2 DEF OwnershipCounted
  <1> QED BY <1>3 DEF OwnershipCounted

(* A grant is written and its request ends.                                *)
LEMMA GrantWritten ==
  ASSUME HostedLimits, AccessTypeOK, OwnershipCounted, NEW c \in Calls, Granting(c),
         role' = [role EXCEPT ![call[c].w][call[c].u] = "owner"],
         call' = [call EXCEPT ![c] = Idle]
  PROVE  OwnershipCounted'
  <1>0. OwnedLimit \in Nat
    BY DEF HostedLimits
  <1>1. PICK o \in Users, w \in Workspaces : o = call[c].u /\ w = call[c].w
    BY RequestParts
  <1>2. Owned(o)' = Owned(o) \union {w}
    BY <1>1 DEF Owned, AccessTypeOK
  <1>3. \A u \in Users : u # o => Owned(u)' = Owned(u)
    BY <1>1 DEF Owned, AccessTypeOK
  <1>4. /\ IsFiniteSet(Owned(o)) /\ Cardinality(Owned(o)) < OwnedLimit
        /\ Cardinality(Owned(o)) \in Nat
    BY <1>1, FS_CardinalityType DEF OwnershipCounted, GrantingTo
  <1>5. IsFiniteSet(Owned(o)') /\ Cardinality(Owned(o)') <= OwnedLimit
    <2>1. /\ IsFiniteSet(Owned(o) \union {w})
          /\ Cardinality(Owned(o) \union {w}) \in {Cardinality(Owned(o)), Cardinality(Owned(o)) + 1}
      BY <1>4, FS_AddElement
    <2>2. \A n, m \in Nat : n < m /\ OwnedLimit = m => n + 1 <= OwnedLimit /\ n <= OwnedLimit
      OBVIOUS
    <2>3. Cardinality(Owned(o) \union {w}) <= OwnedLimit
      BY <1>0, <1>4, <2>1, <2>2
    <2> QED BY <1>2, <2>1, <2>3
  <1>6. \A b \in Calls, u \in Users : GrantingTo(b, u)' => GrantingTo(b, u) /\ b # c
    BY DEF GrantingTo, Granting, AccessTypeOK, Idle
  <1>7. \A b \in Calls, u \in Users : GrantingTo(b, u)' => u # o
    BY <1>1, <1>6 DEF OwnershipCounted, GrantingTo
  <1>8. \A u \in Users : IsFiniteSet(Owned(u)') /\ Cardinality(Owned(u)') <= OwnedLimit
    BY <1>3, <1>5 DEF OwnershipCounted
  <1>9. \A b \in Calls, u \in Users : GrantingTo(b, u)' => Cardinality(Owned(u)') < OwnedLimit
    BY <1>3, <1>6, <1>7 DEF OwnershipCounted
  <1>10. \A a, b \in Calls, u \in Users : GrantingTo(a, u)' /\ GrantingTo(b, u)' => a = b
    BY <1>6 DEF OwnershipCounted
  <1> QED BY <1>8, <1>9, <1>10 DEF OwnershipCounted

(* A grant begins: the account owns fewer than it may, and nothing else is *)
(* being granted to it.                                                    *)
LEMMA GrantBegun ==
  ASSUME AccessTypeOK, OwnershipCounted, NEW c \in Calls, NEW o \in Users, NEW r,
         r.u = o, checkHostedOwnershipLimit(o), UNCHANGED role,
         call' = [call EXCEPT ![c] = r]
  PROVE  OwnershipCounted'
  <1>1. \A b \in Calls, u \in Users : GrantingTo(b, u)' => GrantingTo(b, u) \/ (b = c /\ u = o)
    BY DEF GrantingTo, Granting, AccessTypeOK
  <1>2. Cardinality(Owned(o)) < OwnedLimit /\ \A b \in Calls : ~GrantingTo(b, o)
    BY DEF checkHostedOwnershipLimit, AccountHeld, GrantingTo, Granting
  <1>3. \A u \in Users : Owned(u)' = Owned(u)
    BY DEF Owned
  <1> QED BY <1>1, <1>2, <1>3 DEF OwnershipCounted

-----------------------------------------------------------------------------
(* What the other rules of accounts need of a step.                        *)
LEMMA OwnersKept ==
  ASSUME OwnerRemains,
         \A w \in Workspaces : ws'[w] \notin {"none", "gone"} => ws[w] \notin {"none", "gone"},
         \A w \in Workspaces, u \in Users : role[w][u] = "owner" => role'[w][u] = "owner"
  PROVE  OwnerRemains'
  BY DEF OwnerRemains, Owners

(* Invitations stand across a step that removes no member and makes none   *)
(* live.                                                                   *)
LEMMA InvitesKept ==
  ASSUME AccessTypeOK, InvitesStand,
         \A w \in Workspaces, u \in Users : Member(w, u) => role'[w][u] # "none",
         \A i \in LiveInvites' : /\ i \in LiveInvites
                                 /\ invite'[i].w = invite[i].w /\ invite'[i].by = invite[i].by
  PROVE  InvitesStand'
  <1>1. \A i \in LiveInvites : invite[i].w \in Workspaces /\ invite[i].by \in Users
    BY DEF LiveInvites, AccessTypeOK, InviteRows
  <1> QED BY <1>1 DEF InvitesStand, Member

(* Trials run across a step that starts none.                              *)
LEMMA TrialsKept ==
  ASSUME TrialsRunning,
         \A w \in Workspaces : hosting'[w].on = "trial" =>
           hosting[w].on = "trial" /\ hosting'[w].by = hosting[w].by,
         UNCHANGED trialOf
  PROVE  TrialsRunning'
  BY DEF TrialsRunning

(* A step that begins no grant of ownership leaves fewer of them pending.  *)
LEMMA NoGrantKept ==
  ASSUME NoGrant
  PROVE  \A c \in Calls, u \in Users : GrantingTo(c, u)' => GrantingTo(c, u)
  BY DEF NoGrant, GrantingTo, Granting

AccountRules == OwnerRemains /\ OwnershipCounted /\ InvitesStand /\ TrialsRunning

(* A step that changes none of what these rules are about, and grants      *)
(* nothing.                                                                *)
LEMMA RulesSpared ==
  ASSUME HostedLimits, AccessTypeOK, AccountRules, ConnectionOnly, NoGrant
  PROVE  AccountRules'
  <1>1. OwnerRemains'
    BY OwnersKept DEF AccountRules, ConnectionOnly
  <1>2. OwnershipCounted'
    BY NoGrantKept, CountKept DEF AccountRules, ConnectionOnly, Owned
  <1>3. InvitesStand'
    BY InvitesKept DEF AccountRules, ConnectionOnly, LiveInvites, Member
  <1>4. TrialsRunning'
    BY TrialsKept DEF AccountRules, ConnectionOnly
  <1> QED BY <1>1, <1>2, <1>3, <1>4 DEF AccountRules

(* The account steps keep the rules of ownership, invitations and trials.  *)
LEMMA AccountKeepsRules ==
  ASSUME HostedLimits, AccessTypeOK, AccountRules, AccountStep
  PROVE  AccountRules'
  <1>0. /\ OwnerRemains /\ OwnershipCounted /\ InvitesStand /\ TrialsRunning
        /\ Idle.op \notin {"create", "promote"}
    BY DEF AccountRules, Idle
  <1>1. ASSUME NEW c \in Calls, NEW u \in Users, NEW w \in Workspaces,
               CreateBegin(c, u, w) \/ \E a \in Users : PromoteBegin(c, a, w, u)
        PROVE  AccountRules'
    <2>1. UNCHANGED <<ws, hosting, trialOf, role, invite>> /\ checkHostedOwnershipLimit(u)
      BY <1>1 DEF CreateBegin, PromoteBegin
    <2>2. PICK r : r.u = u /\ call' = [call EXCEPT ![c] = r]
      BY <1>1 DEF CreateBegin, PromoteBegin
    <2>3. OwnershipCounted'
      BY <1>0, <2>1, <2>2, GrantBegun
    <2>4. OwnerRemains'
      BY <1>0, <2>1, OwnersKept
    <2>5. InvitesStand'
      BY <1>0, <2>1, InvitesKept DEF LiveInvites, Member
    <2>6. TrialsRunning'
      BY <1>0, <2>1, TrialsKept
    <2> QED BY <2>3, <2>4, <2>5, <2>6 DEF AccountRules
  <1>2. ASSUME NEW c \in Calls, CreateCommit(c) PROVE AccountRules'
    <2>1. PICK u \in Users, w \in Workspaces : u = call[c].u /\ w = call[c].w
      BY <1>2, RequestParts DEF CreateCommit, Granting
    <2>2. /\ ws' = [ws EXCEPT ![w] = "open"] /\ role' = [role EXCEPT ![w][u] = "owner"]
          /\ hosting' = [hosting EXCEPT ![w] = [by |-> u, on |-> TrialFor(u)]]
          /\ trialOf' = [trialOf EXCEPT ![u] = IF @ = "none" THEN "running" ELSE @]
          /\ invite' = invite /\ call' = [call EXCEPT ![c] = Idle] /\ Granting(c)
      BY <1>2, <2>1 DEF CreateCommit, Granting
    <2>3. OwnershipCounted'
      BY <1>0, <2>1, <2>2, GrantWritten
    <2>4. OwnerRemains'
      BY <1>0, <2>2 DEF OwnerRemains, Owners, AccessTypeOK
    <2>5. InvitesStand'
      BY <1>0, <2>2, InvitesKept DEF LiveInvites, Member, AccessTypeOK
    <2>6. TrialsRunning'
      BY <1>0, <2>2 DEF TrialsRunning, TrialFor, AccessTypeOK
    <2> QED BY <2>3, <2>4, <2>5, <2>6 DEF AccountRules
  <1>3. ASSUME NEW c \in Calls, PromoteCommit(c) PROVE AccountRules'
    <2>1. PICK u \in Users, w \in Workspaces : u = call[c].u /\ w = call[c].w
      BY <1>3, RequestParts DEF PromoteCommit, Granting
    <2>2. /\ role' = [role EXCEPT ![w][u] = "owner"] /\ UNCHANGED <<ws, hosting, trialOf, invite>>
          /\ call' = [call EXCEPT ![c] = Idle] /\ Granting(c)
      BY <1>3, <2>1 DEF PromoteCommit, Granting
    <2>3. OwnershipCounted'
      BY <1>0, <2>1, <2>2, GrantWritten
    <2>4. OwnerRemains'
      BY <1>0, <2>2, OwnersKept DEF AccessTypeOK
    <2>5. InvitesStand'
      BY <1>0, <2>2, InvitesKept DEF LiveInvites, Member, AccessTypeOK
    <2>6. TrialsRunning'
      BY <1>0, <2>2, TrialsKept
    <2> QED BY <2>3, <2>4, <2>5, <2>6 DEF AccountRules
  <1>4. ASSUME NEW c \in Calls, AcceptInvite(c) PROVE AccountRules'
    <2>1. PICK u \in Users, i \in LiveInvites : u = call[c].u /\ i = call[c].i
      BY <1>4, RequestParts DEF AcceptInvite
    <2>2. invite[i] \in InviteRows
      BY DEF LiveInvites, AccessTypeOK
    <2>3. PICK w \in Workspaces : w = invite[i].w
      BY <2>2 DEF InviteRows
    <2>4. /\ role' = [role EXCEPT ![w][u] = IF @ = "none" THEN invite[i].role ELSE @]
          /\ invite' = [invite EXCEPT ![i].status = "consumed"]
          /\ call' = [call EXCEPT ![c] = Idle] /\ UNCHANGED <<ws, hosting, trialOf>>
      BY <1>4, <2>1, <2>3 DEF AcceptInvite
    <2>5. invite[i].role \in {"member", "admin"}
      BY <2>2 DEF InviteRows
    <2>6. /\ \A x \in Workspaces, v \in Users : role'[x][v] = "owner" <=> role[x][v] = "owner"
          /\ \A x \in Workspaces, v \in Users : Member(x, v) => role'[x][v] # "none"
      BY <2>4, <2>5 DEF Member, AccessTypeOK
    <2>7. NoGrant
      BY <1>0, <2>4, NoGrantBy
    <2>8. OwnershipCounted'
      <3>1. \A v \in Users : Owned(v)' \subseteq Owned(v)
        BY <2>6 DEF Owned
      <3>2. \A b \in Calls, v \in Users : GrantingTo(b, v)' => GrantingTo(b, v)
        BY <2>7, NoGrantKept
      <3> QED BY <1>0, <3>1, <3>2, CountKept
    <2>9. OwnerRemains'
      BY <1>0, <2>4, <2>6, OwnersKept
    <2>10. \A j \in LiveInvites' : j \in LiveInvites /\ invite'[j] = invite[j]
      BY <2>2, <2>4, InviteColumn DEF LiveInvites, AccessTypeOK
    <2>11. InvitesStand'
      <3>1. \A x \in Workspaces, v \in Users : Member(x, v) => role'[x][v] # "none"
        BY <2>6
      <3>2. \A j \in LiveInvites' : /\ j \in LiveInvites
                                    /\ invite'[j].w = invite[j].w /\ invite'[j].by = invite[j].by
        BY <2>10
      <3> QED BY <1>0, <3>1, <3>2, InvitesKept
    <2>12. TrialsRunning'
      BY <1>0, <2>4, TrialsKept
    <2> QED BY <2>8, <2>9, <2>11, <2>12 DEF AccountRules
  <1>5. ASSUME NEW u \in Users, EndTrial(u) PROVE AccountRules'
    <2>1. UNCHANGED <<ws, role, invite, call>>
      BY <1>5 DEF EndTrial
    <2>2. OwnerRemains'
      BY <1>0, <2>1, OwnersKept
    <2>3. OwnershipCounted'
      BY <1>0, <2>1, CountKept DEF Owned, GrantingTo, Granting
    <2>4. InvitesStand'
      BY <1>0, <2>1, InvitesKept DEF LiveInvites, Member
    <2>5. TrialsRunning'
      BY <1>0, <1>5 DEF EndTrial, TrialsRunning, AccessTypeOK
    <2> QED BY <2>2, <2>3, <2>4, <2>5 DEF AccountRules
  <1>6. ASSUME NEW i \in Invites, ExpireInvite(i) PROVE AccountRules'
    <2>1. UNCHANGED <<ws, hosting, trialOf, role, call>>
      BY <1>6 DEF ExpireInvite
    <2>2. OwnerRemains'
      BY <1>0, <2>1, OwnersKept
    <2>3. OwnershipCounted'
      BY <1>0, <2>1, CountKept DEF Owned, GrantingTo, Granting
    <2>4. TrialsRunning'
      BY <1>0, <2>1, TrialsKept
    <2>5. invite' = [invite EXCEPT ![i].status = "expired"] /\ invite[i] \in InviteRows
      BY <1>6 DEF ExpireInvite, LiveInvites, AccessTypeOK
    <2>6. \A j \in LiveInvites' : j \in LiveInvites /\ invite'[j] = invite[j]
      BY <2>5, InviteColumn DEF LiveInvites, AccessTypeOK
    <2>7. InvitesStand'
      BY <1>0, <2>1, <2>6, InvitesKept DEF Member
    <2> QED BY <2>2, <2>3, <2>4, <2>7 DEF AccountRules
  <1>7. ASSUME NEW c \in Calls, NEW u \in Users, NEW i \in Invites, LookupInvite(c, u, i)
        PROVE  AccountRules'
    <2> DEFINE r == [op |-> "accept", u |-> u, i |-> i]
    <2>1. call' = [call EXCEPT ![c] = r] /\ r.op \notin {"create", "promote"}
      BY <1>7 DEF LookupInvite
    <2>2. ConnectionOnly
      BY <1>7 DEF LookupInvite, ConnectionOnly
    <2> HIDE DEF r
    <2> QED BY <2>1, <2>2, NoGrantBy, RulesSpared
  <1>8. ASSUME NEW a \in Users, NEW u \in Users, NEW w \in Workspaces, NEW i \in Invites,
               NEW r \in {"member", "admin"}, Invite(a, w, i, u, r)
        PROVE  AccountRules'
    <2>1. UNCHANGED <<ws, hosting, trialOf, role, call>>
      BY <1>8 DEF Invite
    <2>2. OwnerRemains'
      BY <1>0, <2>1, OwnersKept
    <2>3. OwnershipCounted'
      BY <1>0, <2>1, CountKept DEF Owned, GrantingTo, Granting
    <2>4. TrialsRunning'
      BY <1>0, <2>1, TrialsKept
    <2> DEFINE q == [w |-> w, to |-> u, role |-> r, by |-> a, status |-> "live"]
    <2>5. invite' = [invite EXCEPT ![i] = q] /\ q.w = w /\ q.by = a /\ Member(w, a)
      BY <1>8 DEF Invite, Member
    <2> HIDE DEF q
    <2>6. InvitesStand'
      BY <1>0, <2>1, <2>5 DEF InvitesStand, LiveInvites, Member, AccessTypeOK
    <2> QED BY <2>2, <2>3, <2>4, <2>6 DEF AccountRules
  <1>9. ASSUME NEW a \in Users, NEW u \in Users, NEW w \in Workspaces,
               NEW r \in {"none", "member", "admin", "owner"}, ChangeMember(a, w, u, r)
        PROVE  AccountRules'
    <2>1. /\ role' = [role EXCEPT ![w][u] = r] /\ UNCHANGED <<ws, hosting, trialOf, call>>
          /\ OwnerStays(w, u, r) /\ (r = "owner" => role[w][u] = "owner")
      BY <1>9 DEF ChangeMember
    <2>2. \A x \in Workspaces, v \in Users : role'[x][v] = "owner" => role[x][v] = "owner"
      BY <2>1 DEF AccessTypeOK
    <2>3. OwnershipCounted'
      BY <1>0, <2>1, <2>2, CountKept DEF Owned, GrantingTo, Granting
    <2>4. TrialsRunning'
      BY <1>0, <2>1, TrialsKept
    <2>5. OwnerRemains'
      <3>1. CASE role[w][u] = "owner" /\ r # "owner"
        <4>1. Cardinality(Owners(w)) > 1
          BY <2>1, <3>1 DEF OwnerStays
        <4>2. Owners(w) # {u} /\ Owners(w) # {}
          BY <4>1, FS_Singleton, FS_EmptySet
        <4>3. PICK v \in Owners(w) : v # u
          BY <4>2
        <4>4. \A x \in Workspaces : x # w => Owners(x)' = Owners(x)
          BY <2>1 DEF Owners, AccessTypeOK
        <4>5. v \in Owners(w)'
          BY <2>1, <4>3 DEF Owners, AccessTypeOK
        <4> QED BY <1>0, <2>1, <4>4, <4>5 DEF OwnerRemains
      <3>2. CASE ~(role[w][u] = "owner" /\ r # "owner")
        BY <1>0, <2>1, <3>2, OwnersKept DEF AccessTypeOK
      <3> QED BY <3>1, <3>2
    <2>6. InvitesStand'
      <3>1. CASE r # "none"
        <4>1. invite' = invite
          BY <1>9, <3>1 DEF ChangeMember
        <4> QED BY <1>0, <2>1, <3>1, <4>1, InvitesKept DEF LiveInvites, Member, AccessTypeOK
      <3>2. CASE r = "none"
        <4>1. invite' = [i \in Invites |-> IF i \in InvitesOf(w, u)
                                          THEN [invite[i] EXCEPT !.status = "revoked"] ELSE invite[i]]
          BY <1>9, <3>2 DEF ChangeMember
        <4>2. \A i \in LiveInvites : /\ invite[i] \in InviteRows
                                     /\ invite[i].w \in Workspaces /\ invite[i].by \in Users
          BY DEF LiveInvites, AccessTypeOK, InviteRows
        <4>3. \A i \in LiveInvites' : /\ i \in LiveInvites /\ i \notin InvitesOf(w, u)
                                      /\ invite'[i] = invite[i]
          BY <4>1, <4>2, InviteColumn DEF LiveInvites, InvitesOf
        <4>4. \A i \in LiveInvites' : ~(invite[i].w = w /\ invite[i].by = u)
          BY <4>3 DEF InvitesOf
        <4> QED BY <1>0, <2>1, <4>2, <4>3, <4>4 DEF InvitesStand, Member, AccessTypeOK
      <3> QED BY <3>1, <3>2
    <2> QED BY <2>3, <2>4, <2>5, <2>6 DEF AccountRules
  <1> QED BY <1>1, <1>2, <1>3, <1>4, <1>5, <1>6, <1>7, <1>8, <1>9, Zenon DEF AccountStep

(* So do the steps on a whole workspace.                                   *)
LEMMA WorkspaceKeepsRules ==
  ASSUME HostedLimits, AccessTypeOK, AccountRules, WorkspaceStep
  PROVE  AccountRules'
  <1>0. OwnerRemains /\ OwnershipCounted /\ InvitesStand /\ TrialsRunning
    BY DEF AccountRules
  <1>1. ASSUME NEW w \in Workspaces, finishWorkspaceDeletion(w) PROVE AccountRules'
    <2>1. /\ ws' = [ws EXCEPT ![w] = "gone"]
          /\ role' = [role EXCEPT ![w] = [u \in Users |-> "none"]]
          /\ hosting' = [hosting EXCEPT ![w].on = "inactive"] /\ UNCHANGED <<trialOf, call>>
          /\ invite' = [i \in Invites |-> IF invite[i] # Nothing /\ invite[i].w = w
                                          THEN [invite[i] EXCEPT !.status = "gone"] ELSE invite[i]]
      BY <1>1 DEF finishWorkspaceDeletion
    <2>2. OwnerRemains'
      BY <1>0, <2>1 DEF OwnerRemains, Owners, AccessTypeOK
    <2>3. \A u \in Users : Owned(u)' \subseteq Owned(u)
      BY <2>1 DEF Owned, AccessTypeOK
    <2>4. OwnershipCounted'
      BY <1>0, <2>1, <2>3, CountKept DEF GrantingTo, Granting
    <2>5. \A i \in Invites : invite[i] # Nothing => invite[i] \in InviteRows
      BY DEF AccessTypeOK
    <2>6. \A i \in LiveInvites' : i \in LiveInvites /\ invite'[i] = invite[i] /\ invite[i].w # w
      BY <2>1, <2>5, InviteColumn DEF LiveInvites
    <2>7. \A i \in LiveInvites : invite[i].w \in Workspaces /\ invite[i].by \in Users
      BY DEF LiveInvites, AccessTypeOK, InviteRows
    <2>8. InvitesStand'
      BY <1>0, <2>1, <2>6, <2>7 DEF InvitesStand, Member, AccessTypeOK
    <2>9. TrialsRunning'
      BY <1>0, <2>1, TrialsKept DEF AccessTypeOK
    <2> QED BY <2>2, <2>4, <2>8, <2>9 DEF AccountRules
  <1>2. ASSUME NEW w \in Workspaces, NEW b \in BOOLEAN, SetPaid(w, b) PROVE AccountRules'
    <2>1. UNCHANGED <<ws, trialOf, role, invite, call>>
      BY <1>2 DEF SetPaid
    <2>2. OwnerRemains'
      BY <1>0, <2>1, OwnersKept
    <2>3. OwnershipCounted'
      BY <1>0, <2>1, CountKept DEF Owned, GrantingTo, Granting
    <2>4. InvitesStand'
      BY <1>0, <2>1, InvitesKept DEF LiveInvites, Member
    <2>5. TrialsRunning'
      BY <1>0, <1>2, <2>1, TrialsKept DEF SetPaid, AccessTypeOK
    <2> QED BY <2>2, <2>3, <2>4, <2>5 DEF AccountRules
  <1>3. ASSUME NEW w \in Workspaces, NEW u \in Users,
               requestWorkspaceDeletion(u, w) \/ \E b \in BOOLEAN : PauseWorkspace(u, w, b)
        PROVE  AccountRules'
    <2>1. UNCHANGED <<hosting, trialOf, role, invite, call>>
      BY <1>3 DEF requestWorkspaceDeletion, PauseWorkspace
    <2>2. OwnerRemains'
      <3>1. \A x \in Workspaces : ws'[x] \notin {"none", "gone"} => ws[x] \notin {"none", "gone"}
        BY <1>3 DEF requestWorkspaceDeletion, PauseWorkspace, workspaceOpen, AccessTypeOK
      <3> QED BY <1>0, <2>1, <3>1, OwnersKept
    <2>3. OwnershipCounted'
      BY <1>0, <2>1, CountKept DEF Owned, GrantingTo, Granting
    <2>4. InvitesStand'
      BY <1>0, <2>1, InvitesKept DEF LiveInvites, Member
    <2>5. TrialsRunning'
      BY <1>0, <2>1, TrialsKept
    <2> QED BY <2>2, <2>3, <2>4, <2>5 DEF AccountRules
  <1> QED BY <1>1, <1>2, <1>3, Zenon DEF WorkspaceStep

(* One grant per approval.                                                 *)
LEMMA GrantsKept ==
  ASSUME AccessTypeOK, GrantsDecided,
         \A d \in Enrolled' : d \in Enrolled /\ dev'[d].via = dev[d].via,
         \A p \in Approvals : approval[p].status \notin {"none", "pending"} =>
                             approval'[p].status \notin {"none", "pending"}
  PROVE  GrantsDecided'
  <1>1. \A d \in Enrolled : dev[d].via # Nothing => dev[d].via \in Approvals
    BY EnrolledRow DEF DeviceRows
  <1> QED BY <1>1 DEF GrantsDecided, OneGrantPerApproval

(* A connection is decided by one approval, and no approval decides two,   *)
(* across every move of the connections.                                   *)
LEMMA ConnectionGrants ==
  ASSUME AccessTypeOK, GrantsDecided, NEW K \in SUBSET Kinds, ConnectionMove(K)
  PROVE  GrantsDecided'
  <1>1. ASSUME NEW u \in Users, NEW w \in Workspaces, NEW d \in Devices, NEW k \in K,
               NEW p \in Approvals \union {Nothing}, Grants(u, w, d, k, p)
        PROVE  GrantsDecided'
    <2> Connected(u, w, d, k, p)
      BY <1>1, ConnectStep DEF Grants
    <2>1. PICK r \in DeviceRows : dev' = [dev EXCEPT ![d] = r] /\ r.via = p
      BY DEF Connected
    <2>2. \A e \in Devices : dev'[e] = IF e = d THEN r ELSE dev[e]
      BY <2>1 DEF AccessTypeOK
    <2>3. \A e \in Enrolled' : e # d => e \in Enrolled /\ dev'[e] = dev[e]
      BY <2>2 DEF Enrolled
    <2>4. CASE p = Nothing /\ approval' = approval
      BY <2>1, <2>2, <2>3, <2>4 DEF GrantsDecided, OneGrantPerApproval, Enrolled
    <2>5. CASE p \in Approvals /\ Pending(p) /\
               approval' = [approval EXCEPT ![p] = [status |-> "approved",
                                                   cred |-> [dev |-> d, gen |-> dev'[d].gen]]]
      <3>1. /\ approval'[p].status = "approved"
            /\ \A q \in Approvals : q # p => approval'[q] = approval[q]
        BY <2>5 DEF AccessTypeOK
      <3>2. \A e \in Enrolled : dev[e].via # Nothing => dev[e].via # p
        BY <2>5 DEF GrantsDecided, Pending
      <3>3. \A e \in Enrolled : dev[e].via \in Approvals \union {Nothing}
        BY EnrolledRow DEF DeviceRows
      <3> QED BY <2>1, <2>2, <2>3, <3>1, <3>2, <3>3 DEF GrantsDecided, OneGrantPerApproval, Enrolled
    <2> QED BY <1>1, <2>4, <2>5 DEF Grants
  <1>2. ASSUME NEW d \in Devices, Ends(d) PROVE GrantsDecided'
    <2>1. /\ dev' = [dev EXCEPT ![d] = [dev[d] EXCEPT !.status = "revoked"]]
          /\ d \in Enrolled /\ approval' = approval
      BY <1>2, EndStep DEF Ends
    <2>2. dev[d] \in DeviceRows
      BY <2>1, EnrolledRow
    <2> DEFINE r == [dev[d] EXCEPT !.status = "revoked"]
    <2>0. dev' = [dev EXCEPT ![d] = r] /\ r.via = dev[d].via
      BY <2>1, <2>2, DeviceColumn
    <2> HIDE DEF r
    <2>3. \A e \in Enrolled' : e \in Enrolled /\ dev'[e].via = dev[e].via
      BY <2>1, <2>0 DEF Enrolled, AccessTypeOK
    <2> QED BY <2>1, <2>3, GrantsKept
  <1>3. ASSUME NEW d \in Devices, Marks(d) PROVE GrantsDecided'
    <2> Marked(d)
      BY <1>3, MarkStep
    <2>1. PICK r \in DeviceRows :
            /\ dev' = [dev EXCEPT ![d] = r] /\ approval' = approval /\ r.via = dev[d].via
            /\ dev[d] # Nothing /\ dev[d].status # "deleted"
      BY DEF Marked
    <2>2. \A e \in Enrolled' : e \in Enrolled /\ dev'[e].via = dev[e].via
      BY <2>1 DEF Enrolled, AccessTypeOK
    <2> QED BY <2>1, <2>2, GrantsKept
  <1>4. ASSUME NEW p \in Approvals, Notes(p) PROVE GrantsDecided'
    <2>1. dev' = dev
      BY <1>4 DEF Notes
    <2>2. \A q \in Approvals : approval[q].status \notin {"none", "pending"} =>
                               approval'[q].status \notin {"none", "pending"}
      BY <1>4 DEF Notes, AccessTypeOK
    <2> QED BY <2>1, <2>2, GrantsKept DEF Enrolled
  <1>5. CASE UNCHANGED <<dev, approval>>
    BY <1>5, GrantsKept DEF Enrolled
  <1>6. ASSUME NEW s \in Sessions, Lapses(s) PROVE GrantsDecided'
    BY <1>5, <1>6 DEF Lapses
  <1>7. ASSUME NEW d \in Devices, NEW s \in Sessions, Starts(d, s) PROVE GrantsDecided'
    BY <1>5, <1>7 DEF Starts
  <1>8. ConnectionMove(K)
    OBVIOUS
  <1>9. UNCHANGED <<dev, sess, approval>> => GrantsDecided'
    BY <1>5
  <1> QED BY <1>1, <1>2, <1>3, <1>4, <1>6, <1>7, <1>8, <1>9, Zenon DEF ConnectionMove

(* The same across the steps on a whole workspace, which only change what  *)
(* a connection may still do.                                              *)
LEMMA WorkspaceGrants ==
  ASSUME AccessTypeOK, GrantsDecided, WorkspaceStep
  PROVE  GrantsDecided'
  <1>0. \A w : \A d \in DevicesIn(w) : d \in Enrolled /\ dev[d] \in DeviceRows
    BY EnrolledRow DEF DevicesIn
  <1>a. ASSUME NEW w \in Workspaces,
                dev' = [d \in Devices |-> IF d \in DevicesIn(w)
                                         THEN [dev[d] EXCEPT !.status = "revoked"] ELSE dev[d]],
                NEW d \in Enrolled'
         PROVE  d \in Enrolled /\ dev'[d].via = dev[d].via
    <2>1. CASE d \in DevicesIn(w)
      <3> DEFINE r == [dev[d] EXCEPT !.status = "revoked"]
      <3>1. d \in Enrolled /\ dev[d] \in DeviceRows
        BY <1>0, <2>1
      <3>2. r.via = dev[d].via
        BY <3>1, DeviceColumn
      <3>3. dev'[d] = r
        BY <1>a, <2>1 DEF Enrolled
      <3> HIDE DEF r
      <3> QED BY <3>1, <3>2, <3>3
    <2>2. CASE d \notin DevicesIn(w)
      BY <1>a, <2>2 DEF Enrolled
    <2> QED BY <2>1, <2>2
  <1>1. ASSUME NEW w \in Workspaces, finishWorkspaceDeletion(w) PROVE GrantsDecided'
    <2>1. Cascade(DevicesIn(w)) /\ DevicesIn(w) \in SUBSET Enrolled
      BY <1>1 DEF finishWorkspaceDeletion, DevicesIn
    <2> QED BY <2>1, CascadeRows, GrantsKept
  <1>2. ASSUME NEW w \in Workspaces, NEW u \in Users, requestWorkspaceDeletion(u, w)
        PROVE  GrantsDecided'
    <2>1. /\ dev' = [d \in Devices |-> IF d \in DevicesIn(w)
                                       THEN [dev[d] EXCEPT !.status = "revoked"] ELSE dev[d]]
          /\ approval' = approval
      BY <1>2 DEF requestWorkspaceDeletion
    <2>2. \A d \in Enrolled' : d \in Enrolled /\ dev'[d].via = dev[d].via
      BY <1>a, <2>1
    <2> QED BY <2>1, <2>2, GrantsKept
  <1>3. ASSUME NEW w \in Workspaces, NEW b \in BOOLEAN,
               SetPaid(w, b) \/ \E u \in Users : PauseWorkspace(u, w, b)
        PROVE  GrantsDecided'
    <2>1. UNCHANGED <<dev, approval>>
      BY <1>3 DEF SetPaid, PauseWorkspace
    <2> QED BY <2>1, GrantsKept DEF Enrolled
  <1> QED BY <1>1, <1>2, <1>3, Zenon DEF WorkspaceStep

(* A step on accounts writes no connection and no approval, but for those  *)
(* of a member who leaves: they end.                                       *)
LEMMA AccountFrame ==
  ASSUME AccountStep
  PROVE  UNCHANGED <<dev, approval>> \/ \E D \in SUBSET Enrolled : Cascade(D)
  <1> DEFINE Same == UNCHANGED <<dev, approval>>
             Left == \E D \in SUBSET Enrolled : Cascade(D)
  <1>1. ASSUME NEW c \in Calls, NEW u \in Users, NEW w \in Workspaces,
               CreateBegin(c, u, w) \/ \E a \in Users : PromoteBegin(c, a, w, u)
        PROVE  Same
    BY <1>1 DEF CreateBegin, PromoteBegin
  <1>2. ASSUME NEW c \in Calls, CreateCommit(c) \/ PromoteCommit(c) \/ AcceptInvite(c)
        PROVE  Same
    BY <1>2 DEF CreateCommit, PromoteCommit, AcceptInvite
  <1>3. ASSUME NEW u \in Users, EndTrial(u) PROVE Same
    BY <1>3 DEF EndTrial
  <1>4. ASSUME NEW i \in Invites, ExpireInvite(i) \/ \E c \in Calls, u \in Users : LookupInvite(c, u, i)
        PROVE  Same
    BY <1>4 DEF ExpireInvite, LookupInvite
  <1>5. ASSUME NEW a \in Users, NEW u \in Users, NEW w \in Workspaces, NEW i \in Invites,
               NEW r \in {"member", "admin"}, Invite(a, w, i, u, r)
        PROVE  Same
    BY <1>5 DEF Invite
  <1>6. ASSUME NEW a \in Users, NEW u \in Users, NEW w \in Workspaces,
               NEW r \in {"none", "member", "admin", "owner"}, ChangeMember(a, w, u, r)
        PROVE  Same \/ Left
    <2>1. Cascade(DevicesOf(w, u)) \/ Same
      BY <1>6 DEF ChangeMember
    <2>2. DevicesOf(w, u) \in SUBSET Enrolled
      BY DEF DevicesOf, DevicesIn
    <2> HIDE DEF Same
    <2> QED BY <2>1, <2>2
  <1> HIDE DEF Same, Left
  <1>7. Same \/ Left
    BY <1>1, <1>2, <1>3, <1>4, <1>5, <1>6, Zenon DEF AccountStep
  <1> QED BY <1>7 DEF Same, Left

-----------------------------------------------------------------------------
(* Tokens.  A step that is not the application's keeps its connection and  *)
(* that connection's credential.                                           *)
GrantKept(d) ==
  dev[d] # Nothing /\ dev[d].kind = "mcp" =>
    dev'[d] # Nothing /\ dev'[d].kind = "mcp" /\ dev'[d].gen = dev[d].gen

(* A connection the server issues itself is never one of the application:  *)
(* it leaves every grant of the application alone.                         *)
LEMMA ServerGrants ==
  ASSUME AccessTypeOK, ConnectionMove(ServerKinds), NEW e \in Devices
  PROVE  GrantKept(e)
  <1>1. ASSUME NEW u \in Users, NEW w \in Workspaces, NEW d \in Devices, NEW k \in ServerKinds,
               NEW p \in Approvals \union {Nothing}, Grants(u, w, d, k, p)
        PROVE  GrantKept(e)
    <2>1. k \in Kinds /\ k # "mcp"
      BY DEF ServerKinds, Kinds
    <2> Connected(u, w, d, k, p)
      BY <1>1, <2>1, ConnectStep DEF Grants
    <2>2. PICK r \in DeviceRows : /\ dev' = [dev EXCEPT ![d] = r]
                                  /\ dev[d] = Nothing \/ dev[d].kind = k
      BY DEF Connected
    <2> QED BY <2>1, <2>2 DEF GrantKept, AccessTypeOK
  <1>2. ASSUME NEW d \in Devices, Ends(d) PROVE GrantKept(e)
    <2>1. /\ dev' = [dev EXCEPT ![d] = [dev[d] EXCEPT !.status = "revoked"]]
          /\ d \in Enrolled
      BY <1>2, EndStep DEF Ends
    <2>2. dev[d] \in DeviceRows
      BY <2>1, EnrolledRow
    <2> DEFINE r == [dev[d] EXCEPT !.status = "revoked"]
    <2>3. r # Nothing /\ r.kind = dev[d].kind /\ r.gen = dev[d].gen
      BY <2>2, DeviceColumn
    <2> HIDE DEF r
    <2>4. dev' = [dev EXCEPT ![d] = r]
      BY <2>1 DEF r
    <2> QED BY <2>3, <2>4 DEF GrantKept, AccessTypeOK
  <1>3. ASSUME NEW d \in Devices, Marks(d) PROVE GrantKept(e)
    <2> Marked(d)
      BY <1>3, MarkStep
    <2>1. PICK r \in DeviceRows :
            dev' = [dev EXCEPT ![d] = r] /\ r.kind = dev[d].kind /\ r.gen = dev[d].gen
      BY DEF Marked
    <2> QED BY <2>1, NothingIsNoRow DEF GrantKept, AccessTypeOK
  <1>4. CASE UNCHANGED dev
    BY <1>4 DEF GrantKept
  <1>5. ASSUME NEW p \in Approvals, Notes(p) PROVE GrantKept(e)
    BY <1>4, <1>5 DEF Notes
  <1>6. ASSUME NEW s \in Sessions, Lapses(s) PROVE GrantKept(e)
    BY <1>4, <1>6 DEF Lapses
  <1>7. ASSUME NEW d \in Devices, NEW s \in Sessions, Starts(d, s) PROVE GrantKept(e)
    BY <1>4, <1>7 DEF Starts
  <1>8. ConnectionMove(ServerKinds)
    OBVIOUS
  <1> QED BY <1>1, <1>2, <1>3, <1>4, <1>5, <1>6, <1>7, <1>8, Zenon DEF ConnectionMove

(* The end of some connections changes no credential.                      *)
LEMMA CascadeKeepsGrants ==
  ASSUME AccessTypeOK, NEW D \in SUBSET Enrolled, Cascade(D), NEW e \in Devices
  PROVE  GrantKept(e)
  <1>1. /\ e \notin D => dev'[e] = dev[e]
        /\ e \in D => dev'[e] # Nothing /\ dev'[e].kind = dev[e].kind /\ dev'[e].gen = dev[e].gen
    BY CascadeRows
  <1> QED BY <1>1 DEF GrantKept

(* So does a step on a whole workspace, which changes no credential.       *)
LEMMA WorkspaceKeepsGrants ==
  ASSUME AccessTypeOK, WorkspaceStep, NEW e \in Devices
  PROVE  GrantKept(e)
  <1>0. \A w : \A d \in DevicesIn(w) : dev[d] \in DeviceRows
    BY EnrolledRow DEF DevicesIn
  <1>1. ASSUME NEW w \in Workspaces,
               dev' = [d \in Devices |-> IF d \in DevicesIn(w)
                                        THEN [dev[d] EXCEPT !.status = "revoked"] ELSE dev[d]]
        PROVE  GrantKept(e)
    <2>1. CASE e \in DevicesIn(w)
      <3> DEFINE r == [dev[e] EXCEPT !.status = "revoked"]
      <3>1. dev[e] \in DeviceRows
        BY <1>0, <2>1
      <3>2. r # Nothing /\ r.kind = dev[e].kind /\ r.gen = dev[e].gen
        BY <3>1, DeviceColumn
      <3>3. dev'[e] = r
        BY <1>1, <2>1
      <3> HIDE DEF r
      <3> QED BY <3>2, <3>3 DEF GrantKept
    <2>2. CASE e \notin DevicesIn(w)
      BY <1>1, <2>2 DEF GrantKept
    <2> QED BY <2>1, <2>2
  <1>2. ASSUME NEW w \in Workspaces, finishWorkspaceDeletion(w) PROVE GrantKept(e)
    <2>1. Cascade(DevicesIn(w)) /\ DevicesIn(w) \in SUBSET Enrolled
      BY <1>2 DEF finishWorkspaceDeletion, DevicesIn
    <2> QED BY <2>1, CascadeKeepsGrants
  <1>3. ASSUME NEW w \in Workspaces, NEW u \in Users, requestWorkspaceDeletion(u, w) PROVE GrantKept(e)
    BY <1>1, <1>3 DEF requestWorkspaceDeletion
  <1>4. ASSUME NEW w \in Workspaces, NEW b \in BOOLEAN,
               SetPaid(w, b) \/ \E u \in Users : PauseWorkspace(u, w, b)
        PROVE  GrantKept(e)
    BY <1>4 DEF SetPaid, PauseWorkspace, GrantKept
  <1> QED BY <1>2, <1>3, <1>4, Zenon DEF WorkspaceStep

(* The tokens are of the current grants across a step that leaves the      *)
(* grants alone and adds no token of another.                              *)
LEMMA FamilyKept ==
  ASSUME OAuthTypeOK, FamilyCurrent,
         \A d \in Devices : GrantKept(d),
         \A t \in tokens' : \E s \in tokens : s.dev = t.dev /\ s.gen = t.gen
  PROVE  FamilyCurrent'
  <1>1. \A t \in tokens : t.dev \in Devices
    BY TokenColumn DEF OAuthTypeOK
  <1> QED BY <1>1 DEF FamilyCurrent, GrantKept

(* The application's own steps keep the tokens those of the current grant, *)
(* at most one of them unused.                                             *)
LEMMA OAuthKeepsTokens ==
  ASSUME OAuthTypeOK, FamilyCurrent, Chained, OAuthStep
  PROVE  FamilyCurrent' /\ Chained'
  <1> DEFINE Goal == FamilyCurrent' /\ Chained'
  <1>0. AccessTypeOK /\ tokens \subseteq TokenRows
    BY DEF OAuthTypeOK
  <1>1. ASSUME NEW p \in Approvals, NEW u \in Users, NEW w \in Workspaces, NEW d \in Devices,
               oauthConsent(p, u, w, d)
        PROVE  Goal
    <2>1. Connecting(u, w, d, "mcp", p)
      BY <1>1 DEF oauthConsent, Approve, Connecting
    <2> Connected(u, w, d, "mcp", p)
      BY <1>0, <2>1, ConnectStep DEF Kinds
    <2>2. PICK r \in DeviceRows : dev' = [dev EXCEPT ![d] = r] /\ dev'[d] = r /\ r.kind = "mcp"
      BY DEF Connected
    <2> DEFINE n == NewToken(d, r.gen, 0)
    <2>3. tokens' = (tokens \ Family(d)) \union {n}
      BY <1>1, <2>2 DEF oauthConsent
    <2>4. n.dev = d /\ n.gen = r.gen /\ ~n.used /\ ~n.revoked /\ n.used = n.revoked
      BY DEF NewToken
    <2> HIDE DEF n
    <2>5. \A t \in tokens' : t = n \/ (t \in tokens /\ t.dev # d)
      BY <2>3 DEF Family
    <2>6. \A e : e # d => dev'[e] = dev[e]
      BY <1>0, <2>2 DEF AccessTypeOK
    <2>7. FamilyCurrent'
      BY <2>2, <2>4, <2>5, <2>6, NothingIsNoRow DEF FamilyCurrent
    <2>8. Chained'
      BY <2>4, <2>5 DEF Chained
    <2> QED BY <2>7, <2>8
  <1>2. ASSUME NEW c \in Calls, IssueTokens(c) PROVE Goal
    <2>1. PICK t \in Reread(c) :
            /\ ~Consumed(c, t)
            /\ tokens' = (tokens \ {t}) \union {[t EXCEPT !.used = TRUE, !.revoked = TRUE],
                                                NewToken(t.dev, t.gen, t.n + 1)}
      BY <1>2 DEF IssueTokens
    <2>2. dev' = dev /\ t \in tokens /\ t \in TokenRows
      BY <1>0, <1>2, RereadRow DEF IssueTokens
    <2> DEFINE o == [t EXCEPT !.used = TRUE, !.revoked = TRUE]
               n == NewToken(t.dev, t.gen, t.n + 1)
    <2>3. o.dev = t.dev /\ o.gen = t.gen /\ o.used /\ o.revoked /\ o.used = o.revoked
      BY <2>2 DEF TokenRows
    <2>4. n.dev = t.dev /\ n.gen = t.gen /\ ~n.used /\ ~n.revoked /\ n.used = n.revoked
      BY DEF NewToken
    <2>5. ~t.used
      BY <2>1 DEF Consumed
    <2>6. \A s \in tokens' : s = o \/ s = n \/ (s \in tokens /\ s # t)
      BY <2>1
    <2> HIDE DEF o, n
    <2>7. FamilyCurrent'
      BY <2>2, <2>3, <2>4, <2>6 DEF FamilyCurrent
    <2>8. \A s \in tokens : s # t /\ s.dev = t.dev => s.used
      BY <2>2, <2>5 DEF Chained
    <2>9. Chained'
      BY <2>3, <2>4, <2>6, <2>8 DEF Chained
    <2> QED BY <2>7, <2>9
  <1>3. ASSUME UNCHANGED tokens, \A d \in Devices : GrantKept(d) PROVE Goal
    BY <1>3, FamilyKept DEF Chained
  <1>4. ASSUME NEW p \in Approvals, oauthAuthorize(p) PROVE Goal
    BY <1>3, <1>4 DEF oauthAuthorize, GrantKept
  <1>5. ASSUME NEW c \in Calls, NEW t \in tokens,
               NEW kind \in {"oauth_token", "oauth_revoke", "oauth_access"}, OAuthLookup(c, t, kind)
        PROVE  Goal
    BY <1>3, <1>5 DEF OAuthLookup, GrantKept
  <1>6. ASSUME NEW c \in Calls, ReplayedRefresh(c) \/ oauthRevoke(c) PROVE Goal
    <2>1. PICK t \in Reread(c) : EndConnection(t.dev)
      BY <1>6 DEF ReplayedRefresh, oauthRevoke
    <2>2. PICK d \in Enrolled : d = t.dev
      BY RereadRow
    <2>3. dev' = [dev EXCEPT ![d] = [dev[d] EXCEPT !.status = "revoked"]]
      BY <1>0, <2>1, <2>2, EndStep
    <2>4. dev[d] \in DeviceRows
      BY <1>0, EnrolledRow
    <2> DEFINE r == [dev[d] EXCEPT !.status = "revoked"]
    <2>5. r # Nothing /\ r.kind = dev[d].kind /\ r.gen = dev[d].gen /\ dev' = [dev EXCEPT ![d] = r]
      BY <2>3, <2>4, DeviceColumn
    <2> HIDE DEF r
    <2>6. \A e \in Devices : GrantKept(e)
      BY <1>0, <2>5 DEF GrantKept, AccessTypeOK
    <2>7. UNCHANGED tokens
      BY <1>6 DEF ReplayedRefresh, oauthRevoke
    <2> QED BY <1>3, <2>6, <2>7
  <1>7. ASSUME NEW c \in Calls, NEW s \in Sessions, oauthExecution(c, s) PROVE Goal
    BY <1>3, <1>7 DEF oauthExecution, GrantKept
  <1>8. ASSUME NEW t \in tokens, ExpireToken(t) PROVE Goal
    <2> DEFINE o == [t EXCEPT !.old = TRUE]
    <2>1. tokens' = (tokens \ {t}) \union {o} /\ dev' = dev
      BY <1>8 DEF ExpireToken, accessVars
    <2>2. o.dev = t.dev /\ o.gen = t.gen /\ o.used = t.used /\ o.revoked = t.revoked
      BY <1>0 DEF TokenRows
    <2> HIDE DEF o
    <2>3. \A s \in tokens' : s = o \/ (s \in tokens /\ s # t)
      BY <2>1
    <2>4. FamilyCurrent'
      BY <2>1, <2>2, <2>3 DEF FamilyCurrent
    <2>5. Chained'
      BY <2>2, <2>3 DEF Chained
    <2> QED BY <2>4, <2>5
  <1>9. ASSUME MaintainTokens PROVE Goal
    <2>1. tokens' \subseteq tokens /\ dev' = dev
      BY <1>9 DEF MaintainTokens, accessVars
    <2> QED BY <2>1 DEF FamilyCurrent, Chained
  <1> HIDE DEF Goal
  <1>10. Goal
    BY <1>1, <1>2, <1>4, <1>5, <1>6, <1>7, <1>8, <1>9, Zenon DEF OAuthStep
  <1> QED BY <1>10 DEF Goal

-----------------------------------------------------------------------------
(* The inductive invariant holds at the start and every step keeps it.     *)
LEMMA HostedInit ==
  ASSUME HostedLimits, OAuthInit
  PROVE  HostedInv
  <1> USE DEF OAuthInit, AccessInit
  <1>1. OAuthTypeOK
    BY DEF OAuthTypeOK, AccessTypeOK, Idle
  <1>2. ExecutionHasAuthority /\ InvitesStand /\ GrantsDecided /\ FamilyCurrent /\ Chained
    BY DEF ExecutionHasAuthority, Started, InvitesStand, LiveInvites, GrantsDecided,
           OneGrantPerApproval, Enrolled, FamilyCurrent, Chained
  <1>3. OwnerRemains /\ TrialsRunning
    BY DEF OwnerRemains, TrialsRunning
  <1>4. OwnershipCounted
    <2>1. \A u \in Users : Owned(u) = {}
      BY DEF Owned
    <2>2. \A c \in Calls : ~Granting(c)
      BY DEF Granting, Idle
    <2>3. IsFiniteSet({}) /\ Cardinality({}) = 0 /\ OwnedLimit \in Nat
      BY FS_EmptySet DEF HostedLimits
    <2>4. 0 <= OwnedLimit
      BY <2>3
    <2> QED BY <2>1, <2>2, <2>3, <2>4 DEF OwnershipCounted, GrantingTo
  <1> QED BY <1>1, <1>2, <1>3, <1>4 DEF HostedInv

(* Every step of the hosted service keeps the whole invariant.             *)
LEMMA HostedStep ==
  ASSUME HostedLimits, HostedInv, [OAuthNext]_oauthVars
  PROVE  HostedInv'
  <1>1. /\ OAuthTypeOK /\ AccessTypeOK /\ ExecutionHasAuthority /\ AccountRules
        /\ GrantsDecided /\ FamilyCurrent /\ Chained
    BY DEF HostedInv, OAuthTypeOK, AccountRules
  <1>2. OAuthTypeOK'
    BY <1>1, OAuthType
  <1> DEFINE Rest == ExecutionHasAuthority' /\ AccountRules' /\ GrantsDecided' /\ FamilyCurrent' /\ Chained'
  <1> SUFFICES Rest
    BY <1>2 DEF HostedInv, AccountRules, OAuthTypeOK
  <1>3. CASE OAuthStep
    <2>1. ConnectionMove({"mcp"}) /\ NoGrant /\ ConnectionOnly
      BY <1>1, <1>3, OAuthMoves
    <2>2. {"mcp"} \in SUBSET Kinds
      BY DEF Kinds
    <2>3. ExecutionHasAuthority' /\ GrantsDecided'
      BY <1>1, <2>1, <2>2, ConnectionAuthority, ConnectionGrants
    <2>4. AccountRules'
      BY <1>1, <2>1, RulesSpared
    <2> QED BY <1>1, <1>3, <2>3, <2>4, OAuthKeepsTokens
  <1>4. CASE AccessNext /\ tokens' = {t \in tokens : dev'[t.dev].status # "deleted"}
    <2>1. ASSUME \A d \in Devices : GrantKept(d) PROVE FamilyCurrent' /\ Chained'
      <3>1. tokens' \subseteq tokens
        BY <1>4
      <3>2. FamilyCurrent'
        BY <1>1, <2>1, <3>1, FamilyKept
      <3> QED BY <1>1, <3>1, <3>2 DEF Chained
    <2>2. CASE AccountStep
      <3>1. UNCHANGED <<dev, approval>> \/ \E D \in SUBSET Enrolled : Cascade(D)
        BY <2>2, AccountFrame
      <3>2. FamilyCurrent' /\ Chained'
        <4>1. CASE UNCHANGED <<dev, approval>>
          BY <2>1, <4>1 DEF GrantKept
        <4>2. CASE \E D \in SUBSET Enrolled : Cascade(D)
          BY <1>1, <2>1, <4>2, CascadeKeepsGrants
        <4> QED BY <3>1, <4>1, <4>2
      <3>3. GrantsDecided'
        <4>1. CASE UNCHANGED <<dev, approval>>
          BY <1>1, <4>1, GrantsKept DEF Enrolled
        <4>2. CASE \E D \in SUBSET Enrolled : Cascade(D)
          BY <1>1, <4>2, CascadeRows, GrantsKept
        <4> QED BY <3>1, <4>1, <4>2
      <3> QED BY <1>1, <2>2, <3>2, <3>3, AccountAuthority, AccountKeepsRules
    <2>3. CASE ConnectionStep
      <3>1. ConnectionMove(ServerKinds) /\ NoGrant /\ ConnectionOnly
        BY <1>1, <2>3, ConnectionMoves
      <3>2. ServerKinds \in SUBSET Kinds
        BY DEF ServerKinds, Kinds
      <3>3. ExecutionHasAuthority' /\ GrantsDecided'
        BY <1>1, <3>1, <3>2, ConnectionAuthority, ConnectionGrants
      <3>4. AccountRules'
        BY <1>1, <3>1, RulesSpared
      <3>5. FamilyCurrent' /\ Chained'
        BY <1>1, <2>1, <3>1, ServerGrants
      <3> QED BY <3>3, <3>4, <3>5
    <2>4. CASE WorkspaceStep
      <3>1. FamilyCurrent' /\ Chained'
        BY <1>1, <2>1, <2>4, WorkspaceKeepsGrants
      <3> QED BY <1>1, <2>4, <3>1, WorkspaceAuthority, WorkspaceKeepsRules, WorkspaceGrants
    <2>5. CASE \E c \in Calls : Abandon(c)
      <3>1. PICK c \in Calls : Abandon(c)
        BY <2>5
      <3>2. ConnectionOnly /\ UNCHANGED <<dev, sess, approval>> /\ call' = [call EXCEPT ![c] = Idle]
        BY <3>1 DEF Abandon, ConnectionOnly
      <3>3. ConnectionMove(ServerKinds) /\ ServerKinds \in SUBSET Kinds
        BY <3>2 DEF ConnectionMove, ServerKinds, Kinds
      <3>4. NoGrant
        BY <1>1, <3>2, NoGrantBy DEF Idle
      <3>5. ExecutionHasAuthority' /\ GrantsDecided'
        BY <1>1, <3>2, <3>3, ConnectionAuthority, ConnectionGrants
      <3>6. AccountRules'
        BY <1>1, <3>2, <3>4, RulesSpared
      <3>7. FamilyCurrent' /\ Chained'
        BY <2>1, <3>2 DEF GrantKept
      <3> QED BY <3>5, <3>6, <3>7
    <2> HIDE DEF Rest
    <2> QED BY <1>4, <2>2, <2>3, <2>4, <2>5 DEF AccessNext
  <1>5. CASE UNCHANGED oauthVars
    BY <1>1, <1>5 DEF oauthVars, accessVars, ExecutionHasAuthority, Started, Enrolled, Member,
       AccountRules, OwnerRemains, Owners, OwnershipCounted, Owned, GrantingTo, Granting, InvitesStand,
       LiveInvites, TrialsRunning, GrantsDecided, OneGrantPerApproval, FamilyCurrent, Chained
  <1> HIDE DEF Rest
  <1> QED BY <1>3, <1>4, <1>5 DEF OAuthNext

(* The inductive invariant, for every size and limit.                      *)
THEOREM HostedInvariant == OAuthSpec => []HostedInv
  <1>1. OAuthInit => HostedInv
    BY HostedInit, HostedLimits
  <1>2. HostedInv /\ [OAuthNext]_oauthVars => HostedInv'
    BY HostedStep, HostedLimits
  <1> QED BY <1>1, <1>2, PTL DEF OAuthSpec

(* Every row has its type, whatever the limits (hosted_devices,            *)
(* hosted_sessions, hosted_invites, oauth_tokens).                         *)
THEOREM HostedTypes == OAuthSpec => []OAuthTypeOK
  <1>1. HostedInv => OAuthTypeOK
    BY DEF HostedInv
  <1> QED BY <1>1, HostedInvariant, PTL

(* No session runs without authority: after a member is removed, a         *)
(* connection revoked or replaced, or a workspace paused or deleted, no    *)
(* lease is left, and no request authenticated before revives one          *)
(* (retireHostedSessions, StartDeviceSession, requireHostedExecution).     *)
THEOREM RunsWithAuthority == OAuthSpec => []ExecutionHasAuthority
  <1>1. HostedInv => ExecutionHasAuthority
    BY DEF HostedInv
  <1> QED BY <1>1, HostedInvariant, PTL

(* Last owners, ownership limits, invitations, grants and trials are right *)
(* for any number of accounts and workspaces (ChangeMember,                *)
(* checkHostedOwnershipLimit, AcceptInvite, completeDevicePairing).        *)
THEOREM AccountsAreSound == OAuthSpec => []AccountsSound
  <1>1. HostedInv => AccountsSound
    BY DEF HostedInv, AccountsSound, OwnershipCounted, OwnershipBounded, GrantsDecided,
           TrialsRunning, OneTrial
  <1> QED BY <1>1, HostedInvariant, PTL

(* A set without two different elements has at most one.                   *)
LEMMA AtMostOne ==
  ASSUME NEW S, \A x, y \in S : x = y
  PROVE  Cardinality(S) <= 1
  <1>1. CASE S = {}
    <2>1. Cardinality(S) = 0
      BY <1>1, FS_EmptySet
    <2> QED BY <2>1
  <1>2. CASE S # {}
    <2>1. PICK x : S = {x}
      BY <1>2
    <2>2. Cardinality(S) = 1
      BY <2>1, FS_Singleton
    <2> QED BY <2>2
  <1> QED BY <1>1, <1>2

(* However many requests redeem the same code or refresh token, a grant    *)
(* has one good refresh token and one good access token (oauthToken).      *)
THEOREM GrantsNeverFork == OAuthSpec => []SingleChain
  <1>1. HostedInv => SingleChain
    <2> SUFFICES ASSUME HostedInv, NEW d \in Devices
                 PROVE  /\ Cardinality({t \in Family(d) : ~t.used}) <= 1
                        /\ Cardinality({t \in Family(d) : t.n > 0 /\ ~t.revoked}) <= 1
      BY DEF SingleChain
    <2>1. \A x, y \in {t \in Family(d) : ~t.used} : x = y
      BY DEF HostedInv, Chained, Family
    <2>2. \A x, y \in {t \in Family(d) : t.n > 0 /\ ~t.revoked} : x = y
      BY DEF HostedInv, Chained, Family
    <2> QED BY <2>1, <2>2, AtMostOne
  <1> QED BY <1>1, HostedInvariant, PTL

-----------------------------------------------------------------------------
(* A request with a token of a replaced grant.                             *)
Outdated(c) ==
  /\ c \in Calls /\ call[c].op \in {"oauth_token", "oauth_revoke", "oauth_access"}
  /\ dev[call[c].dev].gen # call[c].gen

(* It finds nothing to act on.                                             *)
LEMMA NothingToRedeem ==
  ASSUME HostedInv, NEW c, Outdated(c)
  PROVE  Reread(c) = {}
  <1> SUFFICES ASSUME NEW t \in Reread(c) PROVE FALSE
    OBVIOUS
  <1>1. t \in tokens /\ t.dev = call[c].dev /\ t.gen = call[c].gen
    BY RereadRow DEF HostedInv, Outdated
  <1> QED BY <1>1 DEF HostedInv, FamilyCurrent, Outdated

(* It ends by its own step, or by being abandoned.                         *)
LEMMA EndsAlone ==
  ASSUME HostedInv, NEW c, Outdated(c), call'[c] = Idle
  PROVE  /\ call[c] # Idle /\ call' # call
         /\ \A b, r : call' = [call EXCEPT ![b] = r] => b = c
  <1>1. call[c] # Idle
    BY RequestParts DEF HostedInv, OAuthTypeOK, Outdated
  <1> QED BY <1>1 DEF HostedInv, OAuthTypeOK, AccessTypeOK, Outdated

(* A request that ends with a token of a replaced grant has changed no     *)
(* connection and no session.                                              *)
LEMMA OutdatedHarmless ==
  ASSUME HostedInv, OAuthNext, NEW c, Outdated(c), call'[c] = Idle
  PROVE  UNCHANGED <<dev, sess>>
  <1> DEFINE Goal == UNCHANGED <<dev, sess>>
  <1>0. /\ call[c] # Idle /\ call' # call /\ Reread(c) = {}
        /\ call[c].op \in {"oauth_token", "oauth_revoke", "oauth_access"}
        /\ \A b, r : call' = [call EXCEPT ![b] = r] => b = c
    BY EndsAlone, NothingToRedeem DEF Outdated
  <1>1. ASSUME AccountStep PROVE Goal
    <2>1. ASSUME NEW b \in Calls, NEW u \in Users, NEW w \in Workspaces,
                 CreateBegin(b, u, w) \/ \E a \in Users : PromoteBegin(b, a, w, u)
          PROVE  FALSE
      BY <1>0, <2>1 DEF CreateBegin, PromoteBegin
    <2>2. ASSUME NEW b \in Calls, CreateCommit(b) \/ PromoteCommit(b) \/ AcceptInvite(b)
          PROVE  FALSE
      BY <1>0, <2>2 DEF CreateCommit, PromoteCommit, AcceptInvite
    <2>3. ASSUME NEW u \in Users, EndTrial(u) PROVE FALSE
      BY <1>0, <2>3 DEF EndTrial
    <2>4. ASSUME NEW i \in Invites, ExpireInvite(i) \/ \E b \in Calls, u \in Users : LookupInvite(b, u, i)
          PROVE  FALSE
      BY <1>0, <2>4 DEF ExpireInvite, LookupInvite
    <2>5. ASSUME NEW a \in Users, NEW u \in Users, NEW w \in Workspaces,
                 \/ \E i \in Invites, r \in {"member", "admin"} : Invite(a, w, i, u, r)
                 \/ \E r \in {"none", "member", "admin", "owner"} : ChangeMember(a, w, u, r)
          PROVE  FALSE
      BY <1>0, <2>5 DEF Invite, ChangeMember
    <2> QED BY <1>1, <2>1, <2>2, <2>3, <2>4, <2>5, Zenon DEF AccountStep
  <1>2. ASSUME ConnectionStep PROVE Goal
    <2>1. ASSUME NEW b \in Calls, NEW d \in Devices, NEW kind \in {"start", "revoke"}, Authenticate(b, d, kind)
          PROVE  FALSE
      BY <1>0, <2>1 DEF Authenticate
    <2>2. ASSUME NEW b \in Calls, SelfRevoke(b) \/ \E s \in Sessions : StartDeviceSession(b, s)
          PROVE  FALSE
      BY <1>0, <2>2 DEF SelfRevoke, StartDeviceSession
    <2>3. ASSUME NEW u \in Users, NEW w \in Workspaces, NEW d \in Devices,
                 \/ EnrollDevice(u, w, d) \/ CreateMCPKey(u, w, d) \/ RevokeByMember(u, w, d)
                 \/ \E p \in Approvals : completeDevicePairing(p, u, w, d)
          PROVE  FALSE
      BY <1>0, <2>3 DEF EnrollDevice, CreateMCPKey, RevokeByMember, completeDevicePairing
    <2>4. ASSUME NEW p \in Approvals, BeginDevicePairing(p) \/ DropApproval(p) \/ PollDevicePairing(p)
          PROVE  FALSE
      BY <1>0, <2>4 DEF BeginDevicePairing, DropApproval, PollDevicePairing
    <2>5. ASSUME NEW d \in Devices, ExpireDevice(d) PROVE FALSE
      BY <1>0, <2>5 DEF ExpireDevice
    <2>6. ASSUME NEW s \in Sessions, LapseLease(s) PROVE FALSE
      BY <1>0, <2>6 DEF LapseLease
    <2> QED BY <1>2, <2>1, <2>2, <2>3, <2>4, <2>5, <2>6, Zenon DEF ConnectionStep
  <1>3. ASSUME WorkspaceStep PROVE Goal
    BY <1>0, <1>3 DEF WorkspaceStep, finishWorkspaceDeletion, SetPaid, requestWorkspaceDeletion,
       PauseWorkspace
  <1>4. ASSUME NEW b \in Calls, Abandon(b) PROVE Goal
    BY <1>4 DEF Abandon
  <1>5. ASSUME OAuthStep PROVE Goal
    <2>1. ASSUME NEW b \in Calls, NEW t \in tokens,
                 NEW kind \in {"oauth_token", "oauth_revoke", "oauth_access"}, OAuthLookup(b, t, kind)
          PROVE  Goal
      BY <1>0, <2>1 DEF OAuthLookup
    <2>2. ASSUME NEW b \in Calls, IssueTokens(b) PROVE Goal
      BY <2>2 DEF IssueTokens
    <2>3. ASSUME NEW b \in Calls,
                 \/ ReplayedRefresh(b) \/ oauthRevoke(b) \/ \E s \in Sessions : oauthExecution(b, s)
          PROVE  Goal
      <3>1. Reread(b) # {} /\ call' = [call EXCEPT ![b] = Idle]
        BY <2>3 DEF ReplayedRefresh, oauthRevoke, oauthExecution
      <3> QED BY <1>0, <3>1
    <2>4. ASSUME NEW p \in Approvals,
                 \/ oauthAuthorize(p)
                 \/ \E u \in Users, w \in Workspaces, d \in Devices : oauthConsent(p, u, w, d)
          PROVE  Goal
      BY <1>0, <2>4 DEF oauthAuthorize, oauthConsent
    <2>5. ASSUME NEW t \in tokens, ExpireToken(t) PROVE Goal
      BY <2>5 DEF ExpireToken, accessVars
    <2>6. ASSUME MaintainTokens PROVE Goal
      BY <2>6 DEF MaintainTokens, accessVars
    <2> HIDE DEF Goal
    <2> QED BY <1>5, <2>1, <2>2, <2>3, <2>4, <2>5, <2>6, Zenon DEF OAuthStep
  <1> QED BY <1>1, <1>2, <1>3, <1>4, <1>5 DEF OAuthNext, AccessNext

(* Replaying or revoking a token of a grant that has been replaced leaves  *)
(* the new grant and its session alone, also when the request was under    *)
(* way before (oauthToken, oauthRevoke, oauthExecution).                   *)
THEOREM OldGrantsHarmless == OAuthSpec => OldFamilyHarmless
  <1>1. HostedInv /\ [OAuthNext]_oauthVars =>
          [\A c \in Calls :
             (/\ call[c].op \in {"oauth_token", "oauth_revoke", "oauth_access"}
              /\ call'[c] = Idle
              /\ dev[call[c].dev].gen # call[c].gen)
             => UNCHANGED <<dev, sess>>]_oauthVars
    <2>1. HostedInv /\ OAuthNext =>
            \A c \in Calls : Outdated(c) /\ call'[c] = Idle => UNCHANGED <<dev, sess>>
      BY OutdatedHarmless
    <2> QED BY <2>1 DEF Outdated
  <1> QED BY <1>1, HostedInvariant, PTL DEF OAuthSpec, OldFamilyHarmless

-----------------------------------------------------------------------------
(* Paid hosting.  The rows of the service and of the provider.             *)
Attempt == [interval : Intervals, created : Nat, session : Nat,
            state : {"pending", "expired", "complete"}]
CheckoutRow == [attempt : Nat, interval : Intervals, status : {"open", "complete", "expired"},
                sub : Nat, expires : Nat]
Subscription == [attempt : Nat, status : {"active", "past_due", "canceled"}, start : Nat,
                 funded : Seq(BOOLEAN)]
LateRequest == [attempt : Nat, interval : Intervals, expires : Nat]

(* The service's own rows.                                                 *)
BillingRow(db) ==
  /\ db = [customer |-> db.customer, sub |-> db.sub, status |-> db.status,
           attempts |-> db.attempts, invoices |-> db.invoices, paidUntil |-> db.paidUntil]
  /\ db.sub \in Nat /\ db.attempts \in Seq(Attempt)

(* The provider has one checkout per attempt, and a subscription for every *)
(* one that was completed, and for no other.                               *)
ProviderOK(se, su, la) ==
  /\ se \in Seq(CheckoutRow) /\ su \in Seq(Subscription) /\ la \subseteq LateRequest
  /\ \A i, j \in DOMAIN se : se[i].attempt = se[j].attempt => i = j
  /\ \A i \in DOMAIN se : se[i].status = "complete" => se[i].sub \in DOMAIN su
  /\ \A k \in DOMAIN su : \E i \in DOMAIN se : se[i].status = "complete" /\ se[i].sub = k

(* What rows of the service, committed or an operation's own, say of the   *)
(* provider at hour h: whatever can still be paid, or has to be, is of the *)
(* one attempt that is pending or is the subscription the rows name, and   *)
(* an attempt that was given up can have no checkout any more.             *)
Holds(db, h, se, su, la) ==
  /\ BillingRow(db)
  /\ \A i \in DOMAIN se :
       /\ se[i].attempt \in DOMAIN db.attempts
       /\ se[i].status = "open" => se[i].attempt \in PendingAttempt(db)
       /\ se[i].status = "complete" /\ su[se[i].sub].status \notin Ended =>
            se[i].attempt \in PendingAttempt(db) \/ (Subscribed(db) /\ db.sub = se[i].sub)
  /\ \A a \in DOMAIN db.attempts : a \notin PendingAttempt(db) =>
       \/ h >= db.attempts[a].created + CheckoutLife
       \/ \E i \in DOMAIN se : se[i].attempt = a
  /\ \A a, b \in PendingAttempt(db) : a = b
  /\ Subscribed(db) => PendingAttempt(db) = {}
  /\ db.sub # 0 => db.sub \in DOMAIN su /\ (db.status \in Ended => su[db.sub].status \in Ended)
  /\ \A r \in la : /\ r.attempt \in DOMAIN db.attempts
                   /\ r.expires = db.attempts[r.attempt].created + CheckoutLife
  /\ DOMAIN su = {} => db.paidUntil = 0

(* No subscription is left to be charged.                                  *)
AllEnded(su) == \A k \in DOMAIN su : su[k].status \in Ended

(* An operation's own rows differ from the committed ones b in what it     *)
(* decided, and a deletion goes on to the subscription when nothing is     *)
(* pending.                                                                *)
Working(o, b, h, se, su, la) ==
  /\ o = [kind |-> o.kind, interval |-> o.interval, pc |-> o.pc, db |-> o.db, at |-> o.at]
  /\ Holds(o.db, h, se, su, la)
  /\ DOMAIN o.db.attempts = DOMAIN b.attempts
  /\ \A a \in DOMAIN b.attempts : o.db.attempts[a].created = b.attempts[a].created
  /\ PendingAttempt(o.db) \subseteq PendingAttempt(b)
  /\ o.pc = "create" => PendingAttempt(o.db) # {}
  /\ o.pc = "expire" => o.at \in DOMAIN se /\ se[o.at].attempt \in PendingAttempt(o.db)
  /\ o.kind = "finish" =>
       /\ o.pc \in {"lookup", "create", "expire", "cancelsub", "commit"}
       /\ o.pc \in {"cancelsub", "commit"} => PendingAttempt(o.db) = {}
       /\ o.pc = "commit" => AllEnded(su)

(* What is left at the provider when the workspace is gone.                *)
Closed(h, se, su, la) ==
  /\ AllEnded(su)
  /\ \A i \in DOMAIN se : se[i].status # "open"
  /\ \A r \in la : h >= r.expires \/ \E i \in DOMAIN se : se[i].attempt = r.attempt

(* Deliveries charged are counted, and within the allowance.               *)
AllowanceOK ==
  /\ usage \in [DOMAIN usage -> Nat] /\ IsFiniteSet(Charged)
  /\ AllowanceHeld

(* The inductive invariant of paid hosting.                                *)
BillingInv ==
  /\ hour \in Nat
  /\ ProviderOK(sessions, subs, late)
  /\ phase # "gone" => Holds(billing, hour, sessions, subs, late)
  /\ op # NoOp => phase # "gone" /\ Working(op, billing, hour, sessions, subs, late)
  /\ phase = "gone" => Closed(hour, sessions, subs, late)
  /\ DOMAIN subs = {} => billing.paidUntil = 0
  /\ AllowanceOK

-----------------------------------------------------------------------------
(* What holds of the provider and of some rows goes on to hold when time   *)
(* passes, checkouts of the pending attempt appear or change, other ones   *)
(* end, and subscriptions appear or end.                                   *)
LEMMA RowsHold ==
  ASSUME NEW db, NEW h \in Nat, NEW se, NEW su, NEW la, Holds(db, h, se, su, la),
         NEW h2 \in Nat, NEW se2, NEW su2, NEW la2, h <= h2,
         \A i \in DOMAIN se2 :
           \/ se2[i].attempt \in PendingAttempt(db)
           \/ /\ i \in DOMAIN se /\ se2[i].attempt = se[i].attempt
              /\ se2[i].status # "open"
              /\ se2[i].status = "complete" =>
                   /\ se[i].status = "complete" /\ se2[i].sub = se[i].sub
                   /\ su[se[i].sub].status \in Ended => su2[se[i].sub].status \in Ended,
         \A i \in DOMAIN se : i \in DOMAIN se2 /\ se2[i].attempt = se[i].attempt,
         \A k \in DOMAIN su : k \in DOMAIN su2 /\ (su[k].status \in Ended => su2[k].status \in Ended),
         \A r \in la2 : \/ r \in la
                        \/ /\ r.attempt \in PendingAttempt(db)
                           /\ r.expires = db.attempts[r.attempt].created + CheckoutLife
  PROVE  Holds(db, h2, se2, su2, la2)
  <1> USE BillingTimes DEF Holds
  <1>1. PendingAttempt(db) \subseteq DOMAIN db.attempts
    BY DEF PendingAttempt
  <1>2. \A i \in DOMAIN se2 :
          /\ se2[i].attempt \in DOMAIN db.attempts
          /\ se2[i].status = "open" => se2[i].attempt \in PendingAttempt(db)
          /\ se2[i].status = "complete" /\ su2[se2[i].sub].status \notin Ended =>
               se2[i].attempt \in PendingAttempt(db) \/ (Subscribed(db) /\ db.sub = se2[i].sub)
    BY <1>1
  <1>3. \A a \in DOMAIN db.attempts : a \notin PendingAttempt(db) =>
          \/ h2 >= db.attempts[a].created + CheckoutLife
          \/ \E i \in DOMAIN se2 : se2[i].attempt = a
    <2> SUFFICES ASSUME NEW a \in DOMAIN db.attempts, a \notin PendingAttempt(db)
                 PROVE  \/ h2 >= db.attempts[a].created + CheckoutLife
                        \/ \E i \in DOMAIN se2 : se2[i].attempt = a
      OBVIOUS
    <2>1. CASE \E i \in DOMAIN se : se[i].attempt = a
      BY <2>1
    <2>2. CASE h >= db.attempts[a].created + CheckoutLife
      <3>1. db.attempts[a] \in Attempt
        BY DEF BillingRow
      <3>2. PICK c \in Nat : db.attempts[a].created = c
        BY <3>1 DEF Attempt
      <3>3. h2 >= c + CheckoutLife
        BY <2>2, <3>2
      <3> QED BY <3>2, <3>3
    <2> QED BY <2>1, <2>2
  <1>4. /\ db.sub # 0 => db.sub \in DOMAIN su2 /\ (db.status \in Ended => su2[db.sub].status \in Ended)
        /\ \A r \in la2 : /\ r.attempt \in DOMAIN db.attempts
                          /\ r.expires = db.attempts[r.attempt].created + CheckoutLife
        /\ DOMAIN su2 = {} => db.paidUntil = 0
    BY <1>1
  <1> QED BY <1>2, <1>3, <1>4

(* The rows an operation goes on with hold as well.                        *)
LEMMA OperationHolds ==
  ASSUME NEW o, NEW b, NEW h, NEW se, NEW su, NEW la, Working(o, b, h, se, su, la),
         NEW h2, NEW se2, NEW su2, NEW la2, Holds(o.db, h2, se2, su2, la2),
         \A i \in DOMAIN se : i \in DOMAIN se2 /\ se2[i].attempt = se[i].attempt,
         PendingAttempt(o.db) = {} /\ AllEnded(su) => AllEnded(su2)
  PROVE  Working(o, b, h2, se2, su2, la2)
  BY DEF Working

-----------------------------------------------------------------------------
(* What every step of the provider does.                                   *)
Moved ==
  /\ hour' \in Nat
  /\ ProviderOK(sessions', subs', late')
  /\ \A i \in DOMAIN sessions : i \in DOMAIN sessions' /\ sessions'[i].attempt = sessions[i].attempt
  /\ \A db : Holds(db, hour, sessions, subs, late) => Holds(db, hour', sessions', subs', late')
  /\ \A db : Holds(db, hour, sessions, subs, late) /\ PendingAttempt(db) = {} /\ AllEnded(subs)
               => AllEnded(subs')
  /\ Closed(hour, sessions, subs, late) => Closed(hour', sessions', subs', late')
  /\ DOMAIN subs' = {} => DOMAIN subs = {}

(* A sequence stays one when an element is replaced.                       *)
LEMMA SequenceUpdate ==
  ASSUME NEW S, NEW s \in Seq(S), NEW n, NEW e \in S
  PROVE  [s EXCEPT ![n] = e] \in Seq(S)
  <1> DEFINE t == [s EXCEPT ![n] = e]
  <1>0. DOMAIN s = 1..Len(s) /\ Len(s) \in Nat /\ \A x \in 1..Len(s) : s[x] \in S
    OBVIOUS
  <1>1. t \in [1..Len(s) -> S] /\ Len(s) \in Nat
    BY <1>0
  <1>2. t = [x \in 1..Len(s) |-> t[x]] /\ \A x \in 1..Len(s) : t[x] \in S
    BY <1>1
  <1> HIDE DEF t
  <1>3. t \in Seq(S)
    BY <1>1, <1>2
  <1> QED BY <1>3 DEF t

(* An hour passes: attempts only grow older.                               *)
LEMMA PassHourMoves ==
  ASSUME BillingInv, PassHour
  PROVE  Moved
  <1> USE DEF BillingInv, PassHour, providerVars
  <1>1. hour' \in Nat /\ hour <= hour'
    OBVIOUS
  <1>2. ASSUME NEW db, Holds(db, hour, sessions, subs, late)
        PROVE  Holds(db, hour', sessions', subs', late')
    <2> DEFINE h == hour
               h2 == hour'
    <2>1. h \in Nat /\ h2 \in Nat /\ h <= h2
      BY <1>1
    <2>2. \A i \in DOMAIN sessions :
            \/ sessions[i].attempt \in PendingAttempt(db)
            \/ sessions[i].status # "open"
      BY <1>2 DEF Holds
    <2> HIDE DEF h, h2
    <2>3. Holds(db, h2, sessions, subs, late)
      BY <1>2, <2>1, <2>2, RowsHold DEF h
    <2> QED BY <2>3 DEF h2
  <1>3. Closed(hour, sessions, subs, late) => Closed(hour', sessions', subs', late')
    <2>1. \A r \in late : r.expires \in Nat
      BY DEF ProviderOK, LateRequest
    <2> QED BY <1>1, <2>1 DEF Closed
  <1> QED BY <1>1, <1>2, <1>3 DEF Moved

(* A checkout that is not completed ends.                                  *)
LEMMA CheckoutEnds ==
  ASSUME BillingInv, NEW i \in DOMAIN sessions, sessions[i].status # "complete",
         sessions' = [sessions EXCEPT ![i].status = "expired"],
         UNCHANGED <<hour, subs, late>>
  PROVE  Moved
  <1> USE DEF BillingInv
  <1>1. sessions \in Seq(CheckoutRow) /\ sessions[i] \in CheckoutRow
    BY DEF ProviderOK
  <1>2. /\ DOMAIN sessions' = DOMAIN sessions
        /\ \A j \in DOMAIN sessions : j # i => sessions'[j] = sessions[j]
        /\ sessions'[i] = [sessions[i] EXCEPT !.status = "expired"]
    BY <1>1
  <1>3. /\ sessions'[i].attempt = sessions[i].attempt /\ sessions'[i].status = "expired"
        /\ sessions'[i] \in CheckoutRow
    BY <1>1, <1>2 DEF CheckoutRow
  <1>4. sessions' \in Seq(CheckoutRow)
    BY <1>1, <1>2, <1>3
  <1>5. ProviderOK(sessions', subs', late')
    <2>1. \A j, l \in DOMAIN sessions' : sessions'[j].attempt = sessions'[l].attempt => j = l
      BY <1>2, <1>3 DEF ProviderOK
    <2>2. \A j \in DOMAIN sessions' : sessions'[j].status = "complete" => sessions'[j].sub \in DOMAIN subs
      BY <1>2, <1>3 DEF ProviderOK
    <2>3. \A k \in DOMAIN subs : \E j \in DOMAIN sessions' : sessions'[j].status = "complete" /\ sessions'[j].sub = k
      BY <1>2, <1>3 DEF ProviderOK
    <2> QED BY <1>4, <2>1, <2>2, <2>3 DEF ProviderOK
  <1>6. ASSUME NEW db, Holds(db, hour, sessions, subs, late)
        PROVE  Holds(db, hour, sessions', subs, late)
    <2>1. \A j \in DOMAIN sessions' :
            \/ sessions'[j].attempt \in PendingAttempt(db)
            \/ /\ j \in DOMAIN sessions /\ sessions'[j].attempt = sessions[j].attempt
               /\ sessions'[j].status # "open"
               /\ sessions'[j].status = "complete" =>
                    sessions[j].status = "complete" /\ sessions'[j].sub = sessions[j].sub
      BY <1>2, <1>3, <1>6 DEF Holds
    <2>2. \A j \in DOMAIN sessions : j \in DOMAIN sessions' /\ sessions'[j].attempt = sessions[j].attempt
      BY <1>2, <1>3
    <2> DEFINE se2 == sessions'
    <2>3. /\ \A j \in DOMAIN se2 :
               \/ se2[j].attempt \in PendingAttempt(db)
               \/ /\ j \in DOMAIN sessions /\ se2[j].attempt = sessions[j].attempt
                  /\ se2[j].status # "open"
                  /\ se2[j].status = "complete" =>
                       sessions[j].status = "complete" /\ se2[j].sub = sessions[j].sub
          /\ \A j \in DOMAIN sessions : j \in DOMAIN se2 /\ se2[j].attempt = sessions[j].attempt
      BY <2>1, <2>2
    <2> HIDE DEF se2
    <2>4. Holds(db, hour, se2, subs, late)
      BY <1>6, <2>3, RowsHold
    <2> QED BY <2>4 DEF se2
  <1>7. \A j \in DOMAIN sessions : j \in DOMAIN sessions' /\ sessions'[j].attempt = sessions[j].attempt
    BY <1>2, <1>3
  <1>8. Closed(hour, sessions, subs, late) => Closed(hour, sessions', subs, late)
    BY <1>2, <1>3, <1>7 DEF Closed
  <1> QED BY <1>5, <1>6, <1>7, <1>8 DEF Moved

(* A checkout times out.                                                   *)
LEMMA TimeoutMoves ==
  ASSUME BillingInv, NEW i \in DOMAIN sessions, TimeoutSession(i)
  PROVE  Moved
  <1>1. sessions[i].status # "complete"
    BY DEF TimeoutSession
  <1> QED BY <1>1, CheckoutEnds DEF TimeoutSession

(* A payment is for the pending attempt of whatever rows hold.             *)
LEMMA PayMoves ==
  ASSUME BillingInv, NEW i \in DOMAIN sessions, Pay(i)
  PROVE  Moved
  <1> USE DEF BillingInv
  <1> DEFINE k == Len(subs) + 1
             row == [attempt |-> sessions[i].attempt, status |-> "active", start |-> hour,
                     funded |-> <<TRUE>>]
  <1>1. /\ sessions \in Seq(CheckoutRow) /\ sessions[i] \in CheckoutRow
        /\ subs \in Seq(Subscription) /\ DOMAIN subs = 1..Len(subs) /\ Len(subs) \in Nat
    BY DEF ProviderOK
  <1>2. /\ sessions[i].status = "open"
        /\ sessions' = [sessions EXCEPT ![i].status = "complete", ![i].sub = k]
        /\ subs' = Append(subs, row)
        /\ UNCHANGED <<hour, late>>
    BY DEF Pay
  <1>3. /\ DOMAIN sessions' = DOMAIN sessions
        /\ \A j \in DOMAIN sessions : j # i => sessions'[j] = sessions[j]
        /\ sessions'[i] = [sessions[i] EXCEPT !.status = "complete", !.sub = k]
    BY <1>1, <1>2
  <1>k. k \in Nat /\ k \notin DOMAIN subs
    BY <1>1
  <1> HIDE DEF k
  <1>s. PICK s \in CheckoutRow : sessions[i] = s
    BY <1>1
  <1>c. /\ [s EXCEPT !.status = "complete", !.sub = k] \in CheckoutRow
        /\ [s EXCEPT !.status = "complete", !.sub = k].attempt = s.attempt
        /\ [s EXCEPT !.status = "complete", !.sub = k].status = "complete"
        /\ [s EXCEPT !.status = "complete", !.sub = k].sub = k
    BY <1>k DEF CheckoutRow
  <1>4. /\ sessions'[i].attempt = sessions[i].attempt /\ sessions'[i].status = "complete"
        /\ sessions'[i].sub = k /\ sessions'[i] \in CheckoutRow
    BY <1>3, <1>s, <1>c
  <1>5. row \in Subscription
    BY <1>1 DEF Subscription, CheckoutRow
  <1> HIDE DEF row
  <1>6. /\ subs' \in Seq(Subscription) /\ DOMAIN subs' = DOMAIN subs \cup {k}
        /\ \A n \in DOMAIN subs : subs'[n] = subs[n]
    BY <1>1, <1>2, <1>5 DEF k
  <1>7. sessions' \in Seq(CheckoutRow)
    <2>1. sessions' = [sessions EXCEPT ![i] = sessions'[i]]
      BY <1>1, <1>2, <1>3
    <2> QED BY <1>1, <1>4, <2>1, SequenceUpdate
  <1>8. ProviderOK(sessions', subs', late')
    <2>1. \A j, l \in DOMAIN sessions' : sessions'[j].attempt = sessions'[l].attempt => j = l
      <3>1. \A j \in DOMAIN sessions : sessions'[j].attempt = sessions[j].attempt
        BY <1>3, <1>4
      <3> QED BY <1>3, <3>1 DEF ProviderOK
    <2>2. \A j \in DOMAIN sessions' : sessions'[j].status = "complete" => sessions'[j].sub \in DOMAIN subs'
      BY <1>3, <1>4, <1>6 DEF ProviderOK
    <2>3. \A n \in DOMAIN subs' : \E j \in DOMAIN sessions' : sessions'[j].status = "complete" /\ sessions'[j].sub = n
      <3> TAKE n \in DOMAIN subs'
      <3>1. CASE n = k
        BY <1>3, <1>4, <3>1
      <3>2. CASE n \in DOMAIN subs
        <4>1. PICK j \in DOMAIN sessions : sessions[j].status = "complete" /\ sessions[j].sub = n
          BY <3>2 DEF ProviderOK
        <4> QED BY <4>1, <1>2, <1>3
      <3> QED BY <3>1, <3>2, <1>6
    <2> QED BY <1>2, <1>6, <1>7, <2>1, <2>2, <2>3 DEF ProviderOK
  <1>9. \A j \in DOMAIN sessions : j \in DOMAIN sessions' /\ sessions'[j].attempt = sessions[j].attempt
    BY <1>3, <1>4
  <1>10. ASSUME NEW db, Holds(db, hour, sessions, subs, late)
         PROVE  Holds(db, hour, sessions', subs', late)
    <2>1. sessions[i].attempt \in PendingAttempt(db)
      BY <1>2, <1>10 DEF Holds
    <2> DEFINE se2 == sessions'
               su2 == subs'
    <2>2. \A j \in DOMAIN se2 :
            \/ se2[j].attempt \in PendingAttempt(db)
            \/ /\ j \in DOMAIN sessions /\ se2[j].attempt = sessions[j].attempt
               /\ se2[j].status # "open"
               /\ se2[j].status = "complete" =>
                    /\ sessions[j].status = "complete" /\ se2[j].sub = sessions[j].sub
                    /\ subs[sessions[j].sub].status \in Ended => su2[sessions[j].sub].status \in Ended
      <3> TAKE j \in DOMAIN se2
      <3>1. CASE j = i
        BY <2>1, <1>4, <3>1
      <3>2. CASE j # i
        <4>1. sessions'[j] = sessions[j] /\ j \in DOMAIN sessions
          BY <3>2, <1>3
        <4>2. CASE sessions[j].status = "complete"
          <5>1. sessions[j].sub \in DOMAIN subs
            BY <4>1, <4>2 DEF ProviderOK
          <5> QED BY <4>1, <4>2, <5>1, <1>6
        <4>3. CASE sessions[j].status # "complete"
          BY <4>1, <4>3, <1>10 DEF Holds
        <4> QED BY <4>2, <4>3
      <3> QED BY <3>1, <3>2
    <2>3. /\ \A j \in DOMAIN sessions : j \in DOMAIN se2 /\ se2[j].attempt = sessions[j].attempt
          /\ \A n \in DOMAIN subs : n \in DOMAIN su2 /\ (subs[n].status \in Ended => su2[n].status \in Ended)
      BY <1>9, <1>6
    <2> HIDE DEF se2, su2
    <2>4. Holds(db, hour, se2, su2, late)
      BY <1>10, <2>2, <2>3, RowsHold
    <2> QED BY <2>4 DEF se2, su2
  <1>11. /\ ~Closed(hour, sessions, subs, late)
         /\ \A db : Holds(db, hour, sessions, subs, late) => PendingAttempt(db) # {}
    BY <1>2 DEF Closed, Holds
  <1> QED BY <1>2, <1>6, <1>8, <1>9, <1>10, <1>11 DEF Moved

(* A subscription changes, or ends for good.                               *)
LEMMA SubscriptionChanges ==
  ASSUME BillingInv, NEW k \in DOMAIN subs, NEW row \in Subscription,
         subs[k].status \in Ended => row.status \in Ended, subs' = [subs EXCEPT ![k] = row],
         UNCHANGED <<hour, sessions, late>>
  PROVE  Moved
  <1> USE DEF BillingInv
  <1>1. /\ subs' \in Seq(Subscription) /\ DOMAIN subs' = DOMAIN subs
        /\ subs'[k] = row /\ \A n \in DOMAIN subs : n # k => subs'[n] = subs[n]
    BY DEF ProviderOK
  <1>2. ProviderOK(sessions, subs', late)
    BY <1>1 DEF ProviderOK
  <1>3. ASSUME NEW db, Holds(db, hour, sessions, subs, late)
        PROVE  Holds(db, hour, sessions, subs', late)
    <2> DEFINE su2 == subs'
    <2>1. \A j \in DOMAIN sessions :
            \/ sessions[j].attempt \in PendingAttempt(db)
            \/ /\ j \in DOMAIN sessions /\ sessions[j].attempt = sessions[j].attempt
               /\ sessions[j].status # "open"
               /\ sessions[j].status = "complete" =>
                    /\ sessions[j].status = "complete" /\ sessions[j].sub = sessions[j].sub
                    /\ subs[sessions[j].sub].status \in Ended => su2[sessions[j].sub].status \in Ended
      BY <1>1, <1>3 DEF Holds, ProviderOK
    <2>2. \A n \in DOMAIN subs : n \in DOMAIN su2 /\ (subs[n].status \in Ended => su2[n].status \in Ended)
      BY <1>1
    <2>h. hour \in Nat /\ hour <= hour
      OBVIOUS
    <2> HIDE DEF su2
    <2>3. Holds(db, hour, sessions, su2, late)
      BY <1>3, <2>h, <2>1, <2>2, RowsHold
    <2> QED BY <2>3 DEF su2
  <1>4. AllEnded(subs) => AllEnded(subs')
    BY <1>1 DEF AllEnded
  <1> QED BY <1>1, <1>2, <1>3, <1>4 DEF Moved, Closed

(* The provider changes a subscription by itself.                          *)
LEMMA ProviderChangeMoves ==
  ASSUME BillingInv, NEW k \in DOMAIN subs, ProviderChange(k)
  PROVE  Moved
  <1> DEFINE s == subs[k]
  <1>1. subs \in Seq(Subscription) /\ s \in Subscription
    BY DEF BillingInv, ProviderOK
  <1>2. subs[k].status \notin Ended /\ UNCHANGED <<hour, sessions, late>>
    BY DEF ProviderChange
  <1>3. \E row \in Subscription : subs' = [subs EXCEPT ![k] = row]
    <2>1. ASSUME NEW paid \in BOOLEAN,
                 subs' = [subs EXCEPT ![k].funded = Append(@, paid),
                                      ![k].status = IF paid THEN "active" ELSE "past_due"]
          PROVE  \E row \in Subscription : subs' = [subs EXCEPT ![k] = row]
      <3> DEFINE row == [s EXCEPT !.funded = Append(@, paid),
                                  !.status = IF paid THEN "active" ELSE "past_due"]
      <3>1. subs' = [subs EXCEPT ![k] = row]
        BY <1>1, <2>1
      <3>2. Append(s.funded, paid) \in Seq(BOOLEAN)
        BY <1>1 DEF Subscription
      <3>3. row \in Subscription
        BY <1>1, <3>2 DEF Subscription
      <3> QED BY <3>1, <3>3
    <2>2. ASSUME SettleInvoice(k)
          PROVE  \E row \in Subscription : subs' = [subs EXCEPT ![k] = row]
      <3> DEFINE n == Len(s.funded)
                 fs == [s.funded EXCEPT ![n] = ~@]
                 st == IF s.funded[n] THEN s.status ELSE "active"
                 row == [s EXCEPT !.funded = fs, !.status = st]
      <3>1. subs' = [subs EXCEPT ![k] = row]
        BY <1>1, <2>2 DEF SettleInvoice
      <3>2. fs \in Seq(BOOLEAN)
        <4>1. PICK b \in BOOLEAN : b = ~s.funded[n]
          OBVIOUS
        <4>2. s.funded \in Seq(BOOLEAN)
          BY <1>1 DEF Subscription
        <4>3. [s.funded EXCEPT ![n] = b] \in Seq(BOOLEAN)
          BY <4>2, SequenceUpdate
        <4> QED BY <4>1, <4>3
      <3>3. st \in {"active", "past_due", "canceled"}
        BY <1>1 DEF Subscription
      <3> HIDE DEF fs, st
      <3>4. row \in Subscription
        BY <1>1, <3>2, <3>3 DEF Subscription
      <3> QED BY <3>1, <3>4
    <2>3. ASSUME Cancelled(k)
          PROVE  \E row \in Subscription : subs' = [subs EXCEPT ![k] = row]
      <3> DEFINE row == [s EXCEPT !.status = "canceled"]
      <3>1. subs' = [subs EXCEPT ![k] = row]
        BY <1>1, <2>3 DEF Cancelled
      <3>2. row \in Subscription
        BY <1>1 DEF Subscription
      <3> QED BY <3>1, <3>2
    <2>4. \/ \E paid \in BOOLEAN :
               subs' = [subs EXCEPT ![k].funded = Append(@, paid),
                                    ![k].status = IF paid THEN "active" ELSE "past_due"]
          \/ SettleInvoice(k) \/ Cancelled(k)
      BY Zenon DEF ProviderChange, Renew
    <2> QED BY <2>1, <2>2, <2>3, <2>4
  <1>4. PICK row \in Subscription : subs' = [subs EXCEPT ![k] = row]
    BY <1>3
  <1> QED BY <1>2, <1>4, SubscriptionChanges

(* Creating a checkout: rows go on to hold when the attempt is pending in  *)
(* them, should a checkout be created at all.                              *)
LEMMA CheckoutCreated ==
  ASSUME BillingInv, NEW a \in Nat, NEW v \in Intervals, NEW e \in Nat, Create(a, v, e),
         UNCHANGED <<hour, subs>>, late' \subseteq late
  PROVE  /\ ProviderOK(sessions', subs', late')
         /\ \A i \in DOMAIN sessions : i \in DOMAIN sessions' /\ sessions'[i].attempt = sessions[i].attempt
         /\ \A db : Holds(db, hour, sessions, subs, late)
                    /\ (SessionsOf(a) = {} /\ hour < e => a \in PendingAttempt(db))
                    => Holds(db, hour', sessions', subs', late')
         /\ (SessionsOf(a) = {} /\ hour < e) \/ sessions' = sessions
  <1> USE DEF BillingInv
  <1>1. sessions \in Seq(CheckoutRow) /\ DOMAIN sessions = 1..Len(sessions) /\ Len(sessions) \in Nat
    BY DEF ProviderOK
  <1>2. CASE ~(SessionsOf(a) = {} /\ hour < e)
    <2>1. sessions' = sessions
      BY <1>2 DEF Create
    <2>2. ProviderOK(sessions', subs', late')
      BY <2>1 DEF ProviderOK
    <2>3. ASSUME NEW db, Holds(db, hour, sessions, subs, late)
          PROVE  Holds(db, hour', sessions', subs', late')
      BY <2>1, <2>3 DEF Holds
    <2> QED BY <2>1, <2>2, <2>3
  <1>3. CASE SessionsOf(a) = {} /\ hour < e
    <2> DEFINE row == [attempt |-> a, interval |-> v, status |-> "open", sub |-> 0, expires |-> e]
               n == Len(sessions) + 1
    <2>1. sessions' = Append(sessions, row)
      BY <1>3 DEF Create
    <2>2. row \in CheckoutRow /\ row.attempt = a /\ row.status = "open"
      BY DEF CheckoutRow
    <2> HIDE DEF row
    <2>3. /\ sessions' \in Seq(CheckoutRow) /\ DOMAIN sessions' = DOMAIN sessions \cup {n}
          /\ sessions'[n] = row /\ \A i \in DOMAIN sessions : sessions'[i] = sessions[i]
      BY <1>1, <2>1, <2>2
    <2>4. \A i \in DOMAIN sessions : sessions[i].attempt # a
      BY <1>3 DEF SessionsOf
    <2> HIDE DEF n
    <2>5. ProviderOK(sessions', subs', late')
      <3>1. \A i, j \in DOMAIN sessions' : sessions'[i].attempt = sessions'[j].attempt => i = j
        BY <2>2, <2>3, <2>4 DEF ProviderOK
      <3>2. \A i \in DOMAIN sessions' : sessions'[i].status = "complete" => sessions'[i].sub \in DOMAIN subs
        BY <2>2, <2>3 DEF ProviderOK
      <3>3. \A k \in DOMAIN subs : \E i \in DOMAIN sessions' : sessions'[i].status = "complete" /\ sessions'[i].sub = k
        BY <2>3 DEF ProviderOK
      <3> QED BY <2>3, <3>1, <3>2, <3>3 DEF ProviderOK
    <2>6. ASSUME NEW db, Holds(db, hour, sessions, subs, late), a \in PendingAttempt(db)
          PROVE  Holds(db, hour', sessions', subs', late')
      <3> DEFINE se2 == sessions'
                 la2 == late'
      <3>1. \A j \in DOMAIN se2 :
              \/ se2[j].attempt \in PendingAttempt(db)
              \/ /\ j \in DOMAIN sessions /\ se2[j].attempt = sessions[j].attempt
                 /\ se2[j].status # "open"
                 /\ se2[j].status = "complete" =>
                      sessions[j].status = "complete" /\ se2[j].sub = sessions[j].sub
        BY <2>2, <2>3, <2>6 DEF Holds
      <3>2. /\ \A j \in DOMAIN sessions : j \in DOMAIN se2 /\ se2[j].attempt = sessions[j].attempt
            /\ la2 \subseteq late
        BY <2>3
      <3> HIDE DEF se2, la2
      <3>3. Holds(db, hour, se2, subs, la2)
        BY <2>6, <3>1, <3>2, RowsHold
      <3> QED BY <3>3 DEF se2, la2
    <2> QED BY <1>3, <2>3, <2>5, <2>6
  <1> QED BY <1>2, <1>3

(* A request that comes late finds its attempt pending, its checkout made, *)
(* or its expiry passed.                                                   *)
LEMMA LateCreateMoves ==
  ASSUME BillingInv, NEW r \in late, LateCreate(r)
  PROVE  Moved
  <1> USE DEF BillingInv
  <1>1. /\ r.attempt \in Nat /\ r.interval \in Intervals /\ r.expires \in Nat
        /\ late' \subseteq late /\ UNCHANGED <<hour, subs>>
    BY DEF ProviderOK, LateRequest, LateCreate
  <1>2. ASSUME NEW db, Holds(db, hour, sessions, subs, late), SessionsOf(r.attempt) = {}, hour < r.expires
        PROVE  r.attempt \in PendingAttempt(db)
    <2>1. r.attempt \in DOMAIN db.attempts /\ r.expires = db.attempts[r.attempt].created + CheckoutLife
      BY <1>2 DEF Holds
    <2>2. ~(hour >= r.expires)
      BY <1>1, <1>2
    <2>3. \A i \in DOMAIN sessions : sessions[i].attempt # r.attempt
      BY <1>2 DEF SessionsOf
    <2> QED BY <1>2, <2>1, <2>2, <2>3 DEF Holds
  <1>3. Closed(hour, sessions, subs, late) => ~(SessionsOf(r.attempt) = {} /\ hour < r.expires)
    BY <1>1 DEF Closed, SessionsOf
  <1>4. CASE Create(r.attempt, r.interval, r.expires)
    <2>1. /\ ProviderOK(sessions', subs', late')
          /\ \A i \in DOMAIN sessions : i \in DOMAIN sessions' /\ sessions'[i].attempt = sessions[i].attempt
          /\ \A db : Holds(db, hour, sessions, subs, late)
                     /\ (SessionsOf(r.attempt) = {} /\ hour < r.expires => r.attempt \in PendingAttempt(db))
                     => Holds(db, hour', sessions', subs', late')
          /\ (SessionsOf(r.attempt) = {} /\ hour < r.expires) \/ sessions' = sessions
      BY <1>1, <1>4, CheckoutCreated
    <2>2. \A db : Holds(db, hour, sessions, subs, late) => Holds(db, hour', sessions', subs', late')
      BY <1>2, <2>1
    <2>3. Closed(hour, sessions, subs, late) => Closed(hour', sessions', subs', late')
      BY <1>1, <1>3, <2>1 DEF Closed
    <2> QED BY <1>1, <2>1, <2>2, <2>3 DEF Moved
  <1>5. CASE UNCHANGED sessions
    BY <1>1, <1>5 DEF Moved, Closed, Holds, ProviderOK
  <1> QED BY <1>4, <1>5 DEF LateCreate

-----------------------------------------------------------------------------
(* The row of an attempt changes.                                          *)
LEMMA AttemptRow ==
  ASSUME NEW db, BillingRow(db), NEW a \in DOMAIN db.attempts, NEW r \in Attempt
  PROVE  LET at == [db.attempts EXCEPT ![a] = r] IN
         /\ at \in Seq(Attempt) /\ DOMAIN at = DOMAIN db.attempts
         /\ at[a] = r /\ \A b \in DOMAIN db.attempts : b # a => at[b] = db.attempts[b]
  BY DEF BillingRow

(* The attempts of the rows change.                                        *)
LEMMA AttemptsColumn ==
  ASSUME NEW db, BillingRow(db), NEW at
  PROVE  [db EXCEPT !.attempts = at] =
           [customer |-> db.customer, sub |-> db.sub, status |-> db.status,
            attempts |-> at, invoices |-> db.invoices, paidUntil |-> db.paidUntil]
  <1>1. PICK c, k, s, a, v, p :
          db = [customer |-> c, sub |-> k, status |-> s, attempts |-> a, invoices |-> v, paidUntil |-> p]
    BY DEF BillingRow
  <1>2. db \in [customer : {c}, sub : {k}, status : {s}, attempts : {a}, invoices : {v}, paidUntil : {p}]
    BY <1>1
  <1>3. [db EXCEPT !.attempts = at] =
          [customer |-> c, sub |-> k, status |-> s, attempts |-> at, invoices |-> v, paidUntil |-> p]
    BY <1>2
  <1>4. db.customer = c /\ db.sub = k /\ db.status = s /\ db.invoices = v /\ db.paidUntil = p
    BY <1>1
  <1> QED BY <1>3, <1>4

(* What was read of the subscription goes into the rows.                   *)
ReadRows(db, st, invoices, paid) ==
  [db EXCEPT !.status = st, !.invoices = invoices, !.paidUntil = paid]

(* Reading a subscription changes three columns of the rows.               *)
LEMMA ReadColumns ==
  ASSUME NEW db, BillingRow(db), NEW st, NEW invoices, NEW paid
  PROVE  ReadRows(db, st, invoices, paid) =
           [customer |-> db.customer, sub |-> db.sub, status |-> st,
            attempts |-> db.attempts, invoices |-> invoices, paidUntil |-> paid]
  <1>1. PICK c, k, s, a, v, p :
          db = [customer |-> c, sub |-> k, status |-> s, attempts |-> a, invoices |-> v, paidUntil |-> p]
    BY DEF BillingRow
  <1> DEFINE R == [customer : {c}, sub : {k}, status : {s, st}, attempts : {a}, invoices : {v, invoices},
                   paidUntil : {p, paid}]
             new == [db EXCEPT !.status = st, !.invoices = invoices, !.paidUntil = paid]
  <1>2. db \in R
    BY <1>1
  <1>3. new \in R /\ new.status = st /\ new.invoices = invoices /\ new.paidUntil = paid
    BY <1>2
  <1> HIDE DEF new
  <1>4. new = [customer |-> new.customer, sub |-> new.sub, status |-> new.status,
               attempts |-> new.attempts, invoices |-> new.invoices, paidUntil |-> new.paidUntil]
        /\ new.customer = c /\ new.sub = k /\ new.attempts = a
    BY <1>3
  <1>5. db.customer = c /\ db.sub = k /\ db.attempts = a
    BY <1>1
  <1>6. new = [customer |-> c, sub |-> k, status |-> st, attempts |-> a, invoices |-> invoices, paidUntil |-> paid]
    BY <1>3, <1>4
  <1> QED BY <1>5, <1>6 DEF new, ReadRows

(* What binding a checkout does to the rows.                               *)
BoundTo(db, db2, a, st) ==
  /\ BillingRow(db2)
  /\ DOMAIN db2.attempts = DOMAIN db.attempts
  /\ \A b \in DOMAIN db.attempts :
       /\ db2.attempts[b].created = db.attempts[b].created
       /\ b # a => db2.attempts[b] = db.attempts[b]
  /\ db2.attempts[a].state = st
  /\ db2.paidUntil = db.paidUntil

(* bindCompletedCheckout binds the attempt to what the checkout says.      *)
LEMMA BoundRow ==
  ASSUME NEW db, BillingRow(db), NEW a \in DOMAIN db.attempts, NEW i \in Nat, NEW s \in CheckoutRow
  PROVE  LET db2 == bindCompletedCheckout(db, a, i, s) IN
         /\ s.status = "expired" =>
              BoundTo(db, db2, a, "expired") /\ db2.sub = db.sub /\ db2.status = db.status
         /\ s.status = "open" =>
              BoundTo(db, db2, a, db.attempts[a].state) /\ db2.sub = db.sub /\ db2.status = db.status
         /\ s.status = "complete" =>
              BoundTo(db, db2, a, "complete") /\ db2.sub = s.sub /\ db2.status = subs[s.sub].status
  <1> DEFINE row == db.attempts[a]
             Row(st) == [interval |-> row.interval, created |-> row.created, session |-> i, state |-> st]
             With(st) == [db.attempts EXCEPT ![a] = Row(st)]
             Rows(st, k, status) ==
               [customer |-> db.customer, sub |-> k, status |-> status, attempts |-> With(st),
                invoices |-> db.invoices, paidUntil |-> db.paidUntil]
             known == [db EXCEPT !.attempts[a].session = i]
  <1>1. /\ db.attempts \in Seq(Attempt) /\ row \in Attempt /\ db.sub \in Nat
        /\ s.status \in {"open", "complete", "expired"} /\ s.sub \in Nat
    BY DEF BillingRow, CheckoutRow
  <1>2. ASSUME NEW st \in {"pending", "expired", "complete"}, NEW k \in Nat, NEW status
        PROVE  /\ BoundTo(db, Rows(st, k, status), a, st)
               /\ Rows(st, k, status).sub = k /\ Rows(st, k, status).status = status
    <2>1. Row(st) \in Attempt
      BY <1>1 DEF Attempt
    <2> DEFINE r == Row(st)
               at == With(st)
    <2>2. r.created = row.created /\ r.state = st
      OBVIOUS
    <2>3. /\ at \in Seq(Attempt) /\ DOMAIN at = DOMAIN db.attempts
          /\ at[a] = r /\ \A b \in DOMAIN db.attempts : b # a => at[b] = db.attempts[b]
      BY <2>1, AttemptRow
    <2> HIDE DEF r, at
    <2>4. Rows(st, k, status) = [customer |-> db.customer, sub |-> k, status |-> status, attempts |-> at,
                                 invoices |-> db.invoices, paidUntil |-> db.paidUntil]
      BY DEF at
    <2> HIDE DEF Rows
    <2> QED BY <2>2, <2>3, <2>4 DEF BoundTo, BillingRow
  <1>3. known = Rows(row.state, db.sub, db.status)
    <2>a. row \in [interval : Intervals, created : Nat, session : Nat, state : {"pending", "expired", "complete"}]
      BY <1>1 DEF Attempt
    <2>1. [row EXCEPT !.session = i] = Row(row.state)
      BY <2>a
    <2>2. known = [db EXCEPT !.attempts = [db.attempts EXCEPT ![a] = [row EXCEPT !.session = i]]]
      BY DEF BillingRow
    <2>4. [db EXCEPT !.attempts = With(row.state)] = Rows(row.state, db.sub, db.status)
      <3> DEFINE at == With(row.state)
      <3> HIDE DEF at
      <3>1. [db EXCEPT !.attempts = at] = [customer |-> db.customer, sub |-> db.sub, status |-> db.status,
                    attempts |-> at, invoices |-> db.invoices, paidUntil |-> db.paidUntil]
        BY AttemptsColumn
      <3> QED BY <3>1 DEF at
    <2> QED BY <2>1, <2>2, <2>4
  <1>4. \A st : [known EXCEPT !.attempts[a].state = st] = Rows(st, db.sub, db.status)
    <2> TAKE st
    <2>1. [known EXCEPT !.attempts[a].state = st] =
            [Rows(row.state, db.sub, db.status) EXCEPT !.attempts = [With(row.state) EXCEPT ![a] = [Row(row.state) EXCEPT !.state = st]]]
      BY <1>1, <1>3
    <2>2. [Row(row.state) EXCEPT !.state = st] = Row(st)
      OBVIOUS
    <2>3. [With(row.state) EXCEPT ![a] = Row(st)] = With(st)
      BY <1>1
    <2> QED BY <2>1, <2>2, <2>3
  <1>5. CASE s.status = "expired"
    <2>1. bindCompletedCheckout(db, a, i, s) = Rows("expired", db.sub, db.status)
      BY <1>4, <1>5 DEF bindCompletedCheckout
    <2> HIDE DEF Rows
    <2> QED BY <1>1, <1>2, <1>5, <2>1
  <1>6. CASE s.status = "open"
    <2>1. bindCompletedCheckout(db, a, i, s) = Rows(row.state, db.sub, db.status)
      BY <1>3, <1>6 DEF bindCompletedCheckout
    <2>2. row.state \in {"pending", "expired", "complete"}
      BY <1>1 DEF Attempt
    <2> HIDE DEF Rows
    <2> QED BY <1>1, <1>2, <1>6, <2>1, <2>2
  <1>7. CASE s.status = "complete"
    <2>1. bindCompletedCheckout(db, a, i, s) =
            [known EXCEPT !.attempts[a].state = "complete", !.sub = s.sub, !.status = subs[s.sub].status]
      BY <1>7 DEF bindCompletedCheckout
    <2>2. bindCompletedCheckout(db, a, i, s) =
            [Rows("complete", db.sub, db.status) EXCEPT !.sub = s.sub, !.status = subs[s.sub].status]
      BY <2>1, <1>4
    <2>3. bindCompletedCheckout(db, a, i, s) = Rows("complete", s.sub, subs[s.sub].status)
      BY <2>2
    <2> HIDE DEF Rows
    <2> QED BY <1>1, <1>2, <1>7, <2>3
  <1> QED BY <1>1, <1>5, <1>6, <1>7

(* Binding the checkout of the pending attempt.                            *)
LEMMA BoundHolds ==
  ASSUME NEW db, NEW h, NEW se, NEW la, Holds(db, h, se, subs, la), ProviderOK(se, subs, la),
         NEW i \in DOMAIN se, se[i].attempt \in PendingAttempt(db), Bindable(db, se[i])
  PROVE  LET db2 == bindCompletedCheckout(db, se[i].attempt, i, se[i]) IN
         /\ Holds(db2, h, se, subs, la)
         /\ DOMAIN db2.attempts = DOMAIN db.attempts
         /\ \A b \in DOMAIN db.attempts : db2.attempts[b].created = db.attempts[b].created
         /\ PendingAttempt(db2) = IF se[i].status = "open" THEN PendingAttempt(db) ELSE {}
  <1> DEFINE a == se[i].attempt
             db2 == bindCompletedCheckout(db, a, i, se[i])
  <1>1. /\ BillingRow(db) /\ a \in DOMAIN db.attempts /\ PendingAttempt(db) = {a}
        /\ db.attempts[a].state = "pending" /\ ~Subscribed(db)
    BY DEF Holds, PendingAttempt
  <1>2. se[i] \in CheckoutRow /\ i \in Nat
    BY DEF ProviderOK
  <1>3. \A j \in DOMAIN se : se[j].attempt = a => j = i
    BY DEF ProviderOK
  <1>4. /\ se[i].status = "expired" =>
             BoundTo(db, db2, a, "expired") /\ db2.sub = db.sub /\ db2.status = db.status
        /\ se[i].status = "open" =>
             BoundTo(db, db2, a, "pending") /\ db2.sub = db.sub /\ db2.status = db.status
        /\ se[i].status = "complete" =>
             BoundTo(db, db2, a, "complete") /\ db2.sub = se[i].sub /\ db2.status = subs[se[i].sub].status
    BY <1>1, <1>2, BoundRow
  <1>5. se[i].status \in {"open", "complete", "expired"}
    BY <1>2 DEF CheckoutRow
  <1> HIDE DEF db2
  <1>6. \A st : BoundTo(db, db2, a, st) =>
          /\ BillingRow(db2) /\ DOMAIN db2.attempts = DOMAIN db.attempts
          /\ \A b \in DOMAIN db.attempts : db2.attempts[b].created = db.attempts[b].created
          /\ PendingAttempt(db2) = IF st = "pending" THEN PendingAttempt(db) ELSE {}
          /\ db2.paidUntil = db.paidUntil
    <2> SUFFICES ASSUME NEW st, BoundTo(db, db2, a, st)
                 PROVE  PendingAttempt(db2) = IF st = "pending" THEN PendingAttempt(db) ELSE {}
      BY DEF BoundTo
    <2>1. \A b \in DOMAIN db.attempts : b # a => db2.attempts[b].state # "pending"
      BY <1>1 DEF BoundTo, PendingAttempt
    <2>2. DOMAIN db2.attempts = DOMAIN db.attempts /\ db2.attempts[a].state = st
      BY DEF BoundTo
    <2> QED BY <1>1, <2>1, <2>2 DEF PendingAttempt
  <1>7. CASE se[i].status = "open"
    <2>1. /\ BillingRow(db2) /\ DOMAIN db2.attempts = DOMAIN db.attempts
          /\ \A b \in DOMAIN db.attempts : db2.attempts[b].created = db.attempts[b].created
          /\ PendingAttempt(db2) = PendingAttempt(db)
          /\ db2.paidUntil = db.paidUntil /\ db2.sub = db.sub /\ db2.status = db.status
      BY <1>4, <1>6, <1>7
    <2>2. Subscribed(db2) <=> Subscribed(db)
      BY <2>1 DEF Subscribed
    <2>3. Holds(db2, h, se, subs, la)
      BY <2>1, <2>2 DEF Holds
    <2> QED BY <1>7, <2>1, <2>3 DEF db2
  <1>8. CASE se[i].status # "open"
    <2>1. /\ BillingRow(db2) /\ DOMAIN db2.attempts = DOMAIN db.attempts
          /\ \A b \in DOMAIN db.attempts : db2.attempts[b].created = db.attempts[b].created
          /\ PendingAttempt(db2) = {}
          /\ db2.paidUntil = db.paidUntil
      BY <1>4, <1>5, <1>6, <1>8
    <2>2. \A j \in DOMAIN se :
            /\ se[j].attempt \in DOMAIN db2.attempts
            /\ se[j].status = "open" => se[j].attempt \in PendingAttempt(db2)
      BY <1>1, <1>3, <1>8, <2>1 DEF Holds
    <2>3. \A j \in DOMAIN se :
            se[j].status = "complete" /\ subs[se[j].sub].status \notin Ended =>
              Subscribed(db2) /\ db2.sub = se[j].sub
      <3> SUFFICES ASSUME NEW j \in DOMAIN se, se[j].status = "complete", subs[se[j].sub].status \notin Ended
                   PROVE  Subscribed(db2) /\ db2.sub = se[j].sub
        OBVIOUS
      <3>1. j = i
        BY <1>1, <1>3 DEF Holds
      <3>2. se[i].sub \in DOMAIN subs /\ subs \in Seq(Subscription)
        BY <3>1 DEF ProviderOK
      <3>3. se[i].sub # 0
        BY <3>2
      <3> QED BY <1>4, <3>1, <3>3 DEF Subscribed
    <2>4. \A b \in DOMAIN db2.attempts : b \notin PendingAttempt(db2) =>
            \/ h >= db2.attempts[b].created + CheckoutLife
            \/ \E j \in DOMAIN se : se[j].attempt = b
      <3> SUFFICES ASSUME NEW b \in DOMAIN db.attempts
                   PROVE  \/ h >= db2.attempts[b].created + CheckoutLife
                          \/ \E j \in DOMAIN se : se[j].attempt = b
        BY <2>1
      <3>1. CASE b = a
        BY <3>1
      <3>2. CASE b # a
        BY <1>1, <2>1, <3>2 DEF Holds
      <3> QED BY <3>1, <3>2
    <2>5. db2.sub # 0 => db2.sub \in DOMAIN subs /\ (db2.status \in Ended => subs[db2.sub].status \in Ended)
      BY <1>4, <1>5, <1>8 DEF Holds, ProviderOK
    <2>6. /\ \A r \in la : /\ r.attempt \in DOMAIN db2.attempts
                           /\ r.expires = db2.attempts[r.attempt].created + CheckoutLife
          /\ DOMAIN subs = {} => db2.paidUntil = 0
      BY <2>1 DEF Holds
    <2>7. Holds(db2, h, se, subs, la)
      BY <2>1, <2>2, <2>3, <2>4, <2>5, <2>6 DEF Holds
    <2> QED BY <1>8, <2>1, <2>7 DEF db2
  <1> QED BY <1>7, <1>8

(* Giving up the pending attempt, when it has no checkout and can get none.*)
LEMMA GivenUpHolds ==
  ASSUME NEW db, NEW h \in Nat, NEW se, NEW su, NEW la, Holds(db, h, se, su, la),
         NEW a \in PendingAttempt(db), h > db.attempts[a].created + CheckoutLife + Grace,
         \A i \in DOMAIN se : se[i].attempt # a
  PROVE  LET db2 == [db EXCEPT !.attempts[a].state = "expired"] IN
         /\ Holds(db2, h, se, su, la)
         /\ DOMAIN db2.attempts = DOMAIN db.attempts
         /\ \A b \in DOMAIN db.attempts : db2.attempts[b].created = db.attempts[b].created
         /\ PendingAttempt(db2) = {}
  <1> DEFINE t == db.attempts[a]
             row == [interval |-> t.interval, created |-> t.created, session |-> t.session, state |-> "expired"]
             at == [db.attempts EXCEPT ![a] = row]
             db2 == [db EXCEPT !.attempts[a].state = "expired"]
  <1>1. BillingRow(db) /\ a \in DOMAIN db.attempts /\ PendingAttempt(db) = {a} /\ db.sub \in Nat
    BY DEF Holds, BillingRow, PendingAttempt
  <1>2. t \in Attempt
    BY <1>1 DEF BillingRow
  <1>3. [t EXCEPT !.state = "expired"] = row /\ row \in Attempt
    BY <1>2 DEF Attempt
  <1>4. db2 = [db EXCEPT !.attempts = at]
    <2>1. db2 = [db EXCEPT !.attempts = [db.attempts EXCEPT ![a] = [t EXCEPT !.state = "expired"]]]
      BY <1>1 DEF BillingRow
    <2> QED BY <1>3, <2>1
  <1>5. row.created = t.created /\ row.state = "expired"
    OBVIOUS
  <1>6. /\ at \in Seq(Attempt) /\ DOMAIN at = DOMAIN db.attempts
        /\ at[a] = row /\ \A b \in DOMAIN db.attempts : b # a => at[b] = db.attempts[b]
    <2> HIDE DEF row
    <2> QED BY <1>1, <1>3, AttemptRow
  <1> HIDE DEF row, at, db2
  <1>7. db2 = [customer |-> db.customer, sub |-> db.sub, status |-> db.status,
               attempts |-> at, invoices |-> db.invoices, paidUntil |-> db.paidUntil]
    BY <1>1, <1>4, AttemptsColumn
  <1>8. /\ BillingRow(db2) /\ db2.attempts = at /\ db2.sub = db.sub /\ db2.status = db.status
        /\ db2.paidUntil = db.paidUntil
    BY <1>1, <1>6, <1>7 DEF BillingRow
  <1>9. /\ DOMAIN db2.attempts = DOMAIN db.attempts
        /\ \A b \in DOMAIN db.attempts : db2.attempts[b].created = db.attempts[b].created
    BY <1>5, <1>6, <1>8
  <1>10. PendingAttempt(db2) = {}
    BY <1>1, <1>5, <1>6, <1>8 DEF PendingAttempt
  <1>11. h >= db.attempts[a].created + CheckoutLife
    <2>1. PICK c \in Nat : t.created = c
      BY <1>2 DEF Attempt
    <2> QED BY <2>1, BillingTimes
  <1>12. \A i \in DOMAIN se :
           /\ se[i].attempt \in DOMAIN db2.attempts
           /\ se[i].status # "open"
           /\ se[i].status = "complete" /\ su[se[i].sub].status \notin Ended =>
                Subscribed(db2) /\ db2.sub = se[i].sub
    BY <1>1, <1>8, <1>9 DEF Holds, Subscribed
  <1>13. \A b \in DOMAIN db2.attempts :
           \/ h >= db2.attempts[b].created + CheckoutLife
           \/ \E i \in DOMAIN se : se[i].attempt = b
    <2> SUFFICES ASSUME NEW b \in DOMAIN db.attempts
                 PROVE  \/ h >= db2.attempts[b].created + CheckoutLife
                        \/ \E i \in DOMAIN se : se[i].attempt = b
      BY <1>9
    <2>1. CASE b = a
      BY <1>9, <1>11, <2>1
    <2>2. CASE b # a
      BY <1>1, <1>9, <2>2 DEF Holds
    <2> QED BY <2>1, <2>2
  <1>14. Holds(db2, h, se, su, la)
    BY <1>8, <1>9, <1>10, <1>12, <1>13 DEF Holds
  <1> QED BY <1>9, <1>10, <1>14 DEF db2

(* Reading the subscription.                                               *)
LEMMA ReadHolds ==
  ASSUME NEW db, NEW h, NEW la, Holds(db, h, sessions, subs, la), db.sub # 0,
         NEW invoices, NEW paid, NEW st, st = subs[db.sub].status,
         NEW db2, db2 = ReadRows(db, st, invoices, paid)
  PROVE  /\ Holds(db2, h, sessions, subs, la)
         /\ db2.attempts = db.attempts
  <1>0. BillingRow(db)
    BY DEF Holds
  <1>1. db2 = [customer |-> db.customer, sub |-> db.sub, status |-> st,
               attempts |-> db.attempts, invoices |-> invoices, paidUntil |-> paid]
    BY <1>0, ReadColumns
  <1>2. /\ BillingRow(db2) /\ db2.attempts = db.attempts /\ db2.sub = db.sub
        /\ db2.status = subs[db.sub].status
        /\ PendingAttempt(db2) = PendingAttempt(db)
    BY <1>1 DEF Holds, BillingRow, PendingAttempt
  <1>3. Subscribed(db2) => Subscribed(db)
    BY <1>2 DEF Subscribed, Holds
  <1>4. \A i \in DOMAIN sessions :
          sessions[i].status = "complete" /\ subs[sessions[i].sub].status \notin Ended =>
            sessions[i].attempt \in PendingAttempt(db2) \/ (Subscribed(db2) /\ db2.sub = sessions[i].sub)
    BY <1>2 DEF Subscribed, Holds
  <1>5. db.sub \in DOMAIN subs
    BY DEF Holds
  <1>6. Holds(db2, h, sessions, subs, la)
    BY <1>2, <1>3, <1>4, <1>5 DEF Holds
  <1> QED BY <1>2, <1>6
-----------------------------------------------------------------------------
(* The operations.  One goes on with the rows db, at the place pc.         *)
LEMMA OpColumns ==
  ASSUME NEW o, o = [kind |-> o.kind, interval |-> o.interval, pc |-> o.pc, db |-> o.db, at |-> o.at],
         NEW db, NEW pc, NEW at
  PROVE  /\ [o EXCEPT !.pc = pc] =
              [kind |-> o.kind, interval |-> o.interval, pc |-> pc, db |-> o.db, at |-> o.at]
         /\ [o EXCEPT !.db = db, !.pc = pc] =
              [kind |-> o.kind, interval |-> o.interval, pc |-> pc, db |-> db, at |-> o.at]
         /\ [o EXCEPT !.db = db, !.at = at, !.pc = pc] =
              [kind |-> o.kind, interval |-> o.interval, pc |-> pc, db |-> db, at |-> at]
  <1>1. PICK k, v, p, d, n : o = [kind |-> k, interval |-> v, pc |-> p, db |-> d, at |-> n]
    OBVIOUS
  <1>2. o.kind = k /\ o.interval = v /\ o.pc = p /\ o.db = d /\ o.at = n
    BY <1>1
  <1> DEFINE R == [kind : {k}, interval : {v}, pc : {p, pc}, db : {d, db}, at : {n, at}]
             Row(x, y, z) == [kind |-> k, interval |-> v, pc |-> x, db |-> y, at |-> z]
  <1>3. o \in R
    BY <1>1
  <1>4. ASSUME NEW r \in R
        PROVE  r = Row(r.pc, r.db, r.at)
    BY <1>4
  <1>5. [o EXCEPT !.pc = pc] = Row(pc, d, n)
    <2> DEFINE r == [o EXCEPT !.pc = pc]
    <2>1. r \in R /\ r.pc = pc /\ r.db = d /\ r.at = n
      BY <1>2, <1>3
    <2> HIDE DEF r, Row, R
    <2>2. r = Row(pc, d, n)
      BY <1>4, <2>1
    <2> QED BY <2>2 DEF r
  <1>6. [o EXCEPT !.db = db, !.pc = pc] = Row(pc, db, n)
    <2> DEFINE r == [o EXCEPT !.db = db, !.pc = pc]
    <2>1. r \in R /\ r.pc = pc /\ r.db = db /\ r.at = n
      BY <1>2, <1>3
    <2> HIDE DEF r, Row, R
    <2>2. r = Row(pc, db, n)
      BY <1>4, <2>1
    <2> QED BY <2>2 DEF r
  <1>7. [o EXCEPT !.db = db, !.at = at, !.pc = pc] = Row(pc, db, at)
    <2> DEFINE r == [o EXCEPT !.db = db, !.at = at, !.pc = pc]
    <2>1. r \in R /\ r.pc = pc /\ r.db = db /\ r.at = at
      BY <1>2, <1>3
    <2> HIDE DEF r, Row, R
    <2>2. r = Row(pc, db, at)
      BY <1>4, <2>1
    <2> QED BY <2>2 DEF r
  <1> QED BY <1>2, <1>5, <1>6, <1>7

(* The next state of an operation is a state of one.                       *)
LEMMA NextWorking ==
  ASSUME NEW o, NEW b, NEW h, NEW se, NEW su, NEW la, Working(o, b, h, se, su, la),
         NEW db, NEW pc, NEW at, NEW o2,
         o2 = [kind |-> o.kind, interval |-> o.interval, pc |-> pc, db |-> db, at |-> at],
         Holds(db, h, se, su, la),
         DOMAIN db.attempts = DOMAIN o.db.attempts,
         \A a \in DOMAIN o.db.attempts : db.attempts[a].created = o.db.attempts[a].created,
         PendingAttempt(db) \subseteq PendingAttempt(o.db),
         pc = "create" => PendingAttempt(db) # {},
         pc = "expire" => at \in DOMAIN se /\ se[at].attempt \in PendingAttempt(db),
         o.kind = "finish" =>
           /\ pc \in {"lookup", "create", "expire", "cancelsub", "commit"}
           /\ pc \in {"cancelsub", "commit"} => PendingAttempt(db) = {}
           /\ pc = "commit" => AllEnded(su)
  PROVE  Working(o2, b, h, se, su, la)
  <1>1. o2.kind = o.kind /\ o2.interval = o.interval /\ o2.pc = pc /\ o2.db = db /\ o2.at = at
    OBVIOUS
  <1> QED BY <1>1 DEF Working

(* What is chosen from a set is in it.                                     *)
LEMMA TheElement ==
  ASSUME NEW A, A # {}
  PROVE  The(A) \in A
  BY DEF The

(* What a step of an operation that leaves the provider alone leads to.    *)
Worked ==
  /\ Working(op', billing, hour, sessions, subs, late)
  /\ UNCHANGED <<hour, phase, billing, providerVars, changes, failures, usage>>

(* An operation looks its checkout up.                                     *)
LEMMA LookupWorks ==
  ASSUME BillingInv, LookupCheckout
  PROVE  Worked
  <1> DEFINE a == The(PendingAttempt(op.db))
             found == SessionsOf(a)
             i == The(found)
             next == IF op.kind = "finish" THEN "cancelsub" ELSE "subscription"
  <1>1. /\ op # NoOp /\ op.pc = "lookup"
        /\ UNCHANGED <<hour, phase, billing, providerVars, changes, failures, usage>>
    BY DEF LookupCheckout
  <1>2. /\ Working(op, billing, hour, sessions, subs, late)
        /\ Holds(op.db, hour, sessions, subs, late)
        /\ ProviderOK(sessions, subs, late) /\ hour \in Nat
        /\ op = [kind |-> op.kind, interval |-> op.interval, pc |-> op.pc, db |-> op.db, at |-> op.at]
    BY <1>1 DEF BillingInv, Working
  <1>3. IF PendingAttempt(op.db) = {} THEN op' = [op EXCEPT !.pc = next]
        ELSE IF found # {}
        THEN /\ Bindable(op.db, sessions[i])
             /\ op' = [op EXCEPT !.db = bindCompletedCheckout(op.db, a, i, sessions[i]),
                                 !.at = i,
                                 !.pc = IF op.kind = "finish" /\ sessions[i].status = "open"
                                        THEN "expire" ELSE next]
        ELSE IF (IF op.kind = "finish" THEN CloseWithout(op.db.attempts[a]) ELSE GiveUp(op.db.attempts[a]))
        THEN op' = [op EXCEPT !.db.attempts[a].state = "expired", !.pc = next]
        ELSE op' = [op EXCEPT !.pc = IF op.kind = "finish" THEN "create" ELSE next]
    BY DEF LookupCheckout
  <1>4. PendingAttempt(op.db) # {} => a \in PendingAttempt(op.db)
    BY TheElement
  <1> HIDE DEF a
  <1>5. found # {} => i \in DOMAIN sessions /\ sessions[i].attempt = a
    <2>1. found # {} => i \in found
      BY TheElement
    <2> QED BY <2>1 DEF SessionsOf
  <1>6. CASE PendingAttempt(op.db) = {}
    <2>1. op' = [kind |-> op.kind, interval |-> op.interval, pc |-> next, db |-> op.db, at |-> op.at]
      <3> HIDE DEF next
      <3> QED BY <1>2, <1>3, <1>6, OpColumns
    <2>2. Working(op', billing, hour, sessions, subs, late)
      BY <1>2, <1>6, <2>1, NextWorking
    <2> QED BY <1>1, <2>2 DEF Worked
  <1>7. CASE PendingAttempt(op.db) # {} /\ found # {}
    <2> DEFINE db == bindCompletedCheckout(op.db, a, i, sessions[i])
               pc == IF op.kind = "finish" /\ sessions[i].status = "open" THEN "expire" ELSE next
    <2>1. i \in DOMAIN sessions /\ sessions[i].attempt = a /\ a \in PendingAttempt(op.db)
          /\ Bindable(op.db, sessions[i])
      BY <1>3, <1>4, <1>5, <1>7
    <2>2. op' = [op EXCEPT !.db = db, !.at = i, !.pc = pc]
      BY <1>3, <1>7
    <2> HIDE DEF i, found
    <2>3. /\ Holds(db, hour, sessions, subs, late)
          /\ DOMAIN db.attempts = DOMAIN op.db.attempts
          /\ \A b \in DOMAIN op.db.attempts : db.attempts[b].created = op.db.attempts[b].created
          /\ PendingAttempt(db) = IF sessions[i].status = "open" THEN PendingAttempt(op.db) ELSE {}
      BY <1>2, <2>1, BoundHolds
    <2> HIDE DEF db
    <2>4. op' = [kind |-> op.kind, interval |-> op.interval, pc |-> pc, db |-> db, at |-> i]
      <3> HIDE DEF pc
      <3> QED BY <1>2, <2>2, OpColumns
    <2>5. Working(op', billing, hour, sessions, subs, late)
      BY <1>2, <2>1, <2>3, <2>4, NextWorking
    <2> QED BY <1>1, <2>5 DEF Worked
  <1>8. CASE /\ PendingAttempt(op.db) # {} /\ found = {}
             /\ IF op.kind = "finish" THEN CloseWithout(op.db.attempts[a]) ELSE GiveUp(op.db.attempts[a])
    <2> DEFINE db == [op.db EXCEPT !.attempts[a].state = "expired"]
    <2>1. hour > op.db.attempts[a].created + CheckoutLife + Grace
      BY <1>8 DEF CloseWithout, GiveUp
    <2>2. \A j \in DOMAIN sessions : sessions[j].attempt # a
      BY <1>8 DEF SessionsOf
    <2>3. op' = [op EXCEPT !.db = db, !.pc = next]
      BY <1>2, <1>3, <1>8
    <2>4. /\ Holds(db, hour, sessions, subs, late)
          /\ DOMAIN db.attempts = DOMAIN op.db.attempts
          /\ \A b \in DOMAIN op.db.attempts : db.attempts[b].created = op.db.attempts[b].created
          /\ PendingAttempt(db) = {}
      BY <1>2, <1>4, <1>8, <2>1, <2>2, GivenUpHolds
    <2> HIDE DEF db
    <2>5. op' = [kind |-> op.kind, interval |-> op.interval, pc |-> next, db |-> db, at |-> op.at]
      <3> HIDE DEF next
      <3> QED BY <1>2, <2>3, OpColumns
    <2>6. Working(op', billing, hour, sessions, subs, late)
      BY <1>2, <2>4, <2>5, NextWorking
    <2> QED BY <1>1, <2>6 DEF Worked
  <1>9. CASE /\ PendingAttempt(op.db) # {} /\ found = {}
             /\ ~(IF op.kind = "finish" THEN CloseWithout(op.db.attempts[a]) ELSE GiveUp(op.db.attempts[a]))
    <2> DEFINE pc == IF op.kind = "finish" THEN "create" ELSE next
    <2>1. op' = [op EXCEPT !.pc = pc]
      BY <1>3, <1>9
    <2>2. op' = [kind |-> op.kind, interval |-> op.interval, pc |-> pc, db |-> op.db, at |-> op.at]
      <3> HIDE DEF pc
      <3> QED BY <1>2, <2>1, OpColumns
    <2>3. Working(op', billing, hour, sessions, subs, late)
      BY <1>2, <1>9, <2>2, NextWorking
    <2> QED BY <1>1, <2>3 DEF Worked
  <1> QED BY <1>6, <1>7, <1>8, <1>9

(* It reads the subscription its rows name.                                *)
LEMMA ReadWorks ==
  ASSUME BillingInv, ReadSubscription
  PROVE  Worked
  <1>1. /\ op # NoOp /\ op.pc = "subscription"
        /\ UNCHANGED <<hour, phase, billing, providerVars, changes, failures, usage>>
    BY DEF ReadSubscription
  <1>2. /\ Working(op, billing, hour, sessions, subs, late)
        /\ Holds(op.db, hour, sessions, subs, late)
        /\ op = [kind |-> op.kind, interval |-> op.interval, pc |-> op.pc, db |-> op.db, at |-> op.at]
        /\ op.kind # "finish"
    BY <1>1 DEF BillingInv, Working
  <1>3. CASE op.db.sub = 0
    <2>1. PICK pc \in {"commit", "checkout"} : op' = [op EXCEPT !.pc = pc]
      BY <1>3 DEF ReadSubscription
    <2>2. op' = [kind |-> op.kind, interval |-> op.interval, pc |-> pc, db |-> op.db, at |-> op.at]
      BY <1>2, <2>1, OpColumns
    <2>3. Working(op', billing, hour, sessions, subs, late)
      BY <1>2, <2>1, <2>2, NextWorking
    <2> QED BY <1>1, <2>3 DEF Worked
  <1>4. CASE op.db.sub # 0
    <2> DEFINE invoices == Merge(op.db.invoices, RereadInvoices(op.db))
               paid == paidUntil(op.db, invoices)
               st == subs[op.db.sub].status
               pc == IF op.kind = "reconcile" THEN "commit"
                     ELSE IF op.kind = "pass" /\ Subscribed([op.db EXCEPT !.status = subs[op.db.sub].status])
                     THEN "commit" ELSE "checkout"
               db == ReadRows(op.db, st, invoices, paid)
    <2>1. op' = [op EXCEPT !.db.status = st, !.db.invoices = invoices, !.db.paidUntil = paid, !.pc = pc]
      BY <1>4 DEF ReadSubscription
    <2>p. pc \in {"commit", "checkout"}
      OBVIOUS
    <2> HIDE DEF pc, invoices, paid
    <2>2. op' = [op EXCEPT !.db = db, !.pc = pc]
      BY <1>2, <2>1 DEF ReadRows
    <2>3. Holds(db, hour, sessions, subs, late) /\ db.attempts = op.db.attempts
      BY <1>2, <1>4, ReadHolds
    <2> HIDE DEF db
    <2>4. op' = [kind |-> op.kind, interval |-> op.interval, pc |-> pc, db |-> db, at |-> op.at]
      BY <1>2, <2>2, OpColumns
    <2>5. PendingAttempt(db) = PendingAttempt(op.db)
      BY <2>3 DEF PendingAttempt
    <2>6. Working(op', billing, hour, sessions, subs, late)
      BY <1>2, <2>p, <2>3, <2>4, <2>5, NextWorking
    <2> QED BY <1>1, <2>6 DEF Worked
  <1> QED BY <1>3, <1>4

(* It needs a checkout of the pending attempt: the open one, or a new one. *)
LEMMA NeedWorks ==
  ASSUME BillingInv, NeedCheckout
  PROVE  Worked
  <1> DEFINE a == The(PendingAttempt(op.db))
             found == SessionsOf(a)
             i == The(found)
             expire == sessions[i].status = "open" /\
                       (op.kind = "cancel" \/ op.db.attempts[a].interval # op.interval)
  <1>1. /\ op # NoOp /\ op.pc = "checkout"
        /\ UNCHANGED <<hour, phase, billing, providerVars, changes, failures, usage>>
    BY DEF NeedCheckout
  <1>2. /\ Working(op, billing, hour, sessions, subs, late)
        /\ Holds(op.db, hour, sessions, subs, late)
        /\ ProviderOK(sessions, subs, late) /\ op.kind # "finish"
        /\ op = [kind |-> op.kind, interval |-> op.interval, pc |-> op.pc, db |-> op.db, at |-> op.at]
    BY <1>1 DEF BillingInv, Working
  <1>3. IF PendingAttempt(op.db) = {} THEN op' = [op EXCEPT !.pc = "commit"]
        ELSE IF found = {} THEN op' = [op EXCEPT !.pc = "create"]
        ELSE /\ Bindable(op.db, sessions[i])
             /\ op' = [op EXCEPT !.db = bindCompletedCheckout(op.db, a, i, sessions[i]), !.at = i,
                                 !.pc = IF expire THEN "expire" ELSE "commit"]
    BY DEF NeedCheckout
  <1>4. PendingAttempt(op.db) # {} => a \in PendingAttempt(op.db)
    BY TheElement
  <1> HIDE DEF a
  <1>5. found # {} => i \in DOMAIN sessions /\ sessions[i].attempt = a
    <2>1. found # {} => i \in found
      BY TheElement
    <2> QED BY <2>1 DEF SessionsOf
  <1>6. CASE PendingAttempt(op.db) = {} \/ found = {}
    <2>1. PICK pc \in {"commit", "create"} :
            /\ op' = [op EXCEPT !.pc = pc]
            /\ pc = "create" => PendingAttempt(op.db) # {}
      BY <1>3, <1>6
    <2>2. op' = [kind |-> op.kind, interval |-> op.interval, pc |-> pc, db |-> op.db, at |-> op.at]
      BY <1>2, <2>1, OpColumns
    <2>3. Working(op', billing, hour, sessions, subs, late)
      BY <1>2, <2>1, <2>2, NextWorking
    <2> QED BY <1>1, <2>3 DEF Worked
  <1>7. CASE PendingAttempt(op.db) # {} /\ found # {}
    <2> DEFINE db == bindCompletedCheckout(op.db, a, i, sessions[i])
               pc == IF expire THEN "expire" ELSE "commit"
    <2>1. /\ i \in DOMAIN sessions /\ sessions[i].attempt = a /\ a \in PendingAttempt(op.db)
          /\ Bindable(op.db, sessions[i])
      BY <1>3, <1>4, <1>5, <1>7
    <2>2. op' = [op EXCEPT !.db = db, !.at = i, !.pc = pc]
      BY <1>3, <1>7
    <2>p. pc \in {"expire", "commit"} /\ (pc = "expire" => sessions[i].status = "open")
      OBVIOUS
    <2> HIDE DEF i, found, pc
    <2>3. /\ Holds(db, hour, sessions, subs, late)
          /\ DOMAIN db.attempts = DOMAIN op.db.attempts
          /\ \A b \in DOMAIN op.db.attempts : db.attempts[b].created = op.db.attempts[b].created
          /\ PendingAttempt(db) = IF sessions[i].status = "open" THEN PendingAttempt(op.db) ELSE {}
      BY <1>2, <2>1, BoundHolds
    <2> HIDE DEF db
    <2>4. op' = [kind |-> op.kind, interval |-> op.interval, pc |-> pc, db |-> db, at |-> i]
      BY <1>2, <2>2, OpColumns
    <2>5. Working(op', billing, hour, sessions, subs, late)
      BY <1>2, <2>1, <2>p, <2>3, <2>4, NextWorking
    <2> QED BY <1>1, <2>5 DEF Worked
  <1> QED BY <1>6, <1>7

-----------------------------------------------------------------------------

(* A sequence without elements is the empty one.                           *)
LEMMA EmptySequence ==
  ASSUME NEW S, NEW s \in Seq(S)
  PROVE  DOMAIN s = {} <=> s = <<>>
  OBVIOUS

(* Nothing but a delivery is charged, and a subscription is never          *)
(* forgotten.                                                              *)
LEMMA AllowanceStays ==
  ASSUME BillingInv, UNCHANGED usage, subs' \in Seq(Subscription),
         DOMAIN subs' = {} => DOMAIN subs = {}
  PROVE  AllowanceOK'
  <1>1. subs' = <<>> => subs = <<>>
    BY EmptySequence DEF BillingInv, ProviderOK
  <1> QED BY <1>1 DEF BillingInv, AllowanceOK, AllowanceHeld, Charged, Total

(* A step of the provider keeps the invariant.                             *)
LEMMA ProviderKeeps ==
  ASSUME BillingInv, Moved, UNCHANGED <<phase, billing, op, usage>>
  PROVE  BillingInv'
  <1>1. /\ hour' \in Nat /\ ProviderOK(sessions', subs', late')
        /\ phase' # "gone" => Holds(billing', hour', sessions', subs', late')
        /\ phase' = "gone" => Closed(hour', sessions', subs', late')
        /\ DOMAIN subs' = {} => billing'.paidUntil = 0
    BY DEF BillingInv, Moved
  <1>2. ASSUME op # NoOp
        PROVE  phase # "gone" /\ Working(op, billing, hour', sessions', subs', late')
    <2>1. phase # "gone" /\ Working(op, billing, hour, sessions, subs, late)
      BY <1>2 DEF BillingInv
    <2>2. Holds(op.db, hour, sessions, subs, late)
      BY <2>1 DEF Working
    <2>3. /\ Holds(op.db, hour', sessions', subs', late')
          /\ \A i \in DOMAIN sessions : i \in DOMAIN sessions' /\ sessions'[i].attempt = sessions[i].attempt
          /\ PendingAttempt(op.db) = {} /\ AllEnded(subs) => AllEnded(subs')
      BY <2>2 DEF Moved
    <2> DEFINE o == op
               h2 == hour'
               se2 == sessions'
               su2 == subs'
               la2 == late'
    <2>4. /\ Working(o, billing, hour, sessions, subs, late)
          /\ Holds(o.db, h2, se2, su2, la2)
          /\ \A i \in DOMAIN sessions : i \in DOMAIN se2 /\ se2[i].attempt = sessions[i].attempt
          /\ PendingAttempt(o.db) = {} /\ AllEnded(subs) => AllEnded(su2)
      BY <2>1, <2>3
    <2> HIDE DEF o, h2, se2, su2, la2
    <2>5. Working(o, billing, h2, se2, su2, la2)
      BY <2>4, OperationHolds
    <2> QED BY <2>1, <2>5 DEF o, h2, se2, su2, la2
  <1>3. AllowanceOK'
    BY AllowanceStays DEF Moved, ProviderOK
  <1> QED BY <1>1, <1>2, <1>3 DEF BillingInv

(* So does a step of an operation that leaves the provider alone.          *)
LEMMA WorkKeeps ==
  ASSUME BillingInv, Worked, phase # "gone"
  PROVE  BillingInv'
  <1>1. AllowanceOK'
    BY AllowanceStays DEF Worked, providerVars, BillingInv, ProviderOK
  <1>2. hour' = hour /\ phase' = phase /\ billing' = billing /\ sessions' = sessions /\ subs' = subs /\ late' = late
    BY DEF Worked, providerVars
  <1> QED BY <1>1, <1>2 DEF Worked, BillingInv

(* Creating a checkout, or leaving the request on its way.                 *)
LEMMA CreateKeeps ==
  ASSUME BillingInv, CreateCheckout
  PROVE  BillingInv'
  <1> DEFINE a == The(PendingAttempt(op.db))
             t == op.db.attempts[a]
  <1>1. /\ op # NoOp /\ op.pc = "create"
        /\ UNCHANGED <<hour, phase, billing, subs, changes, usage>>
    BY DEF CreateCheckout
  <1>2. /\ Working(op, billing, hour, sessions, subs, late)
        /\ Holds(op.db, hour, sessions, subs, late)
        /\ ProviderOK(sessions, subs, late) /\ hour \in Nat /\ phase # "gone"
        /\ Holds(billing, hour, sessions, subs, late)
        /\ op = [kind |-> op.kind, interval |-> op.interval, pc |-> op.pc, db |-> op.db, at |-> op.at]
    BY <1>1 DEF BillingInv, Working
  <1>3. a \in PendingAttempt(op.db) /\ a \in PendingAttempt(billing)
    BY <1>1, <1>2, TheElement DEF Working
  <1>4. /\ t \in Attempt /\ a \in Nat /\ CheckoutLife \in Nat
        /\ t.created = billing.attempts[a].created
    <2>1. op.db.attempts \in Seq(Attempt) /\ a \in DOMAIN op.db.attempts /\ a \in DOMAIN billing.attempts
      BY <1>2, <1>3 DEF Holds, BillingRow, PendingAttempt
    <2>2. t.created = billing.attempts[a].created
      BY <1>2, <2>1 DEF Working
    <2> HIDE DEF a
    <2> QED BY <2>1, <2>2, BillingTimes
  <1>5. AllowanceOK'
    BY <1>1, <1>2, AllowanceStays DEF ProviderOK
  <1>6. ASSUME Create(a, t.interval, t.created + CheckoutLife), late' = late,
               op' = [op EXCEPT !.pc = IF op.kind = "finish" THEN "lookup" ELSE "checkout"]
        PROVE  BillingInv'
    <2>1. t.interval \in Intervals /\ t.created + CheckoutLife \in Nat
      BY <1>4 DEF Attempt
    <2> DEFINE v == t.interval
               e == t.created + CheckoutLife
    <2>2. Create(a, v, e) /\ v \in Intervals /\ e \in Nat
      BY <1>6, <2>1
    <2> HIDE DEF v, e, a
    <2>3. /\ ProviderOK(sessions', subs', late')
          /\ \A i \in DOMAIN sessions : i \in DOMAIN sessions' /\ sessions'[i].attempt = sessions[i].attempt
          /\ \A db : Holds(db, hour, sessions, subs, late)
                     /\ (SessionsOf(a) = {} /\ hour < e => a \in PendingAttempt(db))
                     => Holds(db, hour', sessions', subs', late')
      BY <1>1, <1>4, <1>6, <2>2, CheckoutCreated
    <2>4. /\ Holds(billing, hour, sessions', subs, late)
          /\ Holds(op.db, hour, sessions', subs, late)
      BY <1>1, <1>2, <1>3, <1>6, <2>3
    <2> DEFINE o == op
               se2 == sessions'
               pc == IF op.kind = "finish" THEN "lookup" ELSE "checkout"
    <2>5. /\ Working(o, billing, hour, sessions, subs, late)
          /\ Holds(o.db, hour, se2, subs, late)
          /\ \A i \in DOMAIN sessions : i \in DOMAIN se2 /\ se2[i].attempt = sessions[i].attempt
      BY <1>2, <2>3, <2>4
    <2>6. op' = [kind |-> op.kind, interval |-> op.interval, pc |-> pc, db |-> op.db, at |-> op.at]
      <3>1. op' = [op EXCEPT !.pc = pc]
        BY <1>6
      <3> HIDE DEF pc
      <3> QED BY <1>2, <3>1, OpColumns
    <2> HIDE DEF se2
    <2>7. Working(o, billing, hour, se2, subs, late)
      BY <2>5, OperationHolds
    <2>8. Working(op', billing, hour, se2, subs, late)
      BY <2>5, <2>6, <2>7, NextWorking
    <2> QED BY <1>1, <1>2, <1>5, <1>6, <2>3, <2>4, <2>8 DEF BillingInv, se2
  <1>7. ASSUME late' = late \union {[attempt |-> a, interval |-> t.interval, expires |-> t.created + CheckoutLife]},
               op' = NoOp, sessions' = sessions
        PROVE  BillingInv'
    <2> DEFINE r == [attempt |-> a, interval |-> t.interval, expires |-> t.created + CheckoutLife]
               la2 == late'
    <2>1. r \in LateRequest
      BY <1>4 DEF LateRequest, Attempt
    <2>2. ProviderOK(sessions', subs', late')
      BY <1>1, <1>2, <1>7, <2>1 DEF ProviderOK
    <2>3. \A q \in la2 : \/ q \in late
                         \/ /\ q.attempt \in PendingAttempt(billing)
                            /\ q.expires = billing.attempts[q.attempt].created + CheckoutLife
      BY <1>3, <1>4, <1>7
    <2>4. \A i \in DOMAIN sessions :
            \/ sessions[i].attempt \in PendingAttempt(billing)
            \/ sessions[i].status # "open"
      BY <1>2 DEF Holds
    <2> HIDE DEF la2
    <2>5. Holds(billing, hour, sessions, subs, la2)
      BY <1>2, <2>3, <2>4, RowsHold
    <2> QED BY <1>1, <1>2, <1>5, <1>7, <2>2, <2>5 DEF BillingInv, la2
  <1>8. \/ /\ Create(a, t.interval, t.created + CheckoutLife) /\ late' = late
           /\ op' = [op EXCEPT !.pc = IF op.kind = "finish" THEN "lookup" ELSE "checkout"]
        \/ /\ late' = late \union {[attempt |-> a, interval |-> t.interval,
                                    expires |-> t.created + CheckoutLife]}
           /\ op' = NoOp /\ sessions' = sessions
    BY DEF CreateCheckout
  <1> QED BY <1>6, <1>7, <1>8

(* Ending the open checkout of the pending attempt.                        *)
LEMMA ExpireKeeps ==
  ASSUME BillingInv, ExpireCheckout
  PROVE  BillingInv'
  <1> DEFINE i == op.at
             se2 == sessions'
             pc == IF op.kind = "finish" THEN "cancelsub" ELSE "commit"
             db == bindCompletedCheckout(op.db, sessions[i].attempt, i, se2[i])
  <1>1. /\ op # NoOp /\ op.pc = "expire" /\ sessions[i].status # "complete"
        /\ sessions' = [sessions EXCEPT ![i].status = "expired"]
        /\ op' = [op EXCEPT !.db = db, !.pc = pc]
        /\ UNCHANGED <<hour, phase, billing, subs, late, changes, failures, usage>>
    BY DEF ExpireCheckout
  <1>2. /\ Working(op, billing, hour, sessions, subs, late)
        /\ Holds(op.db, hour, sessions, subs, late)
        /\ ProviderOK(sessions, subs, late) /\ hour \in Nat /\ phase # "gone"
        /\ Holds(billing, hour, sessions, subs, late)
        /\ op = [kind |-> op.kind, interval |-> op.interval, pc |-> op.pc, db |-> op.db, at |-> op.at]
        /\ i \in DOMAIN sessions /\ sessions[i].attempt \in PendingAttempt(op.db)
    BY <1>1 DEF BillingInv, Working
  <1>3. Moved
    BY <1>1, <1>2, CheckoutEnds
  <1>4. /\ ProviderOK(se2, subs, late)
        /\ Holds(billing, hour, se2, subs, late) /\ Holds(op.db, hour, se2, subs, late)
        /\ i \in DOMAIN se2 /\ se2[i].attempt = sessions[i].attempt
        /\ \A j \in DOMAIN sessions : j \in DOMAIN se2 /\ se2[j].attempt = sessions[j].attempt
    BY <1>1, <1>2, <1>3 DEF Moved
  <1>5. se2[i].status = "expired"
    <2>1. sessions \in Seq(CheckoutRow) /\ sessions[i] \in CheckoutRow
      BY <1>2 DEF ProviderOK
    <2> QED BY <1>1, <1>2, <2>1 DEF CheckoutRow
  <1>6. AllowanceOK'
    BY <1>1, <1>2, AllowanceStays DEF ProviderOK
  <1> DEFINE o == op
  <1>7. /\ Working(o, billing, hour, sessions, subs, late) /\ Holds(o.db, hour, se2, subs, late)
        /\ db = bindCompletedCheckout(o.db, se2[i].attempt, i, se2[i])
        /\ se2[i].attempt \in PendingAttempt(o.db)
    BY <1>2, <1>4
  <1> HIDE DEF se2, db, i
  <1>8. Working(o, billing, hour, se2, subs, late)
    BY <1>4, <1>7, OperationHolds
  <1>9. /\ Holds(db, hour, se2, subs, late)
        /\ DOMAIN db.attempts = DOMAIN o.db.attempts
        /\ \A b \in DOMAIN o.db.attempts : db.attempts[b].created = o.db.attempts[b].created
        /\ PendingAttempt(db) = {}
    <2>1. Bindable(o.db, se2[i])
      BY <1>5 DEF Bindable
    <2> QED BY <1>4, <1>5, <1>7, <2>1, BoundHolds
  <1>10. op' = [kind |-> op.kind, interval |-> op.interval, pc |-> pc, db |-> db, at |-> op.at]
    <2> HIDE DEF pc
    <2> QED BY <1>1, <1>2, OpColumns
  <1>11. Working(op', billing, hour, se2, subs, late)
    BY <1>8, <1>9, <1>10, NextWorking
  <1> QED BY <1>1, <1>2, <1>4, <1>6, <1>11 DEF BillingInv, se2

(* The last call of a deletion ends the subscription, and nothing that     *)
(* could be paid is left.                                                  *)
LEMMA CancelKeeps ==
  ASSUME BillingInv, CancelSubscription
  PROVE  BillingInv'
  <1> DEFINE k == op.db.sub
             su2 == subs'
  <1>1. /\ op # NoOp /\ op.pc = "cancelsub" /\ op' = [op EXCEPT !.pc = "commit"]
        /\ subs' = IF k = 0 THEN subs ELSE [subs EXCEPT ![k].status = "canceled"]
        /\ UNCHANGED <<hour, phase, billing, sessions, late, changes, failures, usage>>
    BY DEF CancelSubscription
  <1>2. /\ Working(op, billing, hour, sessions, subs, late)
        /\ Holds(op.db, hour, sessions, subs, late)
        /\ ProviderOK(sessions, subs, late) /\ hour \in Nat /\ phase # "gone"
        /\ Holds(billing, hour, sessions, subs, late)
        /\ op = [kind |-> op.kind, interval |-> op.interval, pc |-> op.pc, db |-> op.db, at |-> op.at]
        /\ k # 0 => k \in DOMAIN subs
    BY <1>1 DEF BillingInv, Working, Holds
  <1>3. /\ ProviderOK(sessions, su2, late) /\ Holds(billing, hour, sessions, su2, late)
        /\ Holds(op.db, hour, sessions, su2, late)
        /\ AllEnded(subs) => AllEnded(su2)
        /\ DOMAIN su2 = {} => DOMAIN subs = {}
        /\ \A n \in DOMAIN su2 : n \in DOMAIN subs /\ (n # k => su2[n] = subs[n])
        /\ k # 0 => su2[k].status = "canceled"
    <2>1. CASE k = 0
      BY <1>1, <1>2, <2>1
    <2>2. CASE k # 0
      <3> DEFINE row == [subs[k] EXCEPT !.status = "canceled"]
      <3>1. subs \in Seq(Subscription) /\ subs[k] \in Subscription
        BY <1>2, <2>2 DEF ProviderOK
      <3>2. row \in Subscription /\ row.status = "canceled"
        BY <3>1 DEF Subscription
      <3>3. subs' = [subs EXCEPT ![k] = row]
        BY <1>1, <2>2, <3>1
      <3> HIDE DEF row
      <3>4. Moved
        BY <1>1, <1>2, <2>2, <3>2, <3>3, SubscriptionChanges DEF Ended
      <3>5. /\ DOMAIN su2 = DOMAIN subs /\ su2[k] = row
            /\ \A n \in DOMAIN subs : n # k => su2[n] = subs[n]
        BY <1>2, <2>2, <3>1, <3>3
      <3>6. AllEnded(subs) => AllEnded(su2)
        BY <3>2, <3>5 DEF AllEnded, Ended
      <3> QED BY <1>1, <1>2, <3>2, <3>4, <3>5, <3>6 DEF Moved
    <2> QED BY <2>1, <2>2
  <1>4. AllowanceOK'
    BY <1>1, <1>3, AllowanceStays DEF ProviderOK
  <1>5. PendingAttempt(op.db) = {} => AllEnded(su2)
    <2> SUFFICES ASSUME PendingAttempt(op.db) = {}, NEW n \in DOMAIN su2
                 PROVE  su2[n].status \in Ended
      BY DEF AllEnded
    <2>1. CASE n = k
      <3>1. n \in DOMAIN subs /\ subs \in Seq(Subscription)
        BY <1>2, <1>3 DEF ProviderOK
      <3>2. n # 0
        BY <3>1
      <3> QED BY <1>3, <2>1, <3>2 DEF Ended
    <2>2. CASE n # k
      <3>1. PICK j \in DOMAIN sessions : sessions[j].status = "complete" /\ sessions[j].sub = n
        BY <1>3 DEF ProviderOK
      <3> QED BY <1>3, <2>2, <3>1 DEF Holds
    <2> QED BY <2>1, <2>2
  <1> DEFINE o == op
  <1>6. /\ Working(o, billing, hour, sessions, subs, late) /\ Holds(o.db, hour, sessions, su2, late)
        /\ \A i \in DOMAIN sessions : i \in DOMAIN sessions /\ sessions[i].attempt = sessions[i].attempt
        /\ PendingAttempt(o.db) = {} /\ AllEnded(subs) => AllEnded(su2)
        /\ o.kind = "finish" => PendingAttempt(o.db) = {}
    BY <1>1, <1>2, <1>3 DEF Working
  <1> HIDE DEF su2
  <1>7. Working(o, billing, hour, sessions, su2, late)
    BY <1>6, OperationHolds
  <1>8. op' = [kind |-> op.kind, interval |-> op.interval, pc |-> "commit", db |-> op.db, at |-> op.at]
    BY <1>1, <1>2, OpColumns
  <1>9. Working(op', billing, hour, sessions, su2, late)
    BY <1>5, <1>6, <1>7, <1>8, NextWorking
  <1> QED BY <1>1, <1>2, <1>3, <1>4, <1>9 DEF BillingInv, su2

(* A commit: of the operation's rows, or of the workspace's end.           *)
LEMMA CommitKeeps ==
  ASSUME BillingInv, CommitOp
  PROVE  BillingInv'
  <1>1. /\ op # NoOp /\ op.pc = "commit" /\ op' = NoOp
        /\ billing' = IF op.kind = "finish" THEN NoBilling ELSE op.db
        /\ phase' = IF op.kind = "finish" THEN "gone" ELSE phase
        /\ UNCHANGED <<hour, sessions, subs, late, usage>>
    BY DEF CommitOp, providerVars
  <1>2. /\ Working(op, billing, hour, sessions, subs, late)
        /\ Holds(op.db, hour, sessions, subs, late)
        /\ ProviderOK(sessions, subs, late) /\ hour \in Nat /\ phase # "gone"
    BY <1>1 DEF BillingInv, Working
  <1>3. AllowanceOK'
    BY <1>1, <1>2, AllowanceStays DEF ProviderOK
  <1>4. CASE op.kind = "finish"
    <2>1. PendingAttempt(op.db) = {} /\ AllEnded(subs)
      BY <1>1, <1>2, <1>4 DEF Working
    <2>2. \A i \in DOMAIN sessions : sessions[i].status # "open"
      BY <1>2, <2>1 DEF Holds
    <2>3. \A r \in late : hour >= r.expires \/ \E i \in DOMAIN sessions : sessions[i].attempt = r.attempt
      BY <1>2, <2>1 DEF Holds
    <2>4. Closed(hour, sessions, subs, late)
      BY <2>1, <2>2, <2>3 DEF Closed
    <2>5. NoBilling.paidUntil = 0
      BY DEF NoBilling
    <2> QED BY <1>1, <1>2, <1>3, <1>4, <2>4, <2>5 DEF BillingInv
  <1>5. CASE op.kind # "finish"
    <2>1. DOMAIN subs = {} => op.db.paidUntil = 0
      BY <1>2 DEF Holds
    <2> QED BY <1>1, <1>2, <1>3, <1>5, <2>1 DEF BillingInv
  <1> QED BY <1>4, <1>5

(* An operation fails, or begins.                                          *)
LEMMA AbortKeeps ==
  ASSUME BillingInv, AbortOp
  PROVE  BillingInv'
  <1>1. op' = NoOp /\ UNCHANGED <<hour, phase, billing, sessions, subs, late, usage>>
    BY DEF AbortOp, providerVars
  <1>2. AllowanceOK'
    BY <1>1, AllowanceStays DEF BillingInv, ProviderOK
  <1> QED BY <1>1, <1>2 DEF BillingInv

(* A deletion is requested.                                                *)
LEMMA DeletionKeeps ==
  ASSUME BillingInv, RequestDeletion
  PROVE  BillingInv'
  <1>1. /\ phase = "open" /\ phase' = "closing" /\ op = NoOp
        /\ UNCHANGED <<hour, billing, op, sessions, subs, late, usage>>
    BY DEF RequestDeletion, providerVars
  <1>2. AllowanceOK'
    BY <1>1, AllowanceStays DEF BillingInv, ProviderOK
  <1> QED BY <1>1, <1>2 DEF BillingInv

(* An operation begins with the committed rows.                            *)
LEMMA BeginKeeps ==
  ASSUME BillingInv, NEW kind \in {"pass", "cancel", "reconcile", "finish"}, NEW v, BeginOp(kind, v)
  PROVE  BillingInv'
  <1> DEFINE o == [kind |-> kind, interval |-> v, pc |-> "lookup", db |-> billing, at |-> 0]
  <1>1. /\ op' = o /\ phase # "gone"
        /\ UNCHANGED <<hour, phase, billing, sessions, subs, late, usage>>
    BY DEF BeginOp, providerVars
  <1>2. AllowanceOK'
    BY <1>1, AllowanceStays DEF BillingInv, ProviderOK
  <1>3. Holds(billing, hour, sessions, subs, late)
    BY <1>1 DEF BillingInv
  <1>4. o.kind = kind /\ o.interval = v /\ o.pc = "lookup" /\ o.db = billing /\ o.at = 0
    OBVIOUS
  <1>5. Working(o, billing, hour, sessions, subs, late)
    BY <1>3, <1>4 DEF Working
  <1> HIDE DEF o
  <1> QED BY <1>1, <1>2, <1>3, <1>5 DEF BillingInv

(* A selection is recorded only when nothing is pending or subscribed.     *)
LEMMA PrepareKeeps ==
  ASSUME BillingInv, NEW v \in Intervals, prepareCheckout(v)
  PROVE  BillingInv'
  <1> DEFINE old == billing.attempts
             more == PendingAttempt(billing) = {} /\ ~Subscribed(billing) /\ Len(old) < MaxAttempts
             row == [interval |-> v, created |-> hour, session |-> 0, state |-> "pending"]
             at == IF more THEN Append(old, row) ELSE old
             n == Len(old) + 1
             db == [customer |-> TRUE, sub |-> billing.sub, status |-> billing.status, attempts |-> at,
                    invoices |-> billing.invoices, paidUntil |-> billing.paidUntil]
  <1>1. /\ op = NoOp /\ phase = "open" /\ UNCHANGED <<hour, phase, op, sessions, subs, late, usage>>
        /\ billing' = [billing EXCEPT !.customer = TRUE, !.attempts = at]
    BY DEF prepareCheckout, providerVars
  <1>2. /\ Holds(billing, hour, sessions, subs, late) /\ hour \in Nat
        /\ ProviderOK(sessions, subs, late)
        /\ BillingRow(billing) /\ old \in Seq(Attempt) /\ DOMAIN old = 1..Len(old) /\ Len(old) \in Nat
    BY <1>1 DEF BillingInv, Holds, BillingRow
  <1>3. row \in Attempt /\ row.state = "pending" /\ row.created = hour
    BY <1>2 DEF Attempt
  <1>4. billing' = db
    <2> HIDE DEF at
    <2>1. PICK c, k, s, a, y, p :
            billing = [customer |-> c, sub |-> k, status |-> s, attempts |-> a, invoices |-> y, paidUntil |-> p]
      BY <1>2 DEF BillingRow
    <2> DEFINE R == [customer : {c, TRUE}, sub : {k}, status : {s}, attempts : {a, at}, invoices : {y}, paidUntil : {p}]
               new == [billing EXCEPT !.customer = TRUE, !.attempts = at]
    <2>2. billing \in R
      BY <2>1
    <2>3. new \in R /\ new.customer = TRUE /\ new.attempts = at
      BY <2>2
    <2> HIDE DEF new
    <2>4. new = [customer |-> new.customer, sub |-> new.sub, status |-> new.status,
                 attempts |-> new.attempts, invoices |-> new.invoices, paidUntil |-> new.paidUntil]
          /\ new.sub = k /\ new.status = s /\ new.invoices = y /\ new.paidUntil = p
      BY <2>3
    <2>5. billing.sub = k /\ billing.status = s /\ billing.invoices = y /\ billing.paidUntil = p
      BY <2>1
    <2>6. new = db
      BY <2>3, <2>4, <2>5
    <2> QED BY <1>1, <2>6 DEF new
  <1> HIDE DEF row
  <1>5. /\ at \in Seq(Attempt) /\ DOMAIN old \subseteq DOMAIN at /\ DOMAIN at \subseteq DOMAIN old \cup {n}
        /\ \A a \in DOMAIN old : at[a] = old[a]
        /\ ~more => at = old
        /\ more => at[n] = row
    BY <1>2, <1>3
  <1>n. n \notin DOMAIN old
    BY <1>2
  <1> HIDE DEF at, n
  <1>6. /\ BillingRow(db) /\ db.attempts = at /\ db.sub = billing.sub /\ db.status = billing.status
        /\ db.paidUntil = billing.paidUntil
    BY <1>2, <1>5 DEF BillingRow
  <1> HIDE DEF db
  <1>7. /\ Subscribed(db) <=> Subscribed(billing)
        /\ \A a \in DOMAIN old : a \in PendingAttempt(db) <=> a \in PendingAttempt(billing)
        /\ ~more => PendingAttempt(db) = PendingAttempt(billing)
        /\ PendingAttempt(db) \subseteq PendingAttempt(billing) \cup {n}
    BY <1>5, <1>6 DEF Subscribed, PendingAttempt
  <1>8. Holds(db, hour, sessions, subs, late)
    <2>1. \A i \in DOMAIN sessions :
            /\ sessions[i].attempt \in DOMAIN db.attempts
            /\ sessions[i].status = "open" => sessions[i].attempt \in PendingAttempt(db)
            /\ sessions[i].status = "complete" /\ subs[sessions[i].sub].status \notin Ended =>
                 sessions[i].attempt \in PendingAttempt(db) \/ (Subscribed(db) /\ db.sub = sessions[i].sub)
      BY <1>2, <1>5, <1>6, <1>7 DEF Holds
    <2>2. \A a \in DOMAIN db.attempts : a \notin PendingAttempt(db) =>
            \/ hour >= db.attempts[a].created + CheckoutLife
            \/ \E i \in DOMAIN sessions : sessions[i].attempt = a
      <3> TAKE a \in DOMAIN db.attempts
      <3>1. CASE a \in DOMAIN old
        BY <1>2, <1>5, <1>6, <1>7, <3>1 DEF Holds
      <3>2. CASE a \notin DOMAIN old
        <4>1. a = n /\ at[n] = row
          BY <1>5, <1>6, <3>2
        <4> QED BY <1>3, <1>6, <4>1 DEF PendingAttempt
      <3> QED BY <3>1, <3>2
    <2>3. /\ \A a, b \in PendingAttempt(db) : a = b
          /\ Subscribed(db) => PendingAttempt(db) = {}
      BY <1>2, <1>7 DEF Holds
    <2>4. /\ db.sub # 0 => db.sub \in DOMAIN subs /\ (db.status \in Ended => subs[db.sub].status \in Ended)
          /\ \A r \in late : /\ r.attempt \in DOMAIN db.attempts
                             /\ r.expires = db.attempts[r.attempt].created + CheckoutLife
          /\ DOMAIN subs = {} => db.paidUntil = 0
      BY <1>2, <1>5, <1>6 DEF Holds
    <2> QED BY <1>6, <2>1, <2>2, <2>3, <2>4 DEF Holds
  <1>9. AllowanceOK'
    BY <1>1, <1>2, AllowanceStays DEF ProviderOK
  <1>10. DOMAIN subs = {} => billing'.paidUntil = 0
    BY <1>2, <1>4, <1>6 DEF Holds
  <1> QED BY <1>1, <1>2, <1>4, <1>8, <1>9, <1>10 DEF BillingInv

(* A delivery adds one to what was charged, and to the current month.      *)
LEMMA DeliveryKeeps ==
  ASSUME BillingInv, consumeHostedDelivery
  PROVE  BillingInv'
  <1>1. /\ phase = "open" /\ Allowed /\ usage' = [usage EXCEPT ![Month] = @ + 1]
        /\ UNCHANGED <<hour, phase, billing, op, sessions, subs, late>>
    BY DEF consumeHostedDelivery, providerVars
  <1>2. /\ usage \in [DOMAIN usage -> Nat] /\ IsFiniteSet(Charged) /\ AllowanceHeld
        /\ Total \in Nat /\ hour \in Nat /\ DeliveryLimit \in Nat /\ TrialLimit \in Nat
    BY FS_CardinalityType, BillingTimes DEF BillingInv, AllowanceOK, Total
  <1>3. AllowanceOK'
    <2>1. CASE Month \notin DOMAIN usage
      <3>1. usage' = usage
        BY <1>1, <1>2, <2>1
      <3> QED BY <1>1, <3>1, AllowanceStays DEF BillingInv, ProviderOK
    <2>2. CASE Month \in DOMAIN usage
      <3> DEFINE m0 == Month
                 u == usage[m0]
                 x == <<m0, u + 1>>
      <3>1. u \in Nat
        BY <1>2, <2>2
      <3>2. /\ DOMAIN usage' = DOMAIN usage /\ usage' \in [DOMAIN usage -> Nat]
            /\ usage'[m0] = u + 1 /\ \A m \in DOMAIN usage : m # m0 => usage'[m] = usage[m]
        BY <1>1, <1>2, <2>2, <3>1
      <3>3. Charged' = Charged \cup {x} /\ x \notin Charged
        <4>1. ASSUME NEW y
              PROVE  y \in Charged' <=> y \in Charged \cup {x}
          <5>1. y \in Charged' <=> \E m \in DOMAIN usage, k \in Nat : y = <<m, k>> /\ 1 <= k /\ k <= usage'[m]
            BY <3>2 DEF Charged
          <5>2. y \in Charged <=> \E m \in DOMAIN usage, k \in Nat : y = <<m, k>> /\ 1 <= k /\ k <= usage[m]
            BY <1>2 DEF Charged
          <5>3. \A k \in Nat : 1 <= k /\ k <= u + 1 <=> (1 <= k /\ k <= u) \/ k = u + 1
            BY <3>1
          <5>4. m0 \in DOMAIN usage /\ usage[m0] = u /\ x = <<m0, u + 1>> /\ u + 1 \in Nat
            BY <2>2, <3>1
          <5> HIDE DEF m0, u, x
          <5>5. ASSUME y \in Charged'
                PROVE  y \in Charged \cup {x}
            <6>1. PICK m \in DOMAIN usage, k \in Nat : y = <<m, k>> /\ 1 <= k /\ k <= usage'[m]
              BY <5>1, <5>5
            <6>2. CASE m # m0
              BY <3>2, <5>2, <6>1, <6>2
            <6>3. CASE m = m0
              BY <3>1, <3>2, <5>2, <5>3, <5>4, <6>1, <6>3
            <6> QED BY <6>2, <6>3
          <5>6. ASSUME y \in Charged
                PROVE  y \in Charged'
            <6>1. PICK m \in DOMAIN usage, k \in Nat : y = <<m, k>> /\ 1 <= k /\ k <= usage[m]
              BY <5>2, <5>6
            <6>2. CASE m # m0
              BY <3>2, <5>1, <6>1, <6>2
            <6>3. CASE m = m0
              BY <3>1, <3>2, <5>1, <5>3, <5>4, <6>1, <6>3
            <6> QED BY <6>2, <6>3
          <5>7. x \in Charged'
            <6>1. \E m \in DOMAIN usage, k \in Nat : x = <<m, k>> /\ 1 <= k /\ k <= usage'[m]
              BY <3>1, <3>2, <5>4
            <6> QED BY <3>2, <6>1 DEF Charged
          <5> QED BY <5>5, <5>6, <5>7
        <4>2. x \notin Charged
          BY <1>2, <3>1 DEF Charged
        <4> QED BY <4>1, <4>2
      <3>4. IsFiniteSet(Charged') /\ Total' = Total + 1
        <4>1. IsFiniteSet(Charged \cup {x}) /\ Cardinality(Charged \cup {x}) = Cardinality(Charged) + 1
          BY <1>2, <3>3, FS_AddElement
        <4> QED BY <3>3, <4>1 DEF Total
      <3>5. u <= Total
        <4> DEFINE I == 1..u
                   J == {<<m0, k>> : k \in I}
                   f == [k \in I |-> <<m0, k>>]
        <4>1. IsFiniteSet(I) /\ Cardinality(I) = u
          BY <3>1, FS_Interval
        <4>2. J \subseteq Charged
          BY <1>2, <2>2 DEF Charged
        <4>3. IsFiniteSet(J) /\ Cardinality(J) <= Cardinality(Charged)
          BY <1>2, <4>2, FS_Subset
        <4>4. f \in Bijection(I, J)
          BY DEF Bijection, Injection, Surjection, IsInjective
        <4>5. Cardinality(J) = Cardinality(I)
          BY <4>1, <4>4, FS_Bijection DEF ExistsBijection
        <4> QED BY <4>1, <4>3, <4>5 DEF Total
      <3>6. subs = <<>> => Total < TrialLimit
        <4>1. subs = <<>> => ~Paid
          BY <1>2, EmptySequence DEF BillingInv, ProviderOK, Paid
        <4> QED BY <1>1, <1>2, <4>1 DEF Allowed
      <3>7. u < DeliveryLimit
        BY <1>1, <1>2, <3>1, <3>5 DEF Allowed
      <3> HIDE DEF m0, u, x
      <3>8. AllowanceHeld'
        <4>1. subs' = <<>> => Total' <= TrialLimit
          BY <1>1, <1>2, <3>4, <3>6
        <4>2. \A m \in DOMAIN usage' : usage'[m] <= DeliveryLimit
          <5> TAKE m \in DOMAIN usage'
          <5>1. CASE m = m0
            BY <1>2, <3>1, <3>2, <3>7, <5>1
          <5>2. CASE m # m0
            BY <1>2, <3>2, <5>2 DEF AllowanceHeld
          <5> QED BY <5>1, <5>2
        <4> QED BY <4>1, <4>2 DEF AllowanceHeld
      <3> QED BY <3>2, <3>4, <3>8 DEF AllowanceOK
    <2> QED BY <2>1, <2>2
  <1> QED BY <1>1, <1>3 DEF BillingInv
-----------------------------------------------------------------------------

(* The invariant holds at first.                                           *)
LEMMA BillingInitInv ==
  ASSUME NEW start \in Nat, BillingInit(start)
  PROVE  BillingInv
  <1>1. /\ hour = start /\ phase = "open" /\ billing = NoBilling /\ op = NoOp
        /\ sessions = <<>> /\ subs = <<>> /\ late = {}
        /\ usage = [m \in 0..(MaxHours \div MonthLength) |-> 0]
    BY DEF BillingInit
  <1>2. ProviderOK(sessions, subs, late)
    BY <1>1 DEF ProviderOK
  <1>3. /\ BillingRow(NoBilling) /\ NoBilling.sub = 0 /\ NoBilling.attempts = <<>>
        /\ NoBilling.paidUntil = 0 /\ NoBilling.status = "none"
    BY DEF NoBilling, BillingRow
  <1>4. PendingAttempt(NoBilling) = {}
    BY <1>3 DEF PendingAttempt
  <1>5. Holds(billing, hour, sessions, subs, late)
    BY <1>1, <1>3, <1>4 DEF Holds, Subscribed
  <1>6. /\ usage \in [DOMAIN usage -> Nat] /\ \A m \in DOMAIN usage : usage[m] = 0
    BY <1>1
  <1>7. Charged = {}
    BY <1>6 DEF Charged
  <1>8. AllowanceOK
    BY <1>6, <1>7, FS_EmptySet, BillingTimes DEF AllowanceOK, AllowanceHeld, Total
  <1> QED BY <1>1, <1>2, <1>3, <1>5, <1>8 DEF BillingInv

(* Every step keeps it.                                                    *)
LEMMA BillingNextInv ==
  ASSUME BillingInv, [BillingNext]_billingVars
  PROVE  BillingInv'
  <1>1. CASE UNCHANGED billingVars
    <2>1. /\ hour' = hour /\ phase' = phase /\ billing' = billing /\ op' = op /\ sessions' = sessions
          /\ subs' = subs /\ late' = late /\ usage' = usage
      BY <1>1 DEF billingVars, providerVars
    <2>2. AllowanceOK'
      BY <2>1, AllowanceStays DEF BillingInv, ProviderOK
    <2> QED BY <2>1, <2>2 DEF BillingInv
  <1>2. ASSUME NEW v \in Intervals, prepareCheckout(v)
        PROVE  BillingInv'
    BY <1>2, PrepareKeeps
  <1>3. ASSUME NEW v, NEW kind \in {"pass", "cancel", "reconcile", "finish"}, BeginOp(kind, v)
        PROVE  BillingInv'
    BY <1>3, BeginKeeps
  <1>4. CASE OpStep
    <2>1. ASSUME op # NoOp
          PROVE  phase # "gone"
      BY <2>1 DEF BillingInv
    <2>2. CASE LookupCheckout
      BY <2>1, <2>2, LookupWorks, WorkKeeps DEF LookupCheckout
    <2>3. CASE ReadSubscription
      BY <2>1, <2>3, ReadWorks, WorkKeeps DEF ReadSubscription
    <2>4. CASE NeedCheckout
      BY <2>1, <2>4, NeedWorks, WorkKeeps DEF NeedCheckout
    <2>5. CASE CreateCheckout
      BY <2>5, CreateKeeps
    <2>6. CASE ExpireCheckout
      BY <2>6, ExpireKeeps
    <2>7. CASE CancelSubscription
      BY <2>7, CancelKeeps
    <2>8. CASE CommitOp
      BY <2>8, CommitKeeps
    <2> QED BY <1>4, <2>2, <2>3, <2>4, <2>5, <2>6, <2>7, <2>8 DEF OpStep
  <1>5. CASE AbortOp
    BY <1>5, AbortKeeps
  <1>6. CASE RequestDeletion
    BY <1>6, DeletionKeeps
  <1>7. CASE consumeHostedDelivery
    BY <1>7, DeliveryKeeps
  <1>8. ASSUME NEW i \in DOMAIN sessions, Pay(i)
        PROVE  BillingInv'
    BY <1>8, PayMoves, ProviderKeeps DEF Pay
  <1>9. ASSUME NEW i \in DOMAIN sessions, TimeoutSession(i)
        PROVE  BillingInv'
    BY <1>9, TimeoutMoves, ProviderKeeps DEF TimeoutSession
  <1>10. ASSUME NEW k \in DOMAIN subs, ProviderChange(k)
         PROVE  BillingInv'
    BY <1>10, ProviderChangeMoves, ProviderKeeps DEF ProviderChange
  <1>11. ASSUME NEW r \in late, LateCreate(r)
         PROVE  BillingInv'
    BY <1>11, LateCreateMoves, ProviderKeeps DEF LateCreate
  <1>12. CASE PassHour
    BY <1>12, PassHourMoves, ProviderKeeps DEF PassHour
  <1>13. CASE ProviderStep
    BY <1>8, <1>9, <1>10, <1>11, <1>13, Zenon DEF ProviderStep
  <1>14. CASE BillingNext
    <2>1. ASSUME NEW v \in Intervals, BeginOp("pass", v)
          PROVE  BillingInv'
      BY <2>1, <1>3
    <2>2. ASSUME BeginOp("cancel", "none") \/ BeginOp("reconcile", "none") \/ FinishDeletion
          PROVE  BillingInv'
      BY <2>2, <1>3 DEF FinishDeletion
    <2> QED BY <1>2, <1>4, <1>5, <1>6, <1>7, <1>12, <1>13, <1>14, <2>1, <2>2, Zenon DEF BillingNext
  <1> QED BY <1>1, <1>14

(* A workspace is charged, or offered a checkout, for one subscription; a  *)
(* closed one for none; deliveries stay within the allowance.              *)
LEMMA InvPurchases ==
  ASSUME BillingInv
  PROVE  PurchasesSound
  <1>1. NothingLeftToPay /\ AllowanceHeld
    BY DEF BillingInv, NothingLeftToPay, LiveSubs, OpenSessions, Closed, AllEnded, AllowanceOK
  <1>2. OnePurchase
    <2>1. CASE phase = "gone"
      <3>1. LiveSubs = {} /\ OpenSessions = {}
        BY <1>1, <2>1 DEF NothingLeftToPay
      <3> QED BY <3>1, FS_EmptySet DEF OnePurchase
    <2>2. CASE phase # "gone"
      <3>1. Holds(billing, hour, sessions, subs, late) /\ ProviderOK(sessions, subs, late)
        BY <2>2 DEF BillingInv
      <3>2. \A i \in OpenSessions : sessions[i].attempt \in PendingAttempt(billing)
        BY <3>1 DEF OpenSessions, Holds
      <3>3. \A k \in LiveSubs :
              \/ \E i \in DOMAIN sessions : /\ sessions[i].status = "complete" /\ sessions[i].sub = k
                                            /\ sessions[i].attempt \in PendingAttempt(billing)
              \/ Subscribed(billing) /\ billing.sub = k
        BY <3>1 DEF LiveSubs, Holds, ProviderOK
      <3>4. /\ \A i, j \in OpenSessions : i = j
            /\ \A k, l \in LiveSubs : k = l
            /\ LiveSubs = {} \/ OpenSessions = {}
        <4>1. \A i, j \in DOMAIN sessions :
                sessions[i].attempt \in PendingAttempt(billing) /\ sessions[j].attempt \in PendingAttempt(billing) => i = j
          BY <3>1 DEF Holds, ProviderOK
        <4>2. Subscribed(billing) => PendingAttempt(billing) = {}
          BY <3>1 DEF Holds
        <4>3. \A i \in OpenSessions : i \in DOMAIN sessions /\ sessions[i].status = "open"
          BY DEF OpenSessions
        <4> QED BY <3>2, <3>3, <4>1, <4>2, <4>3
      <3>5. ASSUME NEW S, \A x, y \in S : x = y
            PROVE  Cardinality(S) \in {0, 1} /\ (S = {} => Cardinality(S) = 0)
        <4>1. CASE S = {}
          BY <4>1, FS_EmptySet
        <4>2. CASE S # {}
          <5>1. PICK x : x \in S
            BY <4>2
          <5>2. S = {x}
            BY <3>5, <5>1
          <5> QED BY <4>2, <5>2, FS_Singleton
        <4> QED BY <4>1, <4>2
      <3>6. /\ Cardinality(LiveSubs) \in {0, 1} /\ (LiveSubs = {} => Cardinality(LiveSubs) = 0)
            /\ Cardinality(OpenSessions) \in {0, 1} /\ (OpenSessions = {} => Cardinality(OpenSessions) = 0)
        BY <3>4, <3>5
      <3> QED BY <3>4, <3>6 DEF OnePurchase
    <2> QED BY <2>1, <2>2
  <1> QED BY <1>1, <1>2 DEF PurchasesSound

(* One purchase at a time and nothing left to pay, whatever responses are  *)
(* lost, requests come late and payments race the operations of            *)
(* hosted_billing.go; and the allowance of consumeHostedDelivery holds.    *)
THEOREM PurchasesAreSound == BillingSpec => []PurchasesSound
  <1>1. BillingInit(1) => BillingInv
    BY BillingInitInv
  <1>2. BillingInv /\ [BillingNext]_billingVars => BillingInv'
    BY BillingNextInv
  <1>3. BillingInv => PurchasesSound
    BY InvPurchases
  <1> QED BY <1>1, <1>2, <1>3, PTL DEF BillingSpec
=============================================================================
