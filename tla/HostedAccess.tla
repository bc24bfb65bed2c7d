---------------------------- MODULE HostedAccess ----------------------------
(***************************************************************************)
(* Who may act in a hosted workspace: workspaces and their members,        *)
(* invitations, the connections (devices, manual MCP keys, OAuth apps) a   *)
(* member approves, and the agent sessions those connections run.          *)
(*                                                                         *)
(* A transaction on a workspace holds its advisory lock, so it is one      *)
(* step. Two things are not: a request that looks its credential up before *)
(* it takes the lock, and the granting of ownership, which counts what the *)
(* account owns in all workspaces under a second lock. Both are a call in  *)
(* flight (call), and any call may end without effect.                     *)
(***************************************************************************)
EXTENDS Naturals, FiniteSets

CONSTANTS
  Workspaces, Users, Invites, Devices, Sessions, Approvals, Calls,
  Pairings,         \* the approvals that pair a machine; the others are OAuth consents
  Nothing,          \* no device, no invitation, no session
  OwnedLimit,       \* workspaces an account may own (3)
  MemberLimit,      \* members of a workspace (5)
  InviteLimit,      \* invitations outstanding in a workspace (20)
  ConnectionLimit,  \* connections of a member in a workspace (20)
  SessionLimit,     \* sessions with a lease in a workspace
  MaxGeneration     \* replacements of a connection, plus one

ASSUME HostedLimits ==
  Pairings \subseteq Approvals /\ {OwnedLimit, MemberLimit, InviteLimit, ConnectionLimit, SessionLimit, MaxGeneration}
     \subseteq Nat \ {0}

Kinds == {"device", "mcp_key", "mcp"}
Idle == [op |-> "idle"]

(* The rows: of hosted_invites, hosted_devices (with their credentials),  *)
(* hosted_sessions, and what an approval issued.                           *)
InviteRows == [w : Workspaces, to : Users, role : {"member", "admin"}, by : Users,
               status : {"live", "expired", "revoked", "consumed", "gone"}]
DeviceRows == [w : Workspaces, user : Users, kind : Kinds, gen : Nat,
               status : {"live", "revoked", "expired", "deleted"},
               held : BOOLEAN, via : Approvals \union {Nothing}]
SessionRows == [dev : Devices, gen : Nat, live : BOOLEAN]
Credentials == [dev : Devices, gen : Nat]

(* No row is the absence of one.                                           *)
ASSUME NothingIsNoRow ==
  Nothing \notin InviteRows \union DeviceRows \union SessionRows \union Credentials

VARIABLES
  ws,        \* workspace |-> "none", "open", "paused", "closing", "gone"
  hosting,   \* workspace |-> what pays for it ("trial", "paid", "inactive") and its creator
  trialOf,   \* account |-> its one trial: "none", "running", "over"
  role,      \* workspace |-> member |-> role
  invite,    \* invitation |-> its row
  dev,       \* connection |-> its row
  sess,      \* session |-> the connection that runs it and whether it is leased
  approval,  \* pairing or consent |-> status and the credential it issued
  call       \* request in flight

accessVars == <<ws, hosting, trialOf, role, invite, dev, sess, approval, call>>

AccessInit ==
  /\ ws = [w \in Workspaces |-> "none"]
  /\ hosting = [w \in Workspaces |-> [by |-> Nothing, on |-> "inactive"]]
  /\ trialOf = [u \in Users |-> "none"]
  /\ role = [w \in Workspaces |-> [u \in Users |-> "none"]]
  /\ invite = [i \in Invites |-> Nothing]
  /\ dev = [d \in Devices |-> Nothing]
  /\ sess = [s \in Sessions |-> Nothing]
  /\ approval = [p \in Approvals |-> [status |-> "none", cred |-> Nothing]]
  /\ call = [c \in Calls |-> Idle]

-----------------------------------------------------------------------------
(* Locks and lookups                                                       *)

ScopeHeld(w) == \E c \in Calls : call[c].op = "promote" /\ call[c].w = w
AccountHeld(u) == \E c \in Calls : call[c].op \in {"create", "promote"} /\ call[c].u = u

Member(w, u) == role[w][u] # "none"
workspaceOpen(w) == ws[w] \in {"open", "paused"}
Owned(u) == {w \in Workspaces : role[w][u] = "owner"}
Owners(w) == {u \in Users : role[w][u] = "owner"}

Enrolled == {d \in Devices : dev[d] # Nothing /\ dev[d].status # "deleted"}
DevicesIn(w) == {d \in Enrolled : dev[d].w = w}
DevicesOf(w, u) == {d \in DevicesIn(w) : dev[d].user = u}
LiveInvites == {i \in Invites : invite[i] # Nothing /\ invite[i].status = "live"}
Started == {s \in Sessions : sess[s] # Nothing}
LiveIn(w) == {s \in Started : sess[s].live /\ sess[s].dev \in DevicesIn(w)}

(* retireHostedSessions: every lease of these connections ends at once.    *)
retireHostedSessions(D) ==
  [s \in Sessions |-> IF s \in Started /\ sess[s].dev \in D
                      THEN [sess[s] EXCEPT !.live = FALSE] ELSE sess[s]]

(* The rows of these connections go, and with them (ON DELETE CASCADE)     *)
(* their sessions, the pairings that issued them and their OAuth tokens,   *)
(* which HostedOAuth keeps.                                                *)
Cascade(D) ==
  /\ dev' = [d \in Devices |-> IF d \in D THEN [dev[d] EXCEPT !.status = "deleted"] ELSE dev[d]]
  /\ sess' = [s \in Sessions |-> IF s \in Started /\ sess[s].dev \in D THEN Nothing ELSE sess[s]]
  /\ approval' = [p \in Approvals |->
                    IF approval[p].cred # Nothing /\ approval[p].cred.dev \in D
                    THEN [status |-> "dropped", cred |-> Nothing] ELSE approval[p]]

-----------------------------------------------------------------------------
(* Accounts and membership                                                 *)

(* Fault: requests in flight are not waited for.                         *)
checkHostedOwnershipLimit_NoLock(u) == Cardinality(Owned(u)) < OwnedLimit

(* Ownership is counted under the account's lock; the rows are written     *)
(* and the lock given up in a second step.                                 *)
checkHostedOwnershipLimit(u) ==
  /\ ~AccountHeld(u)
  /\ Cardinality(Owned(u)) < OwnedLimit

CreateBegin(c, u, w) ==
  /\ call[c] = Idle /\ ws[w] = "none"
  /\ \A x \in Calls : call[x].op = "create" => call[x].w # w
  /\ checkHostedOwnershipLimit(u)
  /\ call' = [call EXCEPT ![c] = [op |-> "create", u |-> u, w |-> w]]
  /\ UNCHANGED <<ws, hosting, trialOf, role, invite, dev, sess, approval>>

(* Fault: every workspace starts a trial.                                *)
TrialFor_Fresh(u) == "trial"

(* The trial belongs to the account: it starts with the first workspace    *)
(* and any later one gets what is left of it.                              *)
TrialFor(u) == IF trialOf[u] = "over" THEN "inactive" ELSE "trial"

CreateCommit(c) ==
  /\ call[c].op = "create"
  /\ LET u == call[c].u
         w == call[c].w
     IN /\ ws' = [ws EXCEPT ![w] = "open"]
        /\ role' = [role EXCEPT ![w][u] = "owner"]
        /\ hosting' = [hosting EXCEPT ![w] = [by |-> u, on |-> TrialFor(u)]]
        /\ trialOf' = [trialOf EXCEPT ![u] = IF @ = "none" THEN "running" ELSE @]
  /\ call' = [call EXCEPT ![c] = Idle]
  /\ UNCHANGED <<invite, dev, sess, approval>>

(* The trial of an account ends, in every workspace created on it.         *)
EndTrial(u) ==
  /\ trialOf[u] = "running"
  /\ trialOf' = [trialOf EXCEPT ![u] = "over"]
  /\ hosting' = [w \in Workspaces |->
                   IF hosting[w].on = "trial" /\ hosting[w].by = u
                   THEN [hosting[w] EXCEPT !.on = "inactive"] ELSE hosting[w]]
  /\ UNCHANGED <<ws, role, invite, dev, sess, approval, call>>

(* Billing has found the subscription paid, or no longer paid. With the    *)
(* payment trial_ends_at was set to that time: no trial comes back.        *)
SetPaid(w, paid) ==
  /\ workspaceOpen(w)
  /\ hosting' = [hosting EXCEPT ![w].on = IF paid THEN "paid" ELSE IF @ = "paid" THEN "inactive" ELSE @]
  /\ UNCHANGED <<ws, trialOf, role, invite, dev, sess, approval, call>>

Invite(a, w, i, u, r) ==
  /\ ~ScopeHeld(w) /\ workspaceOpen(w)
  /\ role[w][a] = "owner" \/ (role[w][a] = "admin" /\ r = "member")
  /\ invite[i] = Nothing
  /\ Cardinality({j \in LiveInvites : invite[j].w = w}) < InviteLimit
  /\ invite' = [invite EXCEPT ![i] = [w |-> w, to |-> u, role |-> r, by |-> a, status |-> "live"]]
  /\ UNCHANGED <<ws, hosting, trialOf, role, dev, sess, approval, call>>

(* The seven days of an invitation pass, or an owner or administrator revokes it. *)
ExpireInvite(i) ==
  /\ i \in LiveInvites
  /\ invite' = [invite EXCEPT ![i].status = "expired"]
  /\ UNCHANGED <<ws, hosting, trialOf, role, dev, sess, approval, call>>

(* AcceptInvite finds the workspace of the secret before it has the lock   *)
(* and reads the invitation again under it.                                *)
LookupInvite(c, u, i) ==
  /\ call[c] = Idle /\ invite[i] # Nothing
  /\ call' = [call EXCEPT ![c] = [op |-> "accept", u |-> u, i |-> i]]
  /\ UNCHANGED <<ws, hosting, trialOf, role, invite, dev, sess, approval>>

AcceptInvite(c) ==
  /\ call[c].op = "accept" /\ call[c].i \in LiveInvites
  /\ LET i == call[c].i
         u == call[c].u
         w == invite[i].w
     IN /\ ~ScopeHeld(w) /\ workspaceOpen(w)
        /\ invite[i].to = u
        /\ \/ Member(w, u)
           \/ Cardinality({v \in Users : Member(w, v)}) < MemberLimit
        /\ role' = [role EXCEPT ![w][u] = IF @ = "none" THEN invite[i].role ELSE @]
        /\ invite' = [invite EXCEPT ![i].status = "consumed"]
  /\ call' = [call EXCEPT ![c] = Idle]
  /\ UNCHANGED <<ws, hosting, trialOf, dev, sess, approval>>

(* Whether a may give u the role r ("none" removes).                       *)
MayChange(a, w, u, r) ==
  /\ ~ScopeHeld(w) /\ workspaceOpen(w)
  /\ Member(w, a) /\ Member(w, u)
  /\ \/ a = u /\ r = "none"
     \/ role[w][a] = "owner"
     \/ role[w][a] = "admin" /\ role[w][u] = "member" /\ r \in {"none", "member"}

(* Fault: only a removal looks for another owner.                        *)
OwnerStays_Removal(w, u, r) == role[w][u] = "owner" /\ r = "none" => Cardinality(Owners(w)) > 1

OwnerStays(w, u, r) == role[w][u] = "owner" /\ r # "owner" => Cardinality(Owners(w)) > 1

(* Fault: the invitations a member sent stay.                            *)
InvitesOf_ToOnly(w, u) == {i \in LiveInvites : invite[i].w = w /\ invite[i].to = u}

(* Invitations that go with a member: those it sent and those to it.       *)
InvitesOf(w, u) == {i \in LiveInvites : invite[i].w = w /\ u \in {invite[i].by, invite[i].to}}

(* Another role, or the end of the membership: then the leases end, and    *)
(* the row of the member takes the member's connections with it.           *)
ChangeMember(a, w, u, r) ==
  /\ MayChange(a, w, u, r) /\ OwnerStays(w, u, r)
  /\ r = "owner" => role[w][u] = "owner"
  /\ role' = [role EXCEPT ![w][u] = r]
  /\ IF r = "none"
     THEN /\ Cascade(DevicesOf(w, u))
          /\ invite' = [i \in Invites |-> IF i \in InvitesOf(w, u)
                                          THEN [invite[i] EXCEPT !.status = "revoked"] ELSE invite[i]]
     ELSE UNCHANGED <<dev, sess, approval, invite>>
  /\ UNCHANGED <<ws, hosting, trialOf, call>>

(* Making u an owner: the workspace's lock, then the account's.            *)
PromoteBegin(c, a, w, u) ==
  /\ call[c] = Idle
  /\ MayChange(a, w, u, "owner") /\ role[w][u] # "owner"
  /\ checkHostedOwnershipLimit(u)
  /\ call' = [call EXCEPT ![c] = [op |-> "promote", u |-> u, w |-> w]]
  /\ UNCHANGED <<ws, hosting, trialOf, role, invite, dev, sess, approval>>

PromoteCommit(c) ==
  /\ call[c].op = "promote"
  /\ role' = [role EXCEPT ![call[c].w][call[c].u] = "owner"]
  /\ call' = [call EXCEPT ![c] = Idle]
  /\ UNCHANGED <<ws, hosting, trialOf, invite, dev, sess, approval>>

(* A request is refused, or its connection breaks before it commits.       *)
Abandon(c) ==
  /\ call[c] # Idle
  /\ call' = [call EXCEPT ![c] = Idle]
  /\ UNCHANGED <<ws, hosting, trialOf, role, invite, dev, sess, approval>>
-----------------------------------------------------------------------------
(* Connections                                                             *)

(* A connection is usable when its credential is current, unrevoked and    *)
(* unexpired and its owner is still a member: the join of                  *)
(* authenticateHostedDevice and authenticateMCPKey. gen counts the         *)
(* credentials the connection has had.                                     *)
authenticateHostedDevice(d, g) ==
  /\ d \in Enrolled /\ dev[d].gen = g /\ dev[d].status = "live"
  /\ Member(dev[d].w, dev[d].user)

checkHostedConnectionLimit(w, u, except) ==
  Cardinality({d \in DevicesOf(w, u) \ except : dev[d].status = "live"}) < ConnectionLimit

(* enrollDeviceTx: a new connection. held says that its credential reached *)
(* the machine that will use it, via which approval issued it.             *)
Enroll(u, w, d, k, held, p) ==
  /\ ~ScopeHeld(w) /\ workspaceOpen(w) /\ Member(w, u)
  /\ dev[d] = Nothing
  /\ checkHostedConnectionLimit(w, u, {})
  /\ dev' = [dev EXCEPT ![d] = [w |-> w, user |-> u, kind |-> k, gen |-> 1, status |-> "live",
                                held |-> held, via |-> p]]
  /\ sess' = sess

(* replaceConnectionTx: a new credential for one's own connection of the   *)
(* same kind. The old credential, and what it runs, is fenced.             *)
Replace(u, w, d, k, held, p) ==
  /\ ~ScopeHeld(w) /\ workspaceOpen(w) /\ Member(w, u)
  /\ d \in DevicesOf(w, u) /\ dev[d].kind = k
  /\ checkHostedConnectionLimit(w, u, {d})
  /\ dev[d].gen < MaxGeneration
  /\ dev' = [dev EXCEPT ![d].gen = @ + 1, ![d].status = "live", ![d].held = held, ![d].via = p]
  /\ sess' = retireHostedSessions({d})

Connect(u, w, d, k, held, p) == Enroll(u, w, d, k, held, p) \/ Replace(u, w, d, k, held, p)

(* EnrollDevice and CreateMCPKey return the credential in their response,  *)
(* which may be lost.                                                      *)
EnrollDevice(u, w, d) ==
  /\ \E held \in BOOLEAN : Enroll(u, w, d, "device", held, Nothing)
  /\ UNCHANGED <<ws, hosting, trialOf, role, invite, approval, call>>

CreateMCPKey(u, w, d) ==
  /\ \E held \in BOOLEAN : Connect(u, w, d, "mcp_key", held, Nothing)
  /\ UNCHANGED <<ws, hosting, trialOf, role, invite, approval, call>>

(* A machine asks to be paired; a member approves it, as it does an        *)
(* application's request, for a workspace of its choice, once.             *)
BeginDevicePairing(p) ==
  /\ p \in Pairings /\ approval[p].status = "none"
  /\ approval' = [approval EXCEPT ![p].status = "pending"]
  /\ UNCHANGED <<ws, hosting, trialOf, role, invite, dev, sess, call>>

(* Fault: an approved pairing can be completed again.                    *)
Pending_Open(p) == approval[p].status \in {"pending", "approved"}

Pending(p) == approval[p].status = "pending"

Approve(p, u, w, d, k) ==
  /\ Pending(p)
  /\ Connect(u, w, d, k, FALSE, p)
  /\ approval' = [approval EXCEPT ![p] = [status |-> "approved",
                                          cred |-> [dev |-> d, gen |-> dev'[d].gen]]]

completeDevicePairing(p, u, w, d) ==
  /\ p \in Pairings
  /\ Approve(p, u, w, d, "device")
  /\ UNCHANGED <<ws, hosting, trialOf, role, invite, call>>

(* Declined by a user, or ten minutes passed.                              *)
DropApproval(p) ==
  /\ approval[p].status \in {"pending", "approved"}
  /\ approval' = [approval EXCEPT ![p].status = "dropped"]
  /\ UNCHANGED <<ws, hosting, trialOf, role, invite, dev, sess, call>>

(* The machine polls with its own secret. Polling again recovers a lost    *)
(* response while the credential still works.                              *)
PollDevicePairing(p) ==
  /\ approval[p].status = "approved"
  /\ LET cr == approval[p].cred
     IN /\ authenticateHostedDevice(cr.dev, cr.gen) /\ dev[cr.dev].kind = "device"
        /\ dev' = [dev EXCEPT ![cr.dev].held = TRUE]
  /\ UNCHANGED <<ws, hosting, trialOf, role, invite, sess, approval, call>>

(* RevokeDevice ends a connection and what it runs.                        *)
EndConnection(d) ==
  /\ dev' = [dev EXCEPT ![d].status = "revoked"]
  /\ sess' = retireHostedSessions({d})

RevokeDevice(a, w, d) ==
  /\ ~ScopeHeld(w) /\ Member(w, a) /\ d \in DevicesIn(w) /\ Member(w, dev[d].user)
  /\ \/ dev[d].user = a
     \/ role[w][a] = "owner"
     \/ role[w][a] = "admin" /\ role[w][dev[d].user] = "member"
  /\ EndConnection(d)

RevokeByMember(a, w, d) ==
  /\ RevokeDevice(a, w, d)
  /\ UNCHANGED <<ws, hosting, trialOf, role, invite, approval, call>>

ExpireDevice(d) ==
  /\ d \in Enrolled /\ dev[d].status = "live"
  /\ dev' = [dev EXCEPT ![d].status = "expired"]
  /\ UNCHANGED <<ws, hosting, trialOf, role, invite, sess, approval, call>>

-----------------------------------------------------------------------------
(* Sessions                                                                *)

(* Every request with a connection's credential is authenticated first     *)
(* without the workspace's lock: to start a session, or to revoke itself.  *)
Authenticate(c, d, op) ==
  /\ call[c] = Idle /\ d \in Enrolled /\ dev[d].held
  /\ dev[d].kind = "device" \/ (dev[d].kind = "mcp_key" /\ op = "start")
  /\ authenticateHostedDevice(d, dev[d].gen)
  /\ call' = [call EXCEPT ![c] = [op |-> op, dev |-> d, gen |-> dev[d].gen]]
  /\ UNCHANGED <<ws, hosting, trialOf, role, invite, dev, sess, approval>>

SelfRevoke(c) ==
  /\ call[c].op = "revoke" /\ call[c].dev \in Enrolled
  /\ RevokeDevice(dev[call[c].dev].user, dev[call[c].dev].w, call[c].dev)
  /\ call' = [call EXCEPT ![c] = Idle]
  /\ UNCHANGED <<ws, hosting, trialOf, role, invite, approval>>

(* startSessionTx: a fresh session, or one the connection already owns.    *)
startSessionTx(d, s) ==
  /\ ws[dev[d].w] = "open" /\ hosting[dev[d].w].on # "inactive"
  /\ s \in Started => sess[s].dev = d
  /\ Cardinality(LiveIn(dev[d].w) \ {s}) < SessionLimit
  /\ sess' = [sess EXCEPT ![s] = [dev |-> d, gen |-> dev[d].gen, live |-> TRUE]]

(* commitConnectorExecution: a connector has one inbox. A leased session   *)
(* is reused, and its lease extended, as long as requireHostedExecution    *)
(* lets it: the workspace is not paused and the connection is good.        *)
commitConnectorExecution(d, s) ==
  LET own == {x \in Started : sess[x].dev = d}
  IN /\ own # {} => s \in own
     /\ IF own # {} /\ sess[s].live
        THEN ws[dev[d].w] = "open" /\ sess' = sess
        ELSE startSessionTx(d, s)

(* Fault: the credential is not looked up again.                         *)
StartDeviceSession_NoRecheck(c, s) ==
  /\ call[c].op = "start" /\ call[c].dev \in Enrolled
  /\ startSessionTx(call[c].dev, s)
  /\ call' = [call EXCEPT ![c] = Idle]
  /\ UNCHANGED <<ws, hosting, trialOf, role, invite, dev, approval>>

(* StartDeviceSession and mcpKeyExecution authenticate again under the     *)
(* lock, so that a revocation cannot slip in between.                      *)
StartDeviceSession(c, s) ==
  /\ call[c].op = "start"
  /\ LET d == call[c].dev
     IN /\ authenticateHostedDevice(d, call[c].gen) /\ ~ScopeHeld(dev[d].w)
        /\ \/ dev[d].kind = "device" /\ startSessionTx(d, s)
           \/ dev[d].kind = "mcp_key" /\ commitConnectorExecution(d, s)
  /\ call' = [call EXCEPT ![c] = Idle]
  /\ UNCHANGED <<ws, hosting, trialOf, role, invite, dev, approval>>

LapseLease(s) ==
  /\ s \in Started /\ sess[s].live
  /\ sess' = [sess EXCEPT ![s].live = FALSE]
  /\ UNCHANGED <<ws, hosting, trialOf, role, invite, dev, approval, call>>

-----------------------------------------------------------------------------
(* Pausing and deleting a workspace                                        *)

PauseWorkspace(u, w, paused) ==
  /\ ~ScopeHeld(w) /\ role[w][u] = "owner"
  /\ ws[w] = IF paused THEN "open" ELSE "paused"
  /\ ws' = [ws EXCEPT ![w] = IF paused THEN "paused" ELSE "open"]
  /\ sess' = IF paused THEN retireHostedSessions(DevicesIn(w)) ELSE sess
  /\ UNCHANGED <<hosting, trialOf, role, invite, dev, approval, call>>

(* Intent is recorded, and all access ended, before the payment provider   *)
(* is asked anything.                                                      *)
requestWorkspaceDeletion(u, w) ==
  /\ ~ScopeHeld(w) /\ role[w][u] = "owner" /\ workspaceOpen(w)
  /\ ws' = [ws EXCEPT ![w] = "closing"]
  /\ sess' = retireHostedSessions(DevicesIn(w))
  /\ dev' = [d \in Devices |-> IF d \in DevicesIn(w)
                               THEN [dev[d] EXCEPT !.status = "revoked"] ELSE dev[d]]
  /\ UNCHANGED <<hosting, trialOf, role, invite, approval, call>>

(* When billing is closed the content goes, with all that refers to it.    *)
finishWorkspaceDeletion(w) ==
  /\ ~ScopeHeld(w) /\ ws[w] = "closing"
  /\ ws' = [ws EXCEPT ![w] = "gone"]
  /\ role' = [role EXCEPT ![w] = [u \in Users |-> "none"]]
  /\ invite' = [i \in Invites |-> IF invite[i] # Nothing /\ invite[i].w = w
                                  THEN [invite[i] EXCEPT !.status = "gone"] ELSE invite[i]]
  /\ Cascade(DevicesIn(w))
  /\ hosting' = [hosting EXCEPT ![w].on = "inactive"]
  /\ UNCHANGED <<trialOf, call>>

-----------------------------------------------------------------------------
AccountStep ==
  \/ \E c \in Calls, u \in Users, w \in Workspaces :
       \/ CreateBegin(c, u, w)
       \/ \E a \in Users : PromoteBegin(c, a, w, u)
  \/ \E c \in Calls : CreateCommit(c) \/ PromoteCommit(c) \/ AcceptInvite(c)
  \/ \E u \in Users : EndTrial(u)
  \/ \E i \in Invites : ExpireInvite(i) \/ \E c \in Calls, u \in Users : LookupInvite(c, u, i)
  \/ \E a, u \in Users, w \in Workspaces :
       \/ \E i \in Invites, r \in {"member", "admin"} : Invite(a, w, i, u, r)
       \/ \E r \in {"none", "member", "admin", "owner"} : ChangeMember(a, w, u, r)

ConnectionStep ==
  \/ \E u \in Users, w \in Workspaces, d \in Devices :
       \/ EnrollDevice(u, w, d) \/ CreateMCPKey(u, w, d) \/ RevokeByMember(u, w, d)
       \/ \E p \in Approvals : completeDevicePairing(p, u, w, d)
  \/ \E p \in Approvals : BeginDevicePairing(p) \/ DropApproval(p) \/ PollDevicePairing(p)
  \/ \E d \in Devices : ExpireDevice(d) \/
                        \E c \in Calls, op \in {"start", "revoke"} : Authenticate(c, d, op)
  \/ \E c \in Calls : SelfRevoke(c) \/ \E s \in Sessions : StartDeviceSession(c, s)
  \/ \E s \in Sessions : LapseLease(s)

WorkspaceStep ==
  \E w \in Workspaces :
     \/ finishWorkspaceDeletion(w)
     \/ \E b \in BOOLEAN : SetPaid(w, b)
     \/ \E u \in Users : requestWorkspaceDeletion(u, w) \/
                         \E b \in BOOLEAN : PauseWorkspace(u, w, b)

AccessNext == AccountStep \/ ConnectionStep \/ WorkspaceStep \/ \E c \in Calls : Abandon(c)

-----------------------------------------------------------------------------
(* Requests in flight: two grants of ownership, an acceptance, those of a  *)
(* connection, and those that carry an OAuth token.                        *)
Requests ==
  [op : {"create", "promote"}, u : Users, w : Workspaces]
    \union [op : {"accept"}, u : Users, i : Invites]
    \union [op : {"start", "revoke"}, dev : Devices, gen : Nat]
    \union [op : {"oauth_token", "oauth_revoke", "oauth_access"}, dev : Devices, gen : Nat,
            n : Nat, used : BOOLEAN]

AccessTypeOK ==
  /\ ws \in [Workspaces -> {"none", "open", "paused", "closing", "gone"}]
  /\ hosting \in [Workspaces -> [by : Users \union {Nothing}, on : {"trial", "paid", "inactive"}]]
  /\ trialOf \in [Users -> {"none", "running", "over"}]
  /\ role \in [Workspaces -> [Users -> {"none", "member", "admin", "owner"}]]
  /\ invite \in [Invites -> InviteRows \union {Nothing}]
  /\ dev \in [Devices -> DeviceRows \union {Nothing}]
  /\ sess \in [Sessions -> SessionRows \union {Nothing}]
  /\ approval \in [Approvals -> [status : {"none", "pending", "approved", "dropped"},
                                 cred : Credentials \union {Nothing}]]
  /\ call \in [Calls -> Requests \union {Idle}]

(* A leased session runs on a current, unrevoked connection of a member of *)
(* a workspace that is neither paused nor closing: removing a member,      *)
(* revoking or replacing a connection, pausing and deleting all end the    *)
(* lease, and a start that was authenticated before does not revive it.    *)
ExecutionHasAuthority ==
  \A s \in Started : sess[s].live =>
     LET d == sess[s].dev
     IN /\ d \in Enrolled /\ dev[d].gen = sess[s].gen /\ dev[d].status # "revoked"
        /\ Member(dev[d].w, dev[d].user)
        /\ ws[dev[d].w] = "open"

(* A workspace that is not deleted never loses its last owner, whoever     *)
(* leaves, is demoted or removed.                                          *)
OwnerRemains == \A w \in Workspaces : ws[w] \notin {"none", "gone"} => Owners(w) # {}

(* An account never owns more workspaces than allowed, although it may     *)
(* create one while somebody else makes it an owner of another.            *)
OwnershipBounded == \A u \in Users : Cardinality(Owned(u)) <= OwnedLimit

(* An open invitation was sent by someone who is still a member: the       *)
(* invitations of a removed member cannot be accepted.                     *)
InvitesStand == \A i \in LiveInvites : Member(invite[i].w, invite[i].by)

(* A pairing or a consent grants one connection, however often and in      *)
(* however many workspaces it is approved.                                 *)
OneGrantPerApproval ==
  \A d, e \in Enrolled : dev[d].via # Nothing /\ dev[d].via = dev[e].via => d = e

(* An account has one trial: no workspace runs on a trial that is over,    *)
(* even one created after others were deleted.                             *)
OneTrial == \A w \in Workspaces : hosting[w].on = "trial" => trialOf[hosting[w].by] = "running"

(* The rules of accounts that no single workspace lock protects            *)
(* (CreateWorkspace, ChangeMember, AcceptInvite, completeDevicePairing).   *)
AccountsSound ==
  OwnerRemains /\ OwnershipBounded /\ InvitesStand /\ OneGrantPerApproval /\ OneTrial
=============================================================================
