----------------------------- MODULE HostedOAuth -----------------------------
(***************************************************************************)
(* The OAuth side of a hosted workspace: an application asks, a member     *)
(* consents, the code is exchanged for tokens, and every refresh replaces  *)
(* them. The grant is a connection of HostedAccess of kind "mcp"; its      *)
(* tokens are rows of oauth_tokens. Who wins between two requests with the *)
(* same token is decided under the workspace's lock; each request has read *)
(* the row once before, without it.                                        *)
(*                                                                         *)
(* The OAuth library generates and verifies tokens inside the transaction; *)
(* it is taken from how it is configured and called.                       *)
(***************************************************************************)
EXTENDS HostedAccess

CONSTANT MaxRefreshes   \* refreshes of one grant

VARIABLE tokens         \* rows of oauth_tokens

oauthVars == <<accessVars, tokens>>

OAuthInit == AccessInit /\ tokens = {}

(* Row 0 of a grant holds the code, the others an access and a refresh     *)
(* token each. used: code_consumed or refresh_consumed; revoked:           *)
(* access_revoked; old: expires_at has passed.                             *)
NewToken(d, g, n) == [dev |-> d, gen |-> g, n |-> n, used |-> FALSE, revoked |-> FALSE, old |-> FALSE]
Family(d) == {t \in tokens : t.dev = d}

(* oauthRecord joins the connection and its member.                        *)
oauthRecord(d, g, n) ==
  {t \in Family(d) : t.gen = g /\ t.n = n /\ d \in Enrolled /\ Member(dev[d].w, dev[d].user)}

(* An application asks for authorization.                                  *)
oauthAuthorize(p) ==
  /\ p \notin Pairings /\ approval[p].status = "none"
  /\ approval' = [approval EXCEPT ![p].status = "pending"]
  /\ UNCHANGED <<ws, hosting, trialOf, role, invite, dev, sess, call, tokens>>

(* Consent issues a code for a new or a replaced connection; replacing it  *)
(* deletes the tokens of the old grant.                                    *)
oauthConsent(p, u, w, d) ==
  /\ p \notin Pairings
  /\ Approve(p, u, w, d, "mcp")
  /\ tokens' = (tokens \ Family(d)) \union {NewToken(d, dev'[d].gen, 0)}
  /\ UNCHANGED <<ws, hosting, trialOf, role, invite, call>>

(* Any request first finds the row of the token it carries.                *)
OAuthLookup(c, t, op) ==
  /\ call[c] = Idle
  /\ t \in oauthRecord(t.dev, t.gen, t.n)
  /\ op = "oauth_token" \/ t.n > 0
  /\ call' = [call EXCEPT ![c] = [op |-> op, dev |-> t.dev, gen |-> t.gen, n |-> t.n, used |-> t.used]]
  /\ UNCHANGED <<ws, hosting, trialOf, role, invite, dev, sess, approval, tokens>>

(* The row as it is under the lock.                                        *)
Reread(c) ==
  IF call[c].dev \in Enrolled /\ ~ScopeHeld(dev[call[c].dev].w)
  THEN oauthRecord(call[c].dev, call[c].gen, call[c].n) ELSE {}

Grantable(t) == dev[t.dev].status = "live" /\ ~t.old

(* Fault: the first lookup decides.                                      *)
Consumed_AsLookedUp(c, t) == call[c].used

Consumed(c, t) == t.used

(* oauthToken with a token not used before: it is used up, and so is the   *)
(* access token that came with it.                                         *)
IssueTokens(c) ==
  /\ call[c].op = "oauth_token"
  /\ \E t \in Reread(c) :
       /\ Grantable(t) /\ ~Consumed(c, t) /\ t.n < MaxRefreshes
       /\ tokens' = (tokens \ {t}) \union {[t EXCEPT !.used = TRUE, !.revoked = TRUE],
                                           NewToken(t.dev, t.gen, t.n + 1)}
  /\ call' = [call EXCEPT ![c] = Idle]
  /\ UNCHANGED <<ws, hosting, trialOf, role, invite, dev, sess, approval>>

(* oauthToken with a refresh token used before: the whole connection ends. *)
(* (A code used before is refused without effect.)                         *)
ReplayedRefresh(c) ==
  /\ call[c].op = "oauth_token"
  /\ \E t \in Reread(c) : Grantable(t) /\ Consumed(c, t) /\ t.n > 0 /\ EndConnection(t.dev)
  /\ call' = [call EXCEPT ![c] = Idle]
  /\ UNCHANGED <<ws, hosting, trialOf, role, invite, approval, tokens>>

(* Fault: the token is not read again under the lock.                    *)
oauthRevoke_NoReread(c) ==
  /\ call[c].op = "oauth_revoke" /\ call[c].dev \in Enrolled
  /\ EndConnection(call[c].dev)
  /\ call' = [call EXCEPT ![c] = Idle]
  /\ UNCHANGED <<ws, hosting, trialOf, role, invite, approval, tokens>>

(* Revoking either token ends the connection too.                          *)
oauthRevoke(c) ==
  /\ call[c].op = "oauth_revoke"
  /\ \E t \in Reread(c) : EndConnection(t.dev)
  /\ call' = [call EXCEPT ![c] = Idle]
  /\ UNCHANGED <<ws, hosting, trialOf, role, invite, approval, tokens>>

(* A request with an access token starts or extends the one session of the *)
(* connection.                                                             *)
oauthExecution(c, s) ==
  /\ call[c].op = "oauth_access"
  /\ \E t \in Reread(c) : Grantable(t) /\ ~t.revoked /\ commitConnectorExecution(t.dev, s)
  /\ call' = [call EXCEPT ![c] = Idle]
  /\ UNCHANGED <<ws, hosting, trialOf, role, invite, dev, approval, tokens>>

ExpireToken(t) ==
  /\ ~t.old
  /\ tokens' = (tokens \ {t}) \union {[t EXCEPT !.old = TRUE]}
  /\ UNCHANGED accessVars

(* Maintenance removes rows that cannot authorize anything any more.       *)
MaintainTokens ==
  /\ tokens' = {t \in tokens : ~t.old} /\ tokens' # tokens
  /\ UNCHANGED accessVars

OAuthStep ==
  \/ \E p \in Approvals :
       oauthAuthorize(p) \/ \E u \in Users, w \in Workspaces, d \in Devices : oauthConsent(p, u, w, d)
  \/ \E c \in Calls, t \in tokens, op \in {"oauth_token", "oauth_revoke", "oauth_access"} :
       OAuthLookup(c, t, op)
  \/ \E c \in Calls : \/ IssueTokens(c) \/ ReplayedRefresh(c) \/ oauthRevoke(c)
                      \/ \E s \in Sessions : oauthExecution(c, s)
  \/ \E t \in tokens : ExpireToken(t)
  \/ MaintainTokens

(* Connections that are deleted, with their member or their workspace,     *)
(* take their tokens with them.                                            *)
OAuthNext ==
  \/ OAuthStep
  \/ AccessNext /\ tokens' = {t \in tokens : dev'[t.dev].status # "deleted"}

OAuthSpec == OAuthInit /\ [][OAuthNext]_oauthVars

-----------------------------------------------------------------------------
TokenRows == [dev : Devices, gen : Nat, n : Nat, used : BOOLEAN, revoked : BOOLEAN, old : BOOLEAN]

OAuthTypeOK ==
  /\ AccessTypeOK
  /\ tokens \subseteq TokenRows

(* A grant never forks: of all its codes and refresh tokens one at most is *)
(* still good, and so is one access token, also when two requests redeem   *)
(* the same one at once.                                                   *)
SingleChain ==
  \A d \in Devices : /\ Cardinality({t \in Family(d) : ~t.used}) <= 1
                     /\ Cardinality({t \in Family(d) : t.n > 0 /\ ~t.revoked}) <= 1

(* A token of a grant that has been replaced does nothing to the new one:  *)
(* replaying or revoking it, even by a request already under way, leaves   *)
(* the connection and its session alone.                                   *)
OldFamilyHarmless ==
  [][\A c \in Calls :
       (/\ call[c].op \in {"oauth_token", "oauth_revoke", "oauth_access"}
        /\ call'[c] = Idle
        /\ dev[call[c].dev].gen # call[c].gen)
       => UNCHANGED <<dev, sess>>]_oauthVars
=============================================================================
