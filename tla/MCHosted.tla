------------------------------ MODULE MCHosted ------------------------------
(* The hosted service: who may act in a workspace, and how one is paid for *)
(* with a provider whose answers get lost or come late.  A behaviour       *)
(* exercises one part.                                                     *)
EXTENDS HostedOAuth, HostedBilling, TLC

CONSTANTS w1, w2, u1, u2, c1, c2, d1, d2, s1, s2, q1, q2

VARIABLE part

hostedVars == <<oauthVars, billingVars, part>>

(* w1 is open: u1 owns it and u2 is an admin.                              *)
HostedInit ==
  /\ part \in {"accounts", "access", "oauth", "checkout", "deliveries"}
  /\ ws = [w \in Workspaces |-> IF w = w1 THEN "open" ELSE "none"]
  /\ hosting = [w \in Workspaces |-> IF w = w1 THEN [by |-> u1, on |-> "trial"]
                                               ELSE [by |-> Nothing, on |-> "inactive"]]
  /\ trialOf = [u \in Users |-> IF u = u1 THEN "running" ELSE "none"]
  /\ role = [w \in Workspaces |-> [u \in Users |->
               IF w = w2 THEN "none" ELSE IF u = u1 THEN "owner" ELSE "admin"]]
  /\ invite = [i \in Invites |-> Nothing]
  /\ dev = [d \in Devices |-> Nothing]
  /\ sess = [s \in Sessions |-> Nothing]
  /\ approval = [p \in Approvals |-> [status |-> "none", cred |-> Nothing]]
  /\ call = [c \in Calls |-> Idle]
  /\ tokens = {}
  /\ BillingInit(1)

(* "accounts" has no connections and nobody pauses; what pays for a        *)
(* workspace does not change once there is an invitation. In "access" w2   *)
(* is never created, u1 stays the owner of w1 and u2 may be removed, one   *)
(* request is in flight at a time, u2 has the connections, numbered as     *)
(* they come.                                                              *)
Accounts ==
  /\ dev = [d \in Devices |-> Nothing]
  /\ \A p \in Approvals : approval[p].status = "none"
  /\ \A w \in Workspaces : /\ ws[w] # "paused"
                          /\ hosting[w].on = "paid" => w = w1 /\ call = [c \in Calls |-> Idle]
  /\ (\E i \in Invites : invite[i] # Nothing) =>
       /\ \A w \in Workspaces : hosting[w].on # "paid"
       /\ \A u \in Users : trialOf[u] # "over"
  /\ call[c2].op # "accept" /\ (call[c2].op # "idle" => call[c1].op # "idle")

Access ==
  /\ \A p \in Approvals \ Pairings : approval[p].status = "none"
  /\ ws[w2] = "none"
  /\ call[c2] = Idle /\ call[c1].op \in {"idle", "start", "revoke"}
  /\ invite = [i \in Invites |-> Nothing]
  /\ role[w1][u2] \in {"none", "admin"}
  /\ trialOf[u1] = "running" /\ (ws[w1] # "gone" => hosting[w1].on = "trial")
  /\ dev[d2] # Nothing => dev[d1] # Nothing
  /\ \A d \in Enrolled : dev[d].user = u2
  /\ sess[s2] # Nothing => sess[s1] # Nothing

(* In "oauth" u2 has one connection, an application's, that u1 may revoke  *)
(* and that u2 reconnects.                                                 *)
OAuth ==
  /\ ws[w2] = "none" /\ ws[w1] = "open" /\ hosting[w1].on = "trial"
  /\ dev[d2] = Nothing /\ sess[s2] = Nothing
  /\ \A d \in Enrolled : dev[d].kind = "mcp" /\ dev[d].user = u2
  /\ invite = [i \in Invites |-> Nothing]
  /\ role[w1][u2] \in {"none", "admin"} /\ role[w1][u1] = "owner"
  /\ \A c \in Calls : call[c].op \in {"idle", "oauth_token", "oauth_revoke", "oauth_access"}
  /\ call[c2].op \in {"idle", "oauth_token"}
  /\ \A p \in Pairings : approval[p].status = "none"
  /\ approval[q1].status = "dropped" => dev[d1] # Nothing /\ dev[d1].status = "deleted"
  /\ approval[q2].status # "none" => approval[q1].status \in {"approved", "dropped"}
  /\ Cardinality({t \in tokens : t.old}) <= 1

(* In "checkout" nothing is delivered, the clock stands still during an    *)
(* operation, the first plan is monthly, and the provider changes a        *)
(* subscription or loses an answer twice in all; "deliveries" buys once    *)
(* and nothing fails.                                                      *)
Checkout ==
  /\ op # NoOp => UNCHANGED hour
  /\ changes' + failures' <= 2
  /\ billing'.attempts # <<>> => billing'.attempts[1].interval = "month"
  /\ phase = "gone" => UNCHANGED changes
  /\ UNCHANGED usage

Deliveries ==
  /\ failures' = 0 /\ late' = {} /\ Len(billing'.attempts) < 2 /\ phase' = "open"
  /\ op # NoOp => UNCHANGED <<usage, hour>>
  /\ op' # NoOp => op'.interval # "year" /\ op'.kind # "cancel"

HostedNext ==
  /\ UNCHANGED part
  /\ \/ /\ part \in {"accounts", "access", "oauth"}
        /\ OAuthNext
        /\ part = "accounts" => Accounts'
        /\ part = "access" => Access'
        /\ part = "oauth" => OAuth'
        /\ UNCHANGED billingVars
     \/ /\ part \in {"checkout", "deliveries"}
        /\ BillingNext
        /\ part = "checkout" => Checkout
        /\ part = "deliveries" => Deliveries
        /\ UNCHANGED oauthVars

HostedSpec == HostedInit /\ [][HostedNext]_hostedVars /\ BillingFairness
=============================================================================
