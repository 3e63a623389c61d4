----------------------------- MODULE CoderLinks -----------------------------
(***************************************************************************)
(* Linking a user to a Coder account and using the link                    *)
(* (openflows-manager/src/routes/coder_identity.rs over the AWS adapter of *)
(* secrets.rs): the browser flow with its one-time attempt, the exchange of*)
(* the code, the refresh credential in the secret provider and the row of  *)
(* the link, and user_access_token, which spends the stored credential and *)
(* stores the one Coder returns.  No transaction spans Coder, provider and *)
(* row; callbacks and refreshes interleave and may end at any step.  The   *)
(* Coder side is modelled by what the code relies on: an exchange issues a *)
(* new refresh token of the account, a refresh replaces the token it is    *)
(* given.                                                                  *)
(***************************************************************************)
EXTENDS Integers, Sequences, FiniteSets

CONSTANTS Users, Accounts,
          Flows,                 \* callbacks
          MaxTokens, MaxFaults   \* bounds

VARIABLES linkAttempt,    \* users with a row in coder_link_attempts
          link,           \* coder_user_links
          vault,          \* the secret coder-user-refresh-{user}: 0 none, -1 scheduled for deletion
          tokenOf,        \* account of every refresh token issued, in order
          live,           \* refresh tokens Coder accepts
          flow,           \* callback handlers
          renewal,        \* user_access_token, per user
          crossedFlows,   \* history: users two of whose callbacks overlapped
          spentLost,      \* history: users whose renewed token was lost
          linkFaults

vars == <<linkAttempt, link, vault, tokenOf, live, flow, renewal, crossedFlows, spentLost, linkFaults>>

NoAccount == "none"
NoLink == [account |-> NoAccount, ref |-> FALSE]
Idle == [stage |-> "idle", user |-> "none", account |-> NoAccount, token |-> 0, hadRef |-> FALSE]

\* A link from before migration 0017 has no refresh credential; some user may
\* have one.
LegacyLink == LET w == CHOOSE w \in Users : TRUE  a == CHOOSE a \in Accounts : TRUE
              IN  [u \in Users |-> IF u = w THEN [account |-> a, ref |-> FALSE] ELSE NoLink]

Init == /\ linkAttempt = {}
        /\ link \in {[u \in Users |-> NoLink], LegacyLink}
        /\ vault = [u \in Users |-> 0]
        /\ tokenOf = <<>> /\ live = {}
        /\ flow = [c \in Flows |-> Idle]
        /\ renewal = [u \in Users |-> [stage |-> "idle", token |-> 0]]
        /\ crossedFlows = {} /\ spentLost = {} /\ linkFaults = 0

Issued == Len(tokenOf)
Issue(account) == /\ Issued < MaxTokens /\ tokenOf' = Append(tokenOf, account)

----------------------------------------------------------------------------
(* The secret provider: a deleted name stays taken for its recovery window.*)
MayPut(u) == vault[u] = 0
AlreadyExists(u) == vault[u] > 0
MayReplace(u) == vault[u] > 0
get(u) == vault[u]
delete(u) == vault' = [vault EXCEPT ![u] = IF @ > 0 THEN -1 ELSE @]

RecoveryEnds(u) ==
    /\ vault[u] = -1 /\ vault' = [vault EXCEPT ![u] = 0]
    /\ UNCHANGED <<linkAttempt, link, tokenOf, live, flow, renewal, crossedFlows, spentLost, linkFaults>>

----------------------------------------------------------------------------
(* The browser flow.                                                       *)

\* start replaces the attempts of its user.
start(u) ==
    /\ Issued < MaxTokens
    /\ u \notin linkAttempt /\ linkAttempt' = linkAttempt \cup {u}
    /\ UNCHANGED <<link, vault, tokenOf, live, flow, renewal, crossedFlows, spentLost, linkFaults>>

Other(c, u) == \E d \in Flows \ {c} : flow[d].stage # "idle" /\ flow[d].user = u

\* The callback takes the attempt; the browser comes back from the account the
\* person signed in to.  (Handlers are alike: the first idle one takes it.)
TakeAttempt(c, u) ==
    /\ Issued < MaxTokens /\ \A d \in Flows : d < c => flow[d].stage # "idle"
    /\ flow[c].stage = "idle" /\ u \in linkAttempt /\ linkAttempt' = linkAttempt \ {u}
    /\ \E a \in Accounts : flow' = [flow EXCEPT ![c] = [Idle EXCEPT !.stage = "exchange", !.user = u, !.account = a]]
    /\ crossedFlows' = IF Other(c, u) THEN crossedFlows \cup {u} ELSE crossedFlows
    /\ UNCHANGED <<link, vault, tokenOf, live, renewal, spentLost, linkFaults>>

End(c) == flow' = [flow EXCEPT ![c] = Idle]

\* Code for tokens, and the identity of their owner, who must be active, a GitHub
\* account and no service account: refused, or the token is at hand.
ExchangeCode(c) ==
    /\ flow[c].stage = "exchange"
    /\ \/ End(c) /\ UNCHANGED <<tokenOf, live>>
       \/ /\ Issue(flow[c].account) /\ live' = live \cup {Issued + 1}
          /\ flow' = [flow EXCEPT ![c].stage = "check", ![c].token = Issued + 1]
    /\ UNCHANGED <<linkAttempt, link, vault, renewal, crossedFlows, spentLost, linkFaults>>

\* Mutant: the account of an existing link is not compared.
AnyAccount(u, a) == TRUE

SameAccount(u, a) == link[u].account \in {NoAccount, a}

Claimed(u, a) == \E v \in Users \ {u} : link[v].account = a

CheckLink(c) ==
    LET u == flow[c].user  a == flow[c].account IN
    /\ flow[c].stage = "check"
    /\ IF SameAccount(u, a) /\ ~Claimed(u, a)
       THEN flow' = [flow EXCEPT ![c].stage = "secret", ![c].hadRef = link[u].ref]
       ELSE End(c)
    /\ UNCHANGED <<linkAttempt, link, vault, tokenOf, live, renewal, crossedFlows, spentLost, linkFaults>>

\* The credential replaces the one of the link, or is put under the user's name,
\* where an earlier callback may have left one.
StoreCredential(c) ==
    LET u == flow[c].user IN
    /\ flow[c].stage = "secret"
    /\ IF (IF flow[c].hadRef THEN MayReplace(u) ELSE MayPut(u) \/ AlreadyExists(u))
       THEN /\ vault' = [vault EXCEPT ![u] = flow[c].token]
            /\ flow' = [flow EXCEPT ![c].stage = "insert"]
       ELSE End(c) /\ UNCHANGED vault
    /\ UNCHANGED <<linkAttempt, link, tokenOf, live, renewal, crossedFlows, spentLost, linkFaults>>

\* Mutant: the account of another user is not an obstacle.
FreeUser(u, a) == link[u] = NoLink

\* The two unique constraints of coder_user_links.
Insertable(u, a) == link[u] = NoLink /\ ~Claimed(u, a)

\* The row, or the credential of the row of this account, or a conflict.
InsertLink(c) ==
    LET u == flow[c].user  a == flow[c].account IN
    /\ flow[c].stage = "insert"
    /\ IF Insertable(u, a) \/ link[u].account = a
       THEN link' = [link EXCEPT ![u] = [account |-> a, ref |-> TRUE]] /\ End(c)
       ELSE /\ UNCHANGED link
            /\ IF flow[c].hadRef THEN End(c) ELSE flow' = [flow EXCEPT ![c].stage = "undo"]
    /\ UNCHANGED <<linkAttempt, vault, tokenOf, live, renewal, crossedFlows, spentLost, linkFaults>>

\* The credential this callback stored is deleted.
UndoCredential(c) ==
    /\ flow[c].stage = "undo" /\ delete(flow[c].user) /\ End(c)
    /\ UNCHANGED <<linkAttempt, link, tokenOf, live, renewal, crossedFlows, spentLost, linkFaults>>

----------------------------------------------------------------------------
(* user_access_token.                                                      *)
Renewing(u, stage, token) == renewal' = [renewal EXCEPT ![u] = [stage |-> stage, token |-> token]]

ReadCredential(u) ==
    /\ renewal[u].stage = "idle" /\ link[u].ref /\ get(u) > 0
    /\ Renewing(u, "read", get(u))
    /\ UNCHANGED <<linkAttempt, link, vault, tokenOf, live, flow, crossedFlows, spentLost, linkFaults>>

\* Coder replaces the token, or refuses one that it has replaced already.
RenewToken(u) ==
    /\ renewal[u].stage = "read"
    /\ IF renewal[u].token \in live
       THEN /\ Issue(tokenOf[renewal[u].token])
            /\ live' = (live \ {renewal[u].token}) \cup {Issued + 1}
            /\ Renewing(u, "renewed", Issued + 1)
       ELSE Renewing(u, "idle", 0) /\ UNCHANGED <<tokenOf, live>>
    /\ UNCHANGED <<linkAttempt, link, vault, flow, crossedFlows, spentLost, linkFaults>>

\* Mutant: the renewed token is not stored.
KeepsFirst(u) == vault[u]

Renewed(u) == renewal[u].token

\* The renewed token replaces the stored one.
StoreRenewed(u) ==
    /\ renewal[u].stage = "renewed"
    /\ vault' = [vault EXCEPT ![u] = IF MayReplace(u) THEN Renewed(u) ELSE @]
    /\ Renewing(u, "idle", 0)
    /\ UNCHANGED <<linkAttempt, link, tokenOf, live, flow, crossedFlows, spentLost, linkFaults>>

----------------------------------------------------------------------------
(* A handler ends between two of its steps: the manager restarts, or a call*)
(* of it fails or is not answered.                                         *)
Fault == linkFaults < MaxFaults /\ linkFaults' = linkFaults + 1

FlowEnds(c) ==
    /\ Fault /\ flow[c].stage \in {"secret", "insert", "undo"} /\ End(c)
    /\ UNCHANGED <<linkAttempt, link, vault, tokenOf, live, renewal, crossedFlows, spentLost>>

RenewalEnds(u) ==
    /\ Fault /\ renewal[u].stage = "renewed" /\ Renewing(u, "idle", 0)
    /\ spentLost' = spentLost \cup {u}
    /\ UNCHANGED <<linkAttempt, link, vault, tokenOf, live, flow, crossedFlows>>

Next == \/ \E u \in Users : start(u) \/ ReadCredential(u) \/ RenewToken(u) \/ StoreRenewed(u)
                            \/ RenewalEnds(u) \/ RecoveryEnds(u)
        \/ \E c \in Flows : \/ \E u \in Users : TakeAttempt(c, u)
                            \/ ExchangeCode(c) \/ CheckLink(c) \/ StoreCredential(c) \/ InsertLink(c)
                            \/ UndoCredential(c) \/ FlowEnds(c)

Spec == Init /\ [][Next]_vars

----------------------------------------------------------------------------
(* Links name accounts, the provider holds issued tokens.                  *)
TypeOK == /\ \A u \in Users : /\ link[u].account \in Accounts \cup {NoAccount}
                              /\ vault[u] \in -1..Issued
                              /\ renewal[u].token \in 0..Issued
          /\ live \subseteq 1..Issued
          /\ \A c \in Flows : flow[c].token \in 0..Issued

(* One Coder account is linked to one user, however the checks and the     *)
(* insertions of two callbacks interleave (coder_identity.rs:339-354, 401).*)
OneUserPerAccount ==
    \A u, v \in Users : u # v /\ link[u].account # NoAccount => link[u].account # link[v].account

(* The credential a link refers to is stored and belongs to the linked     *)
(* account, unless two callbacks of the user overlapped: the one that loses*)
(* then deletes the credential of the other (coder_identity.rs:412).       *)
CredentialOfAccount ==
    \A u \in Users : link[u].ref /\ u \notin crossedFlows =>
       vault[u] > 0 /\ tokenOf[vault[u]] = link[u].account

(* Coder accepts the stored credential of a link, except while a renewal of*)
(* it is being stored, after a renewal that ended before it was stored, and*)
(* after overlapping callbacks (coder_identity.rs:133-139).                *)
StoredIsAccepted ==
    \A u \in Users : link[u].ref /\ u \notin crossedFlows \cup spentLost /\ renewal[u].stage # "renewed" =>
       vault[u] \in live
=============================================================================
