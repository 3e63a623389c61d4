---------------------------- MODULE CliSessions ----------------------------
(***************************************************************************)
(* How the command line signs in and stays signed in (auth/device.rs,      *)
(* auth/repository.rs, routes/device.rs, routes/auth.rs): a device request *)
(* is approved in a browser session that is freshly authenticated, a poll  *)
(* delivers one session, and the session's refresh credential rotates with *)
(* detection of reuse.  Every transaction of the manager is a step, or two *)
(* where another one can come between its locks.  The clock is the         *)
(* database's, in ticks; a client may hold any credential it was ever      *)
(* given, because answers get lost.  No code changes users.status, so the  *)
(* user stays active.                                                      *)
(***************************************************************************)
EXTENDS Integers, FiniteSets

CONSTANTS Refreshers,          \* refresh requests in flight
          VERIFY_LIMIT,        \* verification attempts a peer has in a window
          RECENT_AUTH_WINDOW, DEVICE_LIFETIME, ACCESS_LIFETIME, REFRESH_LIFETIME,
          MaxClock, MaxGen, MaxSignIns   \* bounds

VARIABLES clock,
          web,        \* the browser session: its number, sign-in time, and whether it lives
          form,       \* the session whose CSRF token the approval page carries, or 0
          request,    \* the cli_login_requests row
          approver,   \* the approval in flight
          cli,        \* the sessions row of the command line
          history,    \* refresh_history: the consumed refresh credentials
          rotator,
          leaver,     \* the logout in flight
          ledger      \* the rate_limit_ledger row of the window, and the attempts admitted

vars == <<clock, web, form, request, approver, cli, history, rotator, leaver, ledger>>

Times == 0..(MaxClock + REFRESH_LIFETIME + ACCESS_LIFETIME)
Least(a, b) == IF a < b THEN a ELSE b
Greatest(a, b) == IF a < b THEN b ELSE a

Init == /\ clock = 0
        /\ web = [n |-> 1, at |-> 0, live |-> TRUE]
        /\ form = 0
        /\ request = [status |-> "none", expires |-> 0, at |-> 0]
        /\ approver = [stage |-> "idle", at |-> 0]
        /\ cli = [made |-> 0, count |-> 0, gen |-> 0, access |-> 0, refresh |-> 0,
                  revoked |-> FALSE, at |-> 0]
        /\ history = {}
        /\ rotator = [r \in Refreshers |-> [stage |-> "idle", tok |-> 0, got |-> FALSE]]
        /\ leaver = "idle"
        /\ ledger = [count |-> 0, admitted |-> 0]

\* A new window starts with an empty ledger row.
Tick == /\ clock < MaxClock
        /\ clock' = clock + 1
        /\ ledger' = [count |-> 0, admitted |-> 0]
        /\ UNCHANGED <<web, form, request, approver, cli, history, rotator, leaver>>

\* A sign-in through GitHub opens another browser session and records fresh authentication.
SignIn == /\ web.n < MaxSignIns
          /\ web' = [n |-> web.n + 1, at |-> clock, live |-> TRUE]
          /\ UNCHANGED <<clock, form, request, approver, cli, history, rotator, leaver, ledger>>

SignOut == /\ web.live
           /\ web' = [web EXCEPT !.live = FALSE]
           /\ UNCHANGED <<clock, form, request, approver, cli, history, rotator, leaver, ledger>>

has_recent_auth(at) == at + RECENT_AUTH_WINDOW > clock

----------------------------------------------------------------------------
(* The device request.                                                     *)

start == /\ request.status = "none"
         /\ request' = [status |-> "pending", expires |-> clock + DEVICE_LIFETIME, at |-> 0]
         /\ UNCHANGED <<clock, web, form, approver, cli, history, rotator, leaver, ledger>>

\* The page carries the token of the session that looks at it, and approves nothing.
device_verify_page ==
    /\ web.live /\ has_recent_auth(web.at) /\ form # web.n
    /\ form' = web.n
    /\ UNCHANGED <<clock, web, request, approver, cli, history, rotator, leaver, ledger>>

\* Mutant: the count saturates at the limit itself.
CountToLimit(count) == Greatest(count, Least(count + 1, VERIFY_LIMIT))

\* The count after one more attempt: it saturates just above the limit.
Counted(count) == Greatest(count, Least(count + 1, VERIFY_LIMIT + 1))

allow(count) == Counted(count) <= VERIFY_LIMIT

\* csrf::validate_session, the rate limit, the session, and its authentication time.
device_approve ==
    /\ approver.stage = "idle" /\ form # 0 /\ form = web.n
    /\ ledger' = [count |-> Counted(ledger.count),
                  admitted |-> IF allow(ledger.count)
                               THEN Least(ledger.admitted + 1, VERIFY_LIMIT + 1)
                               ELSE ledger.admitted]
    /\ approver' = IF allow(ledger.count) /\ web.live /\ has_recent_auth(web.at)
                   THEN [stage |-> "read", at |-> web.at] ELSE approver
    /\ UNCHANGED <<clock, web, form, request, cli, history, rotator, leaver>>

\* The code typed in may be another one.
approve_authenticated(right) ==
    /\ approver.stage = "read"
    /\ approver' = [stage |-> "idle", at |-> 0]
    /\ request' = IF right /\ request.status = "pending" /\ request.expires > clock
                  THEN [request EXCEPT !.status = "approved", !.at = approver.at]
                  ELSE request
    /\ UNCHANGED <<clock, web, form, cli, history, rotator, leaver, ledger>>

\* Mutant: the session counts as authenticated when it is delivered.
CreateFresh(at) ==
    [made |-> clock, count |-> Least(cli.count + 1, 2), gen |-> 0,
     access |-> clock + ACCESS_LIFETIME, refresh |-> clock + REFRESH_LIFETIME,
     revoked |-> FALSE, at |-> clock]

\* The session row, with the authentication time of the approval.
create_cli_session_in_tx(at) ==
    [made |-> clock, count |-> Least(cli.count + 1, 2), gen |-> 0,
     access |-> clock + ACCESS_LIFETIME, refresh |-> clock + REFRESH_LIFETIME,
     revoked |-> FALSE, at |-> at]

\* Mutant: a delivered request is not marked.
StaysApproved == request

Consumed == [request EXCEPT !.status = "consumed"]

\* One transaction under the lock of the request's row.  A poll that comes too
\* soon or finds the request pending changes nothing but the time of the last poll.
poll == /\ \/ /\ request.status \in {"pending", "approved"} /\ request.expires <= clock
              /\ request' = [request EXCEPT !.status = "expired"]
              /\ UNCHANGED cli
           \/ /\ request.status = "approved" /\ request.expires > clock
              /\ request' = Consumed
              /\ cli' = create_cli_session_in_tx(request.at)
        /\ UNCHANGED <<clock, web, form, approver, history, rotator, leaver, ledger>>

----------------------------------------------------------------------------
(* Rotation.                                                               *)

\* Mutant: equal tokens are not serialized.
AnyToken(r, tok) == TRUE

\* pg_advisory_xact_lock on the token.
LockFree(r, tok) == \A o \in Refreshers \ {r} :
    rotator[o].stage \in {"checked", "held"} => rotator[o].tok # tok

\* Mutant: the session is read without FOR UPDATE.
NeverLocked == TRUE

RowFree == \A o \in Refreshers : rotator[o].stage # "held"

validate_cli_session == /\ cli.count > 0 /\ ~cli.revoked
                        /\ cli.made + REFRESH_LIFETIME > clock /\ cli.access > clock

Answer(r, got) == [rotator EXCEPT ![r].stage = "answered", ![r].got = got]

\* A credential found in the history revokes the family.
CheckHistory(r, tok) ==
    /\ rotator[r].stage = "idle" /\ cli.count > 0 /\ LockFree(r, tok)
    /\ \/ /\ tok \in history /\ RowFree
          /\ cli' = [cli EXCEPT !.revoked = TRUE]
          /\ rotator' = [rotator EXCEPT ![r] = [stage |-> "answered", tok |-> tok, got |-> FALSE]]
       \/ /\ tok \notin history
          /\ rotator' = [rotator EXCEPT ![r] = [stage |-> "checked", tok |-> tok, got |-> FALSE]]
          /\ UNCHANGED cli
    /\ UNCHANGED <<clock, web, form, request, approver, history, leaver, ledger>>

\* FOR UPDATE: the conditions are those of the row as it is when the lock is granted.
FindSession(r) ==
    /\ rotator[r].stage = "checked" /\ RowFree
    /\ rotator' = IF cli.gen = rotator[r].tok /\ ~cli.revoked
                    THEN [rotator EXCEPT ![r].stage = "held"] ELSE Answer(r, FALSE)
    /\ UNCHANGED <<clock, web, form, request, approver, cli, history, leaver, ledger>>

FamilyMax == cli.made + REFRESH_LIFETIME

\* Mutant: each rotation gives full lifetimes.
RotatedInFull == [cli EXCEPT !.gen = @ + 1, !.access = clock + ACCESS_LIFETIME,
                             !.refresh = clock + REFRESH_LIFETIME]

Rotated == [cli EXCEPT !.gen = @ + 1, !.access = Least(clock + ACCESS_LIFETIME, FamilyMax),
                       !.refresh = Least(clock + REFRESH_LIFETIME, FamilyMax)]

refresh_cli_session(r) ==
    /\ rotator[r].stage = "held"
    /\ IF cli.refresh <= clock \/ clock >= FamilyMax \/ cli.gen = MaxGen
       THEN rotator' = Answer(r, FALSE) /\ UNCHANGED <<cli, history>>
       ELSE /\ history' = history \cup {rotator[r].tok}
            /\ cli' = Rotated
            /\ rotator' = Answer(r, TRUE)
    /\ UNCHANGED <<clock, web, form, request, approver, leaver, ledger>>

\* The bearer is validated first, the session revoked by its id afterwards.
logout == /\ leaver = "idle" /\ validate_cli_session
          /\ leaver' = "validated"
          /\ UNCHANGED <<clock, web, form, request, approver, cli, history, rotator, ledger>>

revoke_session == /\ leaver = "validated" /\ RowFree
                  /\ leaver' = "done"
                  /\ cli' = [cli EXCEPT !.revoked = TRUE]
                  /\ UNCHANGED <<clock, web, form, request, approver, history, rotator, ledger>>

Next == \/ Tick \/ SignIn \/ SignOut
        \/ start \/ device_verify_page \/ device_approve
        \/ \E right \in BOOLEAN : approve_authenticated(right)
        \/ poll \/ logout \/ revoke_session
        \/ \E r \in Refreshers : \/ \E tok \in 0..cli.gen : CheckHistory(r, tok)
                                 \/ FindSession(r) \/ refresh_cli_session(r)

Spec == Init /\ [][Next]_vars

----------------------------------------------------------------------------
TypeOK == /\ clock \in 0..MaxClock
          /\ web \in [n : 1..MaxSignIns, at : Times, live : BOOLEAN]
          /\ form \in 0..MaxSignIns
          /\ request \in [status : {"none", "pending", "approved", "consumed", "expired"},
                          expires : Times, at : Times]
          /\ approver \in [stage : {"idle", "read"}, at : Times]
          /\ cli \in [made : Times, count : 0..2, gen : 0..MaxGen, access : Times,
                      refresh : Times, revoked : BOOLEAN, at : Times]
          /\ history \subseteq 0..MaxGen
          /\ rotator \in [Refreshers -> [stage : {"idle", "checked", "held", "answered"},
                                           tok : 0..MaxGen, got : BOOLEAN]]
          /\ leaver \in {"idle", "validated", "done"}
          /\ ledger \in [count : 0..(VERIFY_LIMIT + 1), admitted : 0..(VERIFY_LIMIT + 1)]

(* device.rs:207, "so only one poll delivers": however often the command   *)
(* line polls, an approval yields one session.                             *)
OneDelivery == cli.count <= 1

(* A delivered session counts as freshly authenticated (the condition of   *)
(* an ownership transfer or a deletion) only while a person has signed in  *)
(* within the window: approving late or polling late gains nothing.        *)
RecentAuthIsHonest == cli.count > 0 /\ has_recent_auth(cli.at) => has_recent_auth(web.at)

(* repository.rs:537, "the losing concurrent rotation must see the         *)
(* winner's consumed credential": a refresh that was refused although its  *)
(* credential had been rotated away has revoked the session.               *)
ReuseRevokes == \A r \in Refreshers :
    rotator[r].stage = "answered" /\ ~rotator[r].got /\ rotator[r].tok \in history
        => cli.revoked

(* repository.rs:614: no rotation promises more than the thirty days of    *)
(* the family.                                                             *)
FamilyNeverExtended == cli.access <= FamilyMax /\ cli.refresh <= FamilyMax

(* rate_limit.rs:54: in one window a peer has at most the limit of         *)
(* verification attempts, in spite of the count that saturates.            *)
AttemptsBounded == ledger.admitted <= VERIFY_LIMIT

(* A refresh that crosses a logout or a revocation hands out nothing after *)
(* it.                                                                     *)
NothingIssuedAfterLogout ==
    \A r \in Refreshers : rotator'[r].got /\ ~rotator[r].got => ~cli.revoked
=============================================================================
