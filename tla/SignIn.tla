------------------------------- MODULE SignIn -------------------------------
(***************************************************************************)
(* Signing in through GitHub (auth/oauth.rs, auth/repository.rs,           *)
(* routes/auth.rs) and, on a local installation, through GitHub's device   *)
(* flow (routes/local_github.rs).  One person signs in for the first time  *)
(* from several browsers at once; a browser may repeat a callback, with    *)
(* another code, before it sees the answer of the first.  GitHub's         *)
(* exchange is external and may fail.                                      *)
(***************************************************************************)
EXTENDS Integers, FiniteSets

CONSTANTS Logins,      \* login transactions
          Callbacks,   \* requests to /auth/github/callback
          LoginOf,     \* the login each callback carries the state of
          Polls        \* device polls of the local console

VARIABLES loginTx,    \* auth_transactions row of each login
          callback,   \* stage of each request
          holder,     \* the transaction that holds the identity's advisory lock, or "none"
          users,      \* users rows of the person
          identity,   \* whether the identities row exists
          opened,     \* browser sessions created for each login
          saved       \* polls that stored the GitHub credentials

vars == <<loginTx, callback, holder, users, identity, opened, saved>>

Requests == Callbacks \cup Polls

Init == /\ loginTx = [l \in Logins |-> "none"]
        /\ callback = [c \in Requests |-> "idle"]
        /\ holder = "none"
        /\ users = 0 /\ identity = FALSE
        /\ opened = [l \in Logins |-> 0]
        /\ saved = {}

Goes(c, stage) == callback' = [callback EXCEPT ![c] = stage]

\* create_login: the state hash and the sealed verifier, for ten minutes.
start_with_next(l) == /\ loginTx[l] = "none"
                      /\ loginTx' = [loginTx EXCEPT ![l] = "open"]
                      /\ UNCHANGED <<callback, holder, users, identity, opened, saved>>

Expire(l) == /\ loginTx[l] = "open"
             /\ loginTx' = [loginTx EXCEPT ![l] = "expired"]
             /\ UNCHANGED <<callback, holder, users, identity, opened, saved>>

\* Mutant: a consumed transaction is accepted again.
NotExpired(l) == loginTx[l] \in {"open", "consumed"}

Consumable(l) == loginTx[l] = "open"

\* One UPDATE that finds the open row and marks it.
consume_login(c) == LET l == LoginOf[c] IN
    /\ callback[c] = "idle" /\ loginTx[l] # "none"
    /\ IF Consumable(l)
       THEN loginTx' = [loginTx EXCEPT ![l] = "consumed"] /\ Goes(c, "consumed")
       ELSE UNCHANGED loginTx /\ Goes(c, "failed")
    /\ UNCHANGED <<holder, users, identity, opened, saved>>

\* exchange_code and fetch_user, with no database transaction open.
exchange_code(c) == /\ callback[c] = "consumed"
                    /\ Goes(c, "known") \/ Goes(c, "failed")
                    /\ UNCHANGED <<loginTx, holder, users, identity, opened, saved>>

\* GitHub's answer to the device poll; pending and slow_down are reported to the browser.
poll_device_authorization(c) ==
    /\ callback[c] = "idle"
    /\ Goes(c, "known") \/ Goes(c, "failed")
    /\ UNCHANGED <<loginTx, holder, users, identity, opened, saved>>

\* Mutant: the lookup is not serialized.
AlwaysFree == TRUE

\* pg_advisory_xact_lock on the provider and the subject.
IdentityFree == holder = "none"

\* The lookup; a transaction that finds the identity ends with the refresh of its snapshot.
FindIdentity(c) ==
    /\ callback[c] = "known" /\ IdentityFree
    /\ IF identity THEN Goes(c, "user") /\ UNCHANGED holder
                   ELSE Goes(c, "absent") /\ holder' = c
    /\ UNCHANGED <<loginTx, users, identity, opened, saved>>

\* INSERT of the user and of the identity, which is unique by provider and subject.
find_or_create_user(c) ==
    /\ callback[c] = "absent"
    /\ IF identity THEN Goes(c, "conflict") /\ UNCHANGED <<users, identity>>
                   ELSE Goes(c, "user") /\ users' = users + 1 /\ identity' = TRUE
    /\ holder' = "none"
    /\ UNCHANGED <<loginTx, opened, saved>>

\* create_browser_session and record_recent_auth.
create_browser_session(c) ==
    /\ callback[c] = "user"
    /\ IF c \in Polls THEN Goes(c, "signed in") /\ UNCHANGED opened
       ELSE Goes(c, "done") /\ opened' = [opened EXCEPT ![LoginOf[c]] = @ + 1]
    /\ UNCHANGED <<loginTx, holder, users, identity, saved>>

\* save_authorization; the cookie is set only when it succeeds.
SaveAuthorization(c) == /\ callback[c] = "signed in"
                        /\ \/ Goes(c, "done") /\ saved' = saved \cup {c}
                           \/ Goes(c, "failed") /\ UNCHANGED saved
                        /\ UNCHANGED <<loginTx, holder, users, identity, opened>>

Next == \/ \E l \in Logins : start_with_next(l) \/ Expire(l)
        \/ \E c \in Callbacks : consume_login(c) \/ exchange_code(c)
        \/ \E c \in Polls : poll_device_authorization(c) \/ SaveAuthorization(c)
        \/ \E c \in Requests : \/ FindIdentity(c) \/ find_or_create_user(c)
                               \/ create_browser_session(c)

Spec == Init /\ [][Next]_vars

----------------------------------------------------------------------------
TypeOK == /\ loginTx \in [Logins -> {"none", "open", "consumed", "expired"}]
          /\ callback \in [Requests -> {"idle", "consumed", "known", "absent", "user",
                                        "conflict", "signed in", "done", "failed"}]
          /\ holder \in Requests \cup {"none"}
          /\ users \in 0..1 /\ identity \in BOOLEAN
          /\ opened \in [Logins -> 0..Cardinality(Callbacks)]
          /\ saved \subseteq Polls

(* oauth.rs:132, "also rejects expiry/replay": a login opens at most one   *)
(* session, however often and with whichever codes its callback arrives.   *)
OneSessionPerLogin == \A l \in Logins : opened[l] <= 1

(* repository.rs:59, "Serialize even when the identity row does not exist  *)
(* yet": concurrent first sign-ins of one person all end with the same     *)
(* user, and none is refused because another one was creating it.          *)
SignInsAgree == /\ users <= 1
                /\ \A c \in Requests : callback[c] # "conflict"
=============================================================================
