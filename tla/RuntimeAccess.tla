---------------------------- MODULE RuntimeAccess ----------------------------
(***************************************************************************)
(* Runtime access of one workspace (runtime/credentials.rs, repository.rs, *)
(* broker.rs): one-time bootstraps become sessions, a session is refreshed *)
(* or revoked, and its access credential is exchanged for a GitHub         *)
(* installation token that the broker caches and leases.  An exchange      *)
(* captures the generations of the workspace and of the connection, waits  *)
(* for GitHub, and compares them again when it records the lease.          *)
(***************************************************************************)
EXTENDS Integers, FiniteSets

CONSTANTS Bootstraps, \* bound: 1..n, in order of issue
          Sessions,   \* bound: 1..n, access and refresh credential pairs
          Tokens,     \* bound: 1..n, installation tokens GitHub mints
          Exchanges,  \* concurrent requests for a token
          Clients,    \* concurrent refreshes
          MaxGen      \* bound: credential_generation

VARIABLES boot,     \* workspace_bootstrap_credentials
          ws,       \* the workspace and connection columns that authorize
          session,  \* runtime_credentials; a pair lives and dies together
          refresher, \* the session each client presents, once authenticated
          revoker,  \* progress of revoke, a sequence of three statements
          torn,     \* history: a revoke died between its statements
          token,    \* what became of each token GitHub minted
          lease,    \* credential_leases, by the token they record
          exch,     \* exchanges in flight
          cache     \* the single-flight shard: its holder and its entry

vars == <<boot, ws, session, refresher, revoker, torn, token, lease, exch, cache>>

Gens == 1..MaxGen
NoToken == 0
NoSession == [st |-> "none", gen |-> 1, from |-> <<"none", 0>>]
NoLease == [st |-> "none", gen |-> 1, connGen |-> 1]
NoExchange == [step |-> "idle", by |-> 1, gen |-> 1, connGen |-> 1, token |-> NoToken,
               existing |-> FALSE]
NoEntry == [by |-> 0, gen |-> 1, connGen |-> 1, token |-> NoToken]

\* The bounded secrets a session can be minted from.
Origins == {<<"none", 0>>} \cup ({"bootstrap"} \X Bootstraps) \cup ({"refresh"} \X Sessions)
RuntimeCredential == [st : {"none", "live", "revoked"}, gen : Gens, from : Origins]
CredentialLease == [st : {"none", "live", "revoked"}, gen : Gens, connGen : 1..2]
RuntimeScope == [gen : Gens, connGen : 1..2, connected : BOOLEAN, running : BOOLEAN,
                 registered : BOOLEAN]
BrokerKey == [by : {0} \cup Sessions, gen : Gens, connGen : 1..2, token : {NoToken} \cup Tokens]

Init == /\ boot = [b \in Bootstraps |-> "none"]
        /\ ws = [gen |-> 1, connGen |-> 1, connected |-> TRUE, running |-> TRUE,
                 registered |-> FALSE]
        /\ session = [s \in Sessions |-> NoSession]
        /\ refresher = [c \in Clients |-> 0]
        /\ revoker = "idle" /\ torn = FALSE
        /\ token = [t \in Tokens |-> "none"]
        /\ lease = [t \in Tokens |-> NoLease]
        /\ exch = [e \in Exchanges |-> NoExchange]
        /\ cache = [holder |-> "none", entry |-> NoEntry]

--------------------------------------------------------------------------
(* Bootstraps and sessions. *)

Unissued == {b \in Bootstraps : boot[b] = "none"}
Free(rows, ids) == {i \in ids : rows[i].st = "none" /\ \A j \in ids : j < i => rows[j].st # "none"}

\* Issuing a bootstrap revokes the live one and leaves sessions alone.
insert_bootstrap ==
    /\ \E b \in Unissued :
         /\ \A c \in Unissued : b <= c
         /\ boot' = [c \in Bootstraps |-> IF c = b THEN "live"
                                          ELSE IF boot[c] = "live" THEN "revoked" ELSE boot[c]]
    /\ UNCHANGED <<ws, session, refresher, revoker, torn, token, lease, exch, cache>>

\* Mutant: the bootstrap row is read without being consumed.
BootstrapReusable(b) ==
    /\ boot[b] = "live" /\ ws.running
    /\ \E s \in Free(session, Sessions) :
         session' = [session EXCEPT ![s] = [st |-> "live", gen |-> ws.gen, from |-> <<"bootstrap", b>>]]
    /\ ws' = [ws EXCEPT !.registered = TRUE]
    /\ UNCHANGED <<boot, refresher, revoker, torn, token, lease, exch, cache>>

\* One transaction: the bootstrap is consumed and the first pair inserted at the
\* workspace's current generation.
consume_bootstrap_and_insert_session(b) ==
    /\ boot[b] = "live" /\ ws.running
    /\ boot' = [boot EXCEPT ![b] = "consumed"]
    /\ \E s \in Free(session, Sessions) :
         session' = [session EXCEPT ![s] = [st |-> "live", gen |-> ws.gen, from |-> <<"bootstrap", b>>]]
    /\ ws' = [ws EXCEPT !.registered = TRUE]
    /\ UNCHANGED <<refresher, revoker, torn, token, lease, exch, cache>>

\* authenticate_for_audience: unrevoked, of the current generation, active scope.
Authenticates(s) ==
    /\ session[s].st = "live" /\ session[s].gen = ws.gen
    /\ ws.connected /\ ws.running

refresh_session(c, s) ==
    /\ refresher[c] = 0
    /\ Authenticates(s)
    /\ refresher' = [refresher EXCEPT ![c] = s]
    /\ UNCHANGED <<boot, ws, session, revoker, torn, token, lease, exch, cache>>

\* Mutant: the rotation does not recheck the refresh credential it was shown.
RotatesAnyway(s) == TRUE

\* The condition of the generation update: the presented credential is unrevoked
\* and of the workspace's generation at that instant.
Presented(s) == session[s].st = "live" /\ session[s].gen = ws.gen

Revoked(rows) == [i \in DOMAIN rows |->
                    IF rows[i].st = "live" THEN [rows[i] EXCEPT !.st = "revoked"] ELSE rows[i]]

\* One transaction: next generation, old credentials and leases revoked, new pair.
rotate_credential_pair(c) ==
    /\ refresher[c] # 0 /\ ws.gen < MaxGen
    /\ refresher' = [refresher EXCEPT ![c] = 0]
    /\ IF Presented(refresher[c])
       THEN /\ \E s \in Free(session, Sessions) :
                 session' = [Revoked(session) EXCEPT
                               ![s] = [st |-> "live", gen |-> ws.gen + 1, from |-> <<"refresh", refresher[c]>>]]
            /\ ws' = [ws EXCEPT !.gen = @ + 1]
            /\ lease' = Revoked(lease)
            /\ torn' = FALSE
       ELSE UNCHANGED <<session, ws, lease, torn>>
    /\ UNCHANGED <<boot, revoker, token, exch, cache>>

--------------------------------------------------------------------------
(* Revocation: on the workspace's own request, or when it is stopped. *)

bump_workspace_generation ==
    /\ revoker = "idle" /\ ws.gen < MaxGen
    /\ \E stop \in BOOLEAN : ws' = [ws EXCEPT !.gen = @ + 1, !.running = @ /\ ~stop]
    /\ revoker' = "bumped"
    /\ UNCHANGED <<boot, session, refresher, torn, token, lease, exch, cache>>

revoke_workspace_credentials ==
    /\ revoker = "bumped"
    /\ session' = Revoked(session)
    /\ revoker' = "credentials"
    /\ UNCHANGED <<boot, ws, refresher, torn, token, lease, exch, cache>>

revoke_leases_for_workspace ==
    /\ revoker = "credentials"
    /\ lease' = Revoked(lease)
    /\ revoker' = "idle"
    /\ UNCHANGED <<boot, ws, session, refresher, torn, token, exch, cache>>

\* The process dies between two statements of revoke.
RevokeDies ==
    /\ revoker # "idle" /\ ~torn
    /\ revoker' = "idle" /\ torn' = TRUE
    /\ UNCHANGED <<boot, ws, session, refresher, token, lease, exch, cache>>

\* The connection is suspended: its generation is bumped (ConnectionAccess).
ConnectionSuspended ==
    /\ ws.connected
    /\ ws' = [ws EXCEPT !.connected = FALSE, !.connGen = 2]
    /\ UNCHANGED <<boot, session, refresher, revoker, torn, token, lease, exch, cache>>

--------------------------------------------------------------------------
(* The broker. *)

\* The request is authenticated and its generations captured.
validate_resource_state(e, s) ==
    /\ exch[e].step = "idle"
    /\ Authenticates(s) /\ ws.registered
    /\ exch' = [exch EXCEPT ![e] = [step |-> "scoped", by |-> s, gen |-> ws.gen,
                                    connGen |-> ws.connGen, token |-> NoToken, existing |-> FALSE]]
    /\ UNCHANGED <<boot, ws, session, refresher, revoker, torn, token, lease, cache>>

Key(x) == [by |-> x.by, gen |-> x.gen, connGen |-> x.connGen]
SameKey(e) == /\ cache.entry.token # NoToken
              /\ Key(cache.entry) = Key(exch[e])

\* The shard's mutex, then the cached token of the same key, unless it is about
\* to expire, or a new one from GitHub; a GitHub error leaves the entry alone.
exchange(e) ==
    /\ exch[e].step = "scoped" /\ cache.holder = "none"
    /\ \/ /\ SameKey(e)
          /\ cache' = [cache EXCEPT !.holder = e]
          /\ exch' = [exch EXCEPT ![e].step = "token", ![e].token = cache.entry.token,
                                  ![e].existing = TRUE]
          /\ UNCHANGED token
       \/ \E t \in Tokens :
          /\ token[t] = "none" /\ \A u \in Tokens : u < t => token[u] # "none"
          /\ cache' = [cache EXCEPT !.holder = e]
          /\ token' = [token EXCEPT ![t] = "minted"]
          /\ exch' = [exch EXCEPT ![e].step = "token", ![e].token = t]
       \/ /\ exch' = [exch EXCEPT ![e] = NoExchange]
          /\ UNCHANGED <<cache, token>>
    /\ UNCHANGED <<boot, ws, session, refresher, revoker, torn, lease>>

Entry(e) == [by |-> exch[e].by, gen |-> exch[e].gen, connGen |-> exch[e].connGen,
             token |-> exch[e].token]

\* Mutant: the lease is recorded without comparing the captured generations.
AuthorizedWhenAsked(e) == exch[e].existing => lease[exch[e].token].st = "live"

\* record_authorized_lease: under the row locks, the captured generations are
\* current, the credential unrevoked, the scope active, and a cached token's
\* lease unrevoked.
Authorized(e) ==
    LET x == exch[e] IN
    /\ ws.gen = x.gen /\ ws.connGen = x.connGen
    /\ session[x.by].st = "live" /\ session[x.by].gen = x.gen
    /\ ws.connected /\ ws.running
    /\ x.existing => lease[x.token].st = "live"

\* The lease is committed, the entry cached and the token returned.
record_authorized_lease(e) ==
    /\ exch[e].step = "token" /\ Authorized(e)
    /\ lease' = IF exch[e].existing THEN lease
                ELSE [lease EXCEPT ![exch[e].token] =
                        [st |-> "live", gen |-> exch[e].gen, connGen |-> exch[e].connGen]]
    /\ token' = [token EXCEPT ![exch[e].token] = "delivered"]
    /\ cache' = [holder |-> "none", entry |-> Entry(e)]
    /\ exch' = [exch EXCEPT ![e] = NoExchange]
    /\ UNCHANGED <<boot, ws, session, refresher, revoker, torn>>

\* Mutant: the entry is cached before the lease is recorded.
CachedEarly(e) == Entry(e)

\* A failed request empties the shard, whoever filled it.
ClearedEntry(e) == NoEntry

\* Mutant: a failure revokes whatever token the request holds.
CleansUp(e) == TRUE

\* Only a token minted by this request is revoked.
MintedHere(e) == ~exch[e].existing

\* Authorization changed, GitHub's token does not fit the request, or the audit
\* event cannot be written after the lease is committed.
exchange_fails(e) ==
    /\ exch[e].step = "token"
    /\ \E recorded \in {FALSE, Authorized(e)} :
         lease' = IF ~recorded \/ exch[e].existing THEN lease
                  ELSE [lease EXCEPT ![exch[e].token] =
                          [st |-> "live", gen |-> exch[e].gen, connGen |-> exch[e].connGen]]
    /\ cache' = [holder |-> "none", entry |-> ClearedEntry(e)]
    /\ token' = IF MintedHere(e) THEN [token EXCEPT ![exch[e].token] = "revoked"] ELSE token
    /\ exch' = [exch EXCEPT ![e] = NoExchange]
    /\ UNCHANGED <<boot, ws, session, refresher, revoker, torn>>

Next == \/ insert_bootstrap
        \/ \E b \in Bootstraps : consume_bootstrap_and_insert_session(b)
        \/ \E c \in Clients : (\E s \in Sessions : refresh_session(c, s)) \/ rotate_credential_pair(c)
        \/ bump_workspace_generation \/ revoke_workspace_credentials
        \/ revoke_leases_for_workspace \/ RevokeDies \/ ConnectionSuspended
        \/ \E e \in Exchanges : \/ \E s \in Sessions : validate_resource_state(e, s)
                                \/ exchange(e) \/ record_authorized_lease(e) \/ exchange_fails(e)

Spec == Init /\ [][Next]_vars

--------------------------------------------------------------------------
(* Properties. *)

\* The rows, tokens and requests have their types, and the shard has one holder.
TypeOK ==
    /\ boot \in [Bootstraps -> {"none", "live", "consumed", "revoked"}]
    /\ ws \in RuntimeScope
    /\ session \in [Sessions -> RuntimeCredential]
    /\ refresher \in [Clients -> {0} \cup Sessions]
    /\ revoker \in {"idle", "bumped", "credentials"} /\ torn \in BOOLEAN
    /\ token \in [Tokens -> {"none", "minted", "delivered", "revoked"}]
    /\ lease \in [Tokens -> CredentialLease]
    /\ \A e \in Exchanges : (exch[e].step = "token") <=> (cache.holder = e)
    /\ cache.entry \in BrokerKey

\* Once a revoke or a refresh is over, no unrevoked credential or lease of an
\* earlier generation remains: none is recorded behind its back by an exchange
\* or a refresh that was authenticated before it (rotate_credential_pair,
\* record_authorized_lease, revoke).  A revoke that died on the way leaves some,
\* all of an earlier generation.
RevocationReachesAll ==
    (revoker = "idle" /\ ~torn) =>
       /\ \A s \in Sessions : session[s].st = "live" => session[s].gen = ws.gen
       /\ \A t \in Tokens : lease[t].st = "live" => lease[t].gen = ws.gen

\* One bootstrap and one refresh credential mint one session, however many
\* requests present them at the same time.
OneSessionPerSecret ==
    \A r, s \in Sessions :
        (session[r].st # "none" /\ session[r].from = session[s].from) => r = s

\* The broker never serves a token from its cache that it has revoked at GitHub.
CacheHoldsNoRevokedToken ==
    /\ cache.entry.token # NoToken => token[cache.entry.token] = "delivered"
    /\ \A e \in Exchanges : exch[e].step = "token" => token[exch[e].token] # "revoked"

\* A token handed to one caller is not revoked because the request of another
\* fails (broker.rs: "a failure here must not interrupt their ongoing GitHub work").
DeliveredTokensStayUsable ==
    \A t \in Tokens : token[t] = "delivered" => token'[t] = "delivered"
=============================================================================
