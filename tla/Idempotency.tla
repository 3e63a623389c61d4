---------------------------- MODULE Idempotency ----------------------------
(***************************************************************************)
(* IdempotencyService (idempotency.rs): a mutation and the reference of    *)
(* its result commit under one idempotency key.  Requests run as           *)
(* PostgreSQL transactions over one organization row and the key rows; the *)
(* row locks are modelled because their order is what the code takes care  *)
(* of: FOR UPDATE conflicts with every lock of another transaction, the    *)
(* KEY SHARE of a foreign key only with FOR UPDATE.  A client repeats a    *)
(* request whose answer it lost, and a key expires after 7 days.           *)
(***************************************************************************)
EXTENDS Integers, FiniteSets

CONSTANTS Requests, Orgless, KeyOf, BodyOf,
          Legacy,       \* keys that start with an unfinished legacy row
          MaxExpiries   \* bound: expiries of a key, of one key in a behaviour

VARIABLES keyRow,      \* committed idempotency_keys row of each key
          phase, reply,
          keyLock,    \* the transaction holding each key row, or None
          orgUpdate,  \* the transaction holding the organization FOR UPDATE, or None
          orgShare,   \* the transactions holding it FOR KEY SHARE
          commits     \* history: <<body, expiries so far, request>> of the committed mutations

vars == <<keyRow, phase, reply, keyLock, orgUpdate, orgShare, commits>>

None == "none"
NoRef == <<>>
Keys == {KeyOf[r] : r \in Requests}
Bodies == {BodyOf[r] : r \in Requests}
Refs == Bodies \X (0..MaxExpiries) \X Requests
Scoped(r) == r \notin Orgless

\* hash, response_reference, expires_at > now.
KeyRow == [state : {"absent", "live", "expired"}, hash : Bodies \cup {None},
           ref : Refs \cup {NoRef}, expiries : 0..MaxExpiries]

IdempotencyOutcome == [kind : {"none", "conflict", "new", "replay"}, ref : Refs \cup {NoRef}]

Nothing == [kind |-> "none", ref |-> NoRef]

Init == /\ keyRow = [k \in Keys |->
                    [state |-> IF k \in Legacy THEN "live" ELSE "absent",
                     hash |-> IF k \in Legacy THEN CHOOSE b \in Bodies : TRUE ELSE None,
                     ref |-> NoRef, expiries |-> 0]]
        /\ phase = [r \in Requests |-> "idle"]
        /\ reply = [r \in Requests |-> Nothing]
        /\ keyLock = [k \in Keys |-> None]
        /\ orgUpdate = None /\ orgShare = {}
        /\ commits = [k \in Keys |-> {}]

\* Mutant: the stored hash is not compared.
StoredAnyBody(r) == LET k == keyRow[KeyOf[r]] IN
    IF k.ref = NoRef THEN [kind |-> "conflict", ref |-> NoRef]
    ELSE [kind |-> "replay", ref |-> k.ref]

\* The answer a stored row gives to a request.
Stored(r) == LET k == keyRow[KeyOf[r]] IN
    IF k.hash # BodyOf[r] \/ k.ref = NoRef THEN [kind |-> "conflict", ref |-> NoRef]
    ELSE [kind |-> "replay", ref |-> k.ref]

\* COMMIT or ROLLBACK: every row lock of the transaction goes.
EndTx(r, outcome) ==
    /\ phase' = [phase EXCEPT ![r] = "done"]
    /\ reply' = [reply EXCEPT ![r] = outcome]
    /\ keyLock' = [k \in Keys |-> IF keyLock[k] = r THEN None ELSE keyLock[k]]
    /\ orgUpdate' = IF orgUpdate = r THEN None ELSE orgUpdate
    /\ orgShare' = orgShare \ {r}

\* The read before external work.
replay(r) ==
    /\ phase[r] = "idle" /\ keyRow[KeyOf[r]].state = "live"
    /\ Stored(r).kind = "replay" \/ keyRow[KeyOf[r]].hash # BodyOf[r]
    /\ EndTx(r, Stored(r))
    /\ UNCHANGED <<keyRow, commits>>

Begin(r) == /\ phase[r] = "idle"
            /\ phase' = [phase EXCEPT ![r] = IF Scoped(r) THEN "lock" ELSE "upsert"]
            /\ UNCHANGED <<keyRow, reply, keyLock, orgUpdate, orgShare, commits>>

OrgFreeForUpdate(r) == orgUpdate \in {None, r} /\ orgShare \subseteq {r}

\* Mutant: the transaction starts with the key insert.
NoOrganizationLock(r) ==
    /\ phase[r] = "lock"
    /\ phase' = [phase EXCEPT ![r] = "upsert"]
    /\ UNCHANGED <<keyRow, reply, keyLock, orgUpdate, orgShare, commits>>

\* SELECT id FROM organizations ... FOR UPDATE, before the key insert.
LockOrganization(r) ==
    /\ phase[r] = "lock" /\ OrgFreeForUpdate(r)
    /\ orgUpdate' = r
    /\ phase' = [phase EXCEPT ![r] = "upsert"]
    /\ UNCHANGED <<keyRow, reply, keyLock, orgShare, commits>>

\* Mutant: ON CONFLICT DO UPDATE without the WHERE on expires_at.
AlwaysReplaceable(k) == TRUE

Replaceable(k) == keyRow[k].state \in {"absent", "expired"}

UpsertBlocked(r) == \/ keyLock[KeyOf[r]] \notin {None, r}
                    \/ Scoped(r) /\ orgUpdate \notin {None, r}

InsertKey(r) ==
    LET k == KeyOf[r] IN
    /\ phase[r] = "upsert" /\ ~UpsertBlocked(r)
    /\ Replaceable(k)
    /\ keyLock' = [keyLock EXCEPT ![k] = r]
    /\ orgShare' = IF Scoped(r) THEN orgShare \cup {r} ELSE orgShare
    /\ phase' = [phase EXCEPT ![r] = "mutate"]
    /\ UNCHANGED <<keyRow, reply, orgUpdate, commits>>

\* Not inserted: the stored row answers.
AnswerFromRow(r) ==
    /\ phase[r] = "upsert" /\ ~UpsertBlocked(r)
    /\ ~Replaceable(KeyOf[r])
    /\ EndTx(r, Stored(r))
    /\ UNCHANGED <<keyRow, commits>>

\* The mutation locks the organization it changes.
Mutate(r) ==
    /\ phase[r] = "mutate"
    /\ Scoped(r) => OrgFreeForUpdate(r)
    /\ orgUpdate' = IF Scoped(r) THEN r ELSE orgUpdate
    /\ phase' = [phase EXCEPT ![r] = "commit"]
    /\ UNCHANGED <<keyRow, reply, keyLock, orgShare, commits>>

\* The reference is stored and everything commits.
Commit(r) ==
    LET k == KeyOf[r]  ref == <<BodyOf[r], keyRow[k].expiries, r>> IN
    /\ phase[r] = "commit"
    /\ keyRow' = [keyRow EXCEPT ![k].state = "live", ![k].hash = BodyOf[r], ![k].ref = ref]
    /\ commits' = [commits EXCEPT ![k] = @ \cup {ref}]
    /\ EndTx(r, [kind |-> "new", ref |-> ref])

\* The mutation fails, returns an empty reference, or the connection breaks.
Rollback(r) == /\ phase[r] \in {"lock", "upsert", "mutate", "commit"}
               /\ EndTx(r, Nothing)
               /\ UNCHANGED <<keyRow, commits>>

\* The client lost the answer, or tries again.
Retry(r) == /\ phase[r] = "done"
            /\ phase' = [phase EXCEPT ![r] = "idle"]
            /\ reply' = [reply EXCEPT ![r] = Nothing]
            /\ UNCHANGED <<keyRow, keyLock, orgUpdate, orgShare, commits>>

Expire(k) == /\ keyRow[k].state = "live" /\ keyRow[k].expiries < MaxExpiries
             /\ \A j \in Keys \ {k} : keyRow[j].expiries = 0
             /\ keyRow' = [keyRow EXCEPT ![k].state = "expired", ![k].expiries = @ + 1]
             /\ UNCHANGED <<phase, reply, keyLock, orgUpdate, orgShare, commits>>

Next == \/ \E r \in Requests : \/ replay(r) \/ Begin(r) \/ LockOrganization(r)
                               \/ InsertKey(r) \/ AnswerFromRow(r) \/ Mutate(r)
                               \/ Commit(r) \/ Rollback(r) \/ Retry(r)
        \/ \E k \in Keys : Expire(k)

Spec == Init /\ [][Next]_vars

TypeOK == /\ keyRow \in [Keys -> KeyRow]
          /\ reply \in [Requests -> IdempotencyOutcome]
          /\ keyLock \in [Keys -> Requests \cup {None}]

(* Whatever requests race, fail or are repeated, one validity period of a   *)
(* key sees at most one committed mutation (the upsert of execute_inner     *)
(* replaces an expired row only).                                           *)
OneCommitPerValidity == \A k \in Keys : \A c, d \in commits[k] : c[2] = d[2] => c = d

(* A request is only answered with the result of a mutation that committed  *)
(* for the same key and the same body; a reused key with another body, and  *)
(* a legacy row without a result, are refused (execute_inner, replay).      *)
AnswerIsCommitted ==
    \A r \in Requests : reply[r].ref # NoRef =>
        reply[r].ref \in commits[KeyOf[r]] /\ reply[r].ref[1] = BodyOf[r]

WaitsFor(r, s) ==
    /\ r # s
    /\ \/ phase[r] = "lock" /\ (orgUpdate = s \/ s \in orgShare)
       \/ phase[r] = "upsert" /\ (keyLock[KeyOf[r]] = s \/ (Scoped(r) /\ orgUpdate = s))
       \/ phase[r] = "mutate" /\ Scoped(r) /\ (orgUpdate = s \/ s \in orgShare)

(* "Otherwise two different keys can deadlock when their mutations request  *)
(* FOR UPDATE": no set of transactions waits for one another, because every *)
(* scoped one locks the organization before its key insert.                 *)
NoLockCycle ==
    \A S \in (SUBSET Requests) \ {{}} : \E r \in S : \A s \in S : ~WaitsFor(r, s)
=============================================================================
