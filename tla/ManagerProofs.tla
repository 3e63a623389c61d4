---------------------------- MODULE ManagerProofs ----------------------------
(***************************************************************************)
(* What the Manager's tables promise, for every number of requests,        *)
(* events, replicas and repetitions: one commit per idempotency key and no *)
(* cycle of row locks (Idempotency), one settlement per outbox event       *)
(* (Outbox), and sessions of the command line that are delivered once,     *)
(* rotate in one line and end in time (CliSessions).                       *)
(***************************************************************************)
EXTENDS Outbox, FiniteSetTheorems, WellFoundedInduction, TLAPS

CONSTANTS Requests, Orgless, KeyOf, BodyOf, Legacy, MaxExpiries
VARIABLES keyRow, phase, reply, keyLock, orgUpdate, orgShare, commits

Keyed == INSTANCE Idempotency

\* No request is the absence of one.
RequestsNamed == Keyed!None \notin Requests /\ MaxExpiries \in Nat

\* A row and the mutations committed under its key: they are at most one per
\* validity, and none of the current validity before the row is live.
RowSound(row, done) ==
    /\ row \in Keyed!KeyRow /\ done \subseteq Keyed!Refs
    /\ row.state = "live" /\ row.ref # Keyed!NoRef => row.ref \in done /\ row.ref[1] = row.hash
    /\ \A c \in done : c[2] <= row.expiries /\ (row.state # "live" => c[2] < row.expiries)
    /\ \A c, d \in done : c[2] = d[2] => c = d

\* What request r was answered, given the mutations committed under its key.
AnswerSound(r, answer, done) ==
    /\ answer \in Keyed!IdempotencyOutcome
    /\ answer.ref # Keyed!NoRef => answer.ref \in done /\ answer.ref[1] = BodyOf[r]

\* The transactions that hold their key.
Inside == {"mutate", "commit"}

\* The key rows: a transaction holds its key while it mutates, and until it
\* commits no other can make the row live.
KeysHeld ==
    /\ phase \in [Requests -> {"idle", "lock", "upsert", "mutate", "commit", "done"}]
    /\ keyLock \in [Keyed!Keys -> Requests \cup {Keyed!None}]
    /\ \A r \in Requests : phase[r] \in Inside => keyLock[KeyOf[r]] = r
    /\ \A k \in Keyed!Keys : keyLock[k] # Keyed!None =>
          phase[keyLock[k]] \in Inside /\ KeyOf[keyLock[k]] = k /\ keyRow[k].state # "live"

\* The organization row: whoever is past its lock holds it.
OrganizationHeld ==
    /\ \A r \in Requests : phase[r] = "lock" => Keyed!Scoped(r)
    /\ \A r \in Requests : Keyed!Scoped(r) /\ phase[r] \in Inside \cup {"upsert"} => orgUpdate = r
    /\ orgUpdate # Keyed!None =>
          /\ orgUpdate \in Requests /\ Keyed!Scoped(orgUpdate)
          /\ phase[orgUpdate] \in Inside \cup {"upsert"}
    /\ orgShare \subseteq {orgUpdate} \ {Keyed!None}

\* The inductive invariant of idempotent requests.
KeyedInv ==
    /\ keyRow \in [Keyed!Keys -> Keyed!KeyRow]
    /\ commits \in [Keyed!Keys -> SUBSET Keyed!Refs]
    /\ reply \in [Requests -> Keyed!IdempotencyOutcome]
    /\ \A k \in Keyed!Keys : RowSound(keyRow[k], commits[k])
    /\ \A r \in Requests : AnswerSound(r, reply[r], commits[KeyOf[r]])
    /\ KeysHeld /\ OrganizationHeld

\* The key of a request is one of the keys.
LEMMA KeysAreKeys == ASSUME NEW r \in Requests PROVE KeyOf[r] \in Keyed!Keys
  BY Zenon DEF Keyed!Keys

\* IdempotencyService starts with empty tables, but for unfinished legacy rows.
LEMMA InitKeyed == ASSUME RequestsNamed, Keyed!Init PROVE KeyedInv
<1> USE DEF Keyed!Init, RequestsNamed
<1>1. ASSUME NEW k \in Keyed!Keys
      PROVE  keyRow[k] \in Keyed!KeyRow /\ RowSound(keyRow[k], commits[k])
  <2>1. Keyed!Bodies # {}
    BY Zenon DEF Keyed!Keys, Keyed!Bodies
  <2>2. (CHOOSE b \in Keyed!Bodies : TRUE) \in Keyed!Bodies
    BY <2>1, Zenon
  <2>3. keyRow[k] \in Keyed!KeyRow
    BY <2>2 DEF Keyed!KeyRow
  <2> QED
    BY <2>3, Zenon DEF RowSound
<1>2. keyRow \in [Keyed!Keys -> Keyed!KeyRow]
  BY <1>1, Zenon
<1>3. commits \in [Keyed!Keys -> SUBSET Keyed!Refs]
  BY Zenon
<1>4. Keyed!Nothing \in Keyed!IdempotencyOutcome /\ Keyed!Nothing.ref = Keyed!NoRef
  BY Zenon DEF Keyed!Nothing, Keyed!IdempotencyOutcome
<1>5. /\ reply \in [Requests -> Keyed!IdempotencyOutcome]
      /\ \A r \in Requests : AnswerSound(r, reply[r], commits[KeyOf[r]])
  BY <1>4, Zenon DEF AnswerSound
<1>6. KeysHeld
  BY Zenon DEF KeysHeld, Inside
<1>7. OrganizationHeld
  BY Zenon DEF OrganizationHeld, Inside
<1> QED
  BY <1>1, <1>2, <1>3, <1>5, <1>6, <1>7 DEF KeyedInv

\* The answer of a stored row is a committed result of the same body.
LEMMA StoredSound ==
  ASSUME KeyedInv, NEW r \in Requests, keyRow[KeyOf[r]].state = "live"
  PROVE  AnswerSound(r, Keyed!Stored(r), commits[KeyOf[r]])
<1> DEFINE k == keyRow[KeyOf[r]]
<1>1. k \in Keyed!KeyRow /\ RowSound(k, commits[KeyOf[r]])
  BY KeysAreKeys, Zenon DEF KeyedInv
<1>2. CASE k.hash # BodyOf[r] \/ k.ref = Keyed!NoRef
  <2>1. Keyed!Stored(r) = [kind |-> "conflict", ref |-> Keyed!NoRef]
    BY <1>2, Zenon DEF Keyed!Stored
  <2> QED
    BY <2>1 DEF AnswerSound, Keyed!IdempotencyOutcome
<1>3. CASE ~(k.hash # BodyOf[r] \/ k.ref = Keyed!NoRef)
  <2>1. Keyed!Stored(r) = [kind |-> "replay", ref |-> k.ref]
    BY <1>3, Zenon DEF Keyed!Stored
  <2>2. k.ref \in Keyed!Refs \cup {Keyed!NoRef}
    BY <1>1, Zenon DEF Keyed!KeyRow
  <2>3. Keyed!Stored(r) \in Keyed!IdempotencyOutcome
    BY <2>1, <2>2 DEF Keyed!IdempotencyOutcome
  <2>4. /\ Keyed!Stored(r).kind = "replay" /\ Keyed!Stored(r).ref = k.ref
        /\ k.hash = BodyOf[r] /\ k.ref # Keyed!NoRef
    BY ONLY <1>3, <2>1
  <2> QED
    BY ONLY <1>1, <2>3, <2>4, k.state = "live" DEF AnswerSound, RowSound
<1> QED
  BY <1>2, <1>3

\* COMMIT or ROLLBACK of r: the locks of the others stay theirs.
LEMMA EndReleases ==
  ASSUME RequestsNamed, KeyedInv, NEW r \in Requests, NEW outcome, Keyed!EndTx(r, outcome),
         \A k \in Keyed!Keys : keyLock[k] # r => keyRow'[k] = keyRow[k]
  PROVE  KeysHeld' /\ OrganizationHeld'
<1> USE DEF KeyedInv, Keyed!EndTx, Inside, RequestsNamed
<1>1. /\ phase' \in [Requests -> {"idle", "lock", "upsert", "mutate", "commit", "done"}]
      /\ \A s \in Requests : s # r => phase'[s] = phase[s]
      /\ phase'[r] = "done"
  BY DEF KeysHeld
<1>2. /\ keyLock' \in [Keyed!Keys -> Requests \cup {Keyed!None}]
      /\ \A k \in Keyed!Keys : keyLock'[k] = IF keyLock[k] = r THEN Keyed!None ELSE keyLock[k]
  BY Zenon DEF KeysHeld
<1>3. \A s \in Requests : phase'[s] \in Inside => keyLock'[KeyOf[s]] = s
  BY <1>1, <1>2, KeysAreKeys DEF KeysHeld
<1>4. ASSUME NEW k \in Keyed!Keys, keyLock'[k] # Keyed!None
      PROVE  phase'[keyLock'[k]] \in Inside /\ KeyOf[keyLock'[k]] = k /\ keyRow'[k].state # "live"
  <2>1. keyLock[k] # r /\ keyLock[k] # Keyed!None /\ keyLock'[k] = keyLock[k]
    BY <1>2, <1>4, Zenon
  <2>2. keyLock[k] \in Requests
    BY <2>1 DEF KeysHeld
  <2> QED
    BY <1>1, <2>1, <2>2 DEF KeysHeld
<1>5. KeysHeld'
  BY <1>1, <1>2, <1>3, <1>4, Zenon DEF KeysHeld
<1>6. OrganizationHeld'
  BY <1>1, Zenon DEF OrganizationHeld, Keyed!Scoped
<1> QED
  BY <1>5, <1>6, Zenon

\* ... and every answer stays sound, as commits are never undone.
LEMMA EndAnswers ==
  ASSUME KeyedInv, NEW r \in Requests, NEW outcome, Keyed!EndTx(r, outcome),
         \A k \in Keyed!Keys : commits[k] \subseteq commits'[k],
         AnswerSound(r, outcome, commits'[KeyOf[r]])
  PROVE  /\ reply' \in [Requests -> Keyed!IdempotencyOutcome]
         /\ \A s \in Requests : AnswerSound(s, reply'[s], commits'[KeyOf[s]])
<1> USE DEF KeyedInv, Keyed!EndTx, AnswerSound
<1>1. reply' \in [Requests -> Keyed!IdempotencyOutcome]
  BY Zenon
<1>2. ASSUME NEW s \in Requests PROVE AnswerSound(s, reply'[s], commits'[KeyOf[s]])
  <2>1. CASE s = r
    BY <2>1, Zenon
  <2>2. CASE s # r
    <3>1. reply'[s] = reply[s] /\ commits[KeyOf[s]] \subseteq commits'[KeyOf[s]]
      BY <2>2, KeysAreKeys, Zenon
    <3> QED
      BY <3>1, Zenon
  <2> QED
    BY <2>1, <2>2, Zenon
<1> QED
  BY <1>1, <1>2

\* A transaction that ends and stored nothing.
LEMMA QuietEnd ==
  ASSUME RequestsNamed, KeyedInv, NEW r \in Requests, NEW outcome, Keyed!EndTx(r, outcome),
         UNCHANGED <<keyRow, commits>>, AnswerSound(r, outcome, commits[KeyOf[r]])
  PROVE  KeyedInv'
<1>1. KeysHeld' /\ OrganizationHeld'
  BY EndReleases, Zenon
<1>2. /\ reply' \in [Requests -> Keyed!IdempotencyOutcome]
      /\ \A s \in Requests : AnswerSound(s, reply'[s], commits'[KeyOf[s]])
  BY EndAnswers, Zenon
<1> QED
  BY <1>1, <1>2, Zenon DEF KeyedInv

\* replay, the answer of a stored row, and a rollback.
LEMMA AnsweredStep ==
  ASSUME RequestsNamed, KeyedInv, NEW r \in Requests,
         Keyed!replay(r) \/ Keyed!AnswerFromRow(r) \/ Keyed!Rollback(r)
  PROVE  KeyedInv'
<1>1. CASE Keyed!replay(r)
  BY <1>1, StoredSound, QuietEnd DEF Keyed!replay
<1>2. CASE Keyed!AnswerFromRow(r)
  <2>1. keyRow[KeyOf[r]] \in Keyed!KeyRow
    BY KeysAreKeys, Zenon DEF KeyedInv
  <2>2. keyRow[KeyOf[r]].state = "live"
    BY <1>2, <2>1, Zenon DEF Keyed!AnswerFromRow, Keyed!Replaceable, Keyed!KeyRow
  <2> QED
    BY <1>2, <2>2, StoredSound, QuietEnd, Zenon DEF Keyed!AnswerFromRow
<1>3. CASE Keyed!Rollback(r)
  <2>1. AnswerSound(r, Keyed!Nothing, commits[KeyOf[r]])
    BY Zenon DEF AnswerSound, Keyed!Nothing, Keyed!IdempotencyOutcome
  <2> QED
    BY <1>3, <2>1, QuietEnd, Zenon DEF Keyed!Rollback
<1> QED
  BY <1>1, <1>2, <1>3, Zenon

\* The steps up to the mutation, and the client that tries again: rows and
\* commits stay.
LEMMA LockingStep ==
  ASSUME RequestsNamed, KeyedInv, NEW r \in Requests,
         \/ Keyed!Begin(r) \/ Keyed!LockOrganization(r) \/ Keyed!InsertKey(r)
         \/ Keyed!Mutate(r) \/ Keyed!Retry(r)
  PROVE  KeyedInv'
<1> USE DEF RequestsNamed
<1>1. UNCHANGED <<keyRow, commits>>
  BY Zenon DEF Keyed!Begin, Keyed!LockOrganization, Keyed!InsertKey, Keyed!Mutate, Keyed!Retry
<1>2. /\ reply' \in [Requests -> Keyed!IdempotencyOutcome]
      /\ \A s \in Requests : AnswerSound(s, reply'[s], commits'[KeyOf[s]])
  <2>1. CASE UNCHANGED reply
    BY <1>1, <2>1, Zenon DEF KeyedInv
  <2>2. CASE Keyed!Retry(r)
    <3>1. Keyed!Nothing \in Keyed!IdempotencyOutcome /\ Keyed!Nothing.ref = Keyed!NoRef
      BY Zenon DEF Keyed!Nothing, Keyed!IdempotencyOutcome
    <3> QED
      BY <1>1, <2>2, <3>1, Zenon DEF KeyedInv, AnswerSound, Keyed!Retry
  <2> QED
    BY <2>1, <2>2, Zenon DEF Keyed!Begin, Keyed!LockOrganization, Keyed!InsertKey, Keyed!Mutate
<1>3. KeysHeld /\ OrganizationHeld /\ KeyOf[r] \in Keyed!Keys /\ Keyed!None \notin Requests
  BY KeysAreKeys, Zenon DEF KeyedInv, RequestsNamed
<1>4. KeysHeld'
  <2>1. CASE Keyed!InsertKey(r)
    <3>1. /\ keyLock[KeyOf[r]] \in {Keyed!None, r} /\ keyRow[KeyOf[r]].state # "live"
          /\ phase[r] = "upsert" /\ phase' = [phase EXCEPT ![r] = "mutate"]
          /\ keyLock' = [keyLock EXCEPT ![KeyOf[r]] = r]
      BY <2>1, Zenon DEF Keyed!InsertKey, Keyed!UpsertBlocked, Keyed!Replaceable
    <3>2. keyLock[KeyOf[r]] = Keyed!None
      BY ONLY <1>3, <3>1, r \in Requests, Zenon DEF KeysHeld, Inside
    <3> QED
      BY ONLY <1>1, <1>3, <3>1, <3>2, r \in Requests DEF KeysHeld, Inside
  <2>2. ASSUME NEW p \in {"idle", "lock", "upsert", "commit"},
               phase' = [phase EXCEPT ![r] = p], UNCHANGED keyLock,
               p = "commit" <=> phase[r] \in Inside
        PROVE  KeysHeld'
    BY ONLY <1>1, <1>3, <2>2, r \in Requests DEF KeysHeld, Inside
  <2> QED
    BY <2>1, <2>2, Zenon
       DEF Keyed!Begin, Keyed!LockOrganization, Keyed!Mutate, Keyed!Retry, Inside
<1>5. OrganizationHeld'
  <2>0. /\ r \in Requests
        /\ phase \in [Requests -> {"idle", "lock", "upsert", "mutate", "commit", "done"}]
    BY <1>3, Zenon DEF KeysHeld
  <2>1. CASE Keyed!Begin(r)
    <3>1. /\ phase' = [phase EXCEPT ![r] = IF Keyed!Scoped(r) THEN "lock" ELSE "upsert"]
          /\ UNCHANGED <<orgUpdate, orgShare>> /\ phase[r] = "idle"
      BY <2>1, Zenon DEF Keyed!Begin
    <3> QED
      BY ONLY <1>3, <2>0, <3>1, Zenon DEF OrganizationHeld, Inside, Keyed!Scoped
  <2>2. CASE Keyed!LockOrganization(r)
    <3>1. /\ phase' = [phase EXCEPT ![r] = "upsert"] /\ orgUpdate' = r /\ UNCHANGED orgShare
          /\ phase[r] = "lock" /\ orgUpdate \in {Keyed!None, r} /\ orgShare \subseteq {r}
      BY <2>2, Zenon DEF Keyed!LockOrganization, Keyed!OrgFreeForUpdate
    <3> QED
      BY ONLY <1>3, <2>0, <3>1, Zenon DEF OrganizationHeld, Inside, Keyed!Scoped
  <2>3. CASE Keyed!InsertKey(r)
    <3>1. /\ phase' = [phase EXCEPT ![r] = "mutate"] /\ UNCHANGED orgUpdate
          /\ orgShare' = IF Keyed!Scoped(r) THEN orgShare \cup {r} ELSE orgShare
          /\ phase[r] = "upsert"
      BY <2>3, Zenon DEF Keyed!InsertKey
    <3> QED
      BY ONLY <1>3, <2>0, <3>1 DEF OrganizationHeld, Inside, Keyed!Scoped
  <2>4. CASE Keyed!Mutate(r)
    <3>1. /\ phase' = [phase EXCEPT ![r] = "commit"] /\ UNCHANGED orgShare
          /\ orgUpdate' = IF Keyed!Scoped(r) THEN r ELSE orgUpdate
          /\ phase[r] = "mutate"
      BY <2>4, Zenon DEF Keyed!Mutate
    <3> QED
      BY ONLY <1>3, <2>0, <3>1, Zenon DEF OrganizationHeld, Inside, Keyed!Scoped
  <2>5. CASE Keyed!Retry(r)
    <3>1. /\ phase' = [phase EXCEPT ![r] = "idle"] /\ UNCHANGED <<orgUpdate, orgShare>>
          /\ phase[r] = "done"
      BY <2>5, Zenon DEF Keyed!Retry
    <3> QED
      BY ONLY <1>3, <2>0, <3>1, Zenon DEF OrganizationHeld, Inside, Keyed!Scoped
  <2> QED
    BY <2>1, <2>2, <2>3, <2>4, <2>5, Zenon
<1> QED
  BY <1>1, <1>2, <1>4, <1>5, Zenon DEF KeyedInv

\* The commit of a mutation under a key that only its transaction could make
\* live.
LEMMA CommitStep ==
  ASSUME RequestsNamed, KeyedInv, NEW r \in Requests, Keyed!Commit(r)
  PROVE  KeyedInv'
<1> DEFINE k == KeyOf[r]
           ref == <<BodyOf[r], keyRow[k].expiries, r>>
           row == [keyRow[k] EXCEPT !.state = "live", !.hash = BodyOf[r], !.ref = ref]
           outcome == [kind |-> "new", ref |-> ref]
<1>1. k \in Keyed!Keys /\ keyRow[k] \in Keyed!KeyRow /\ RowSound(keyRow[k], commits[k])
  BY KeysAreKeys, Zenon DEF KeyedInv
<1>2. phase[r] = "commit" /\ keyLock[k] = r /\ keyRow[k].state # "live"
  <2>1. phase[r] = "commit"
    BY Zenon DEF Keyed!Commit
  <2>2. KeysHeld /\ k \in Keyed!Keys /\ r # Keyed!None
    BY <1>1, Zenon DEF KeyedInv, RequestsNamed
  <2> QED
    BY ONLY <2>1, <2>2, Zenon DEF KeysHeld, Inside
<1>3. ref \in Keyed!Refs /\ BodyOf[r] \in Keyed!Bodies
  BY <1>1, Zenon DEF Keyed!Refs, Keyed!Bodies, Keyed!KeyRow
<1>4. /\ keyRow' = [keyRow EXCEPT ![k] = row]
      /\ commits' = [commits EXCEPT ![k] = @ \cup {ref}]
      /\ Keyed!EndTx(r, outcome)
  BY Zenon DEF Keyed!Commit
<1>5. /\ ref[1] = BodyOf[r] /\ ref[2] = keyRow[k].expiries
      /\ keyRow[k].expiries \in Nat
  BY ONLY <1>1 DEF Keyed!KeyRow
<1>6. /\ row \in Keyed!KeyRow /\ row.state = "live" /\ row.hash = BodyOf[r]
      /\ row.ref = ref /\ row.expiries = keyRow[k].expiries
  BY ONLY <1>1, <1>3, Zenon DEF Keyed!KeyRow
<1> HIDE DEF ref, row, k
<1>7. RowSound(row, commits[k] \cup {ref})
  <2>1. \A c \in commits[k] : c \in Keyed!Refs /\ c[2] < keyRow[k].expiries /\ c[2] \in Int
    BY <1>1, <1>2 DEF RowSound, Keyed!Refs
  <2> QED
    BY ONLY <1>1, <1>3, <1>5, <1>6, <2>1 DEF RowSound
<1>8. /\ keyRow' \in [Keyed!Keys -> Keyed!KeyRow]
      /\ commits' \in [Keyed!Keys -> SUBSET Keyed!Refs]
  BY <1>1, <1>3, <1>4, <1>6, Zenon DEF KeyedInv
<1>9. \A j \in Keyed!Keys : RowSound(keyRow'[j], commits'[j])
  BY <1>1, <1>4, <1>7, Zenon DEF KeyedInv
<1>10. KeysHeld' /\ OrganizationHeld'
  <2>1. \A j \in Keyed!Keys : keyLock[j] # r => keyRow'[j] = keyRow[j]
    BY <1>2, <1>4, Zenon DEF KeyedInv
  <2> QED
    BY <1>4, <2>1, EndReleases
<1>11. AnswerSound(r, outcome, commits'[KeyOf[r]])
  <2>1. outcome \in Keyed!IdempotencyOutcome /\ outcome.ref = ref
    BY <1>3, Zenon DEF Keyed!IdempotencyOutcome
  <2>2. ref \in commits'[k]
    BY <1>1, <1>4, Zenon DEF KeyedInv
  <2> QED
    BY <1>5, <2>1, <2>2, Zenon DEF AnswerSound, k
<1>12. \A j \in Keyed!Keys : commits[j] \subseteq commits'[j]
  BY <1>1, <1>4, Zenon DEF KeyedInv
<1>13. /\ reply' \in [Requests -> Keyed!IdempotencyOutcome]
       /\ \A s \in Requests : AnswerSound(s, reply'[s], commits'[KeyOf[s]])
  BY <1>4, <1>11, <1>12, EndAnswers
<1> QED
  BY <1>8, <1>9, <1>10, <1>13 DEF KeyedInv

\* A key expires only while its row is live, so never under a transaction
\* that holds it.
LEMMA ExpireStep ==
  ASSUME RequestsNamed, KeyedInv, NEW k \in Keyed!Keys, Keyed!Expire(k)
  PROVE  KeyedInv'
<1> DEFINE row == [keyRow[k] EXCEPT !.state = "expired", !.expiries = @ + 1]
<1>1. keyRow[k] \in Keyed!KeyRow /\ RowSound(keyRow[k], commits[k]) /\ keyRow[k].state = "live"
  BY Zenon DEF KeyedInv, Keyed!Expire
<1>2. keyRow' = [keyRow EXCEPT ![k] = row]
  BY Zenon DEF Keyed!Expire
<1>3. /\ row \in Keyed!KeyRow /\ row.state = "expired" /\ row.expiries = keyRow[k].expiries + 1
      /\ keyRow[k].expiries \in Nat
  <2>1. keyRow[k].expiries \in 0..MaxExpiries /\ keyRow[k].expiries < MaxExpiries
    BY <1>1, Zenon DEF Keyed!Expire, Keyed!KeyRow
  <2> DEFINE n == keyRow[k].expiries + 1
  <2>2. n \in 0..MaxExpiries /\ keyRow[k].expiries \in Nat
    BY <2>1 DEF RequestsNamed
  <2> HIDE DEF n
  <2>3. row = [keyRow[k] EXCEPT !.state = "expired", !.expiries = n]
    BY <1>1, Zenon DEF n, Keyed!KeyRow
  <2>4. row \in Keyed!KeyRow /\ row.state = "expired" /\ row.expiries = n
    <3> HIDE DEF row
    <3> QED
      BY <1>1, <2>2, <2>3 DEF Keyed!KeyRow
  <2> QED
    BY <2>2, <2>4, Zenon DEF n
<1> HIDE DEF row
<1>4. RowSound(row, commits[k])
  <2>1. \A c \in commits[k] : c[2] \in Int
    BY <1>1 DEF RowSound, Keyed!Refs
  <2>2. \A c \in commits[k] : c[2] <= row.expiries /\ c[2] < row.expiries
    <3>1. \A c \in commits[k] : c[2] <= keyRow[k].expiries
      BY <1>1, Zenon DEF RowSound
    <3> QED
      BY <1>3, <2>1, <3>1
  <2>3. commits[k] \subseteq Keyed!Refs /\ \A c, d \in commits[k] : c[2] = d[2] => c = d
    BY <1>1, Zenon DEF RowSound
  <2>4. row \in Keyed!KeyRow /\ row.state # "live"
    BY <1>3, Zenon
  <2> QED
    BY ONLY <2>2, <2>3, <2>4, Zenon DEF RowSound
<1>5. UNCHANGED <<phase, reply, keyLock, orgUpdate, orgShare, commits>>
  BY Zenon DEF Keyed!Expire
<1>6. keyRow' \in [Keyed!Keys -> Keyed!KeyRow]
  BY <1>2, <1>3, Zenon DEF KeyedInv
<1>7. \A j \in Keyed!Keys : RowSound(keyRow'[j], commits'[j])
  BY <1>2, <1>4, <1>5, Zenon DEF KeyedInv
<1>8. keyLock[k] = Keyed!None
  BY <1>1, Zenon DEF KeyedInv, KeysHeld
<1>9. KeysHeld'
  <2>1. KeysHeld /\ keyRow \in [Keyed!Keys -> Keyed!KeyRow]
    BY Zenon DEF KeyedInv
  <2> QED
    BY ONLY <1>2, <1>5, <1>8, <2>1 DEF KeysHeld, Inside
<1>10. OrganizationHeld'
  BY <1>5, Zenon DEF KeyedInv, OrganizationHeld, Keyed!Scoped
<1> QED
  BY <1>5, <1>6, <1>7, <1>9, <1>10 DEF KeyedInv

\* Every step of requests, clients and the clock keeps the invariant.
LEMMA NextKeyed == RequestsNamed /\ KeyedInv /\ [Keyed!Next]_(Keyed!vars) => KeyedInv'
<1> SUFFICES ASSUME RequestsNamed, KeyedInv, [Keyed!Next]_(Keyed!vars) PROVE KeyedInv'
  BY Zenon
<1>1. CASE Keyed!Next
  BY <1>1, AnsweredStep, LockingStep, CommitStep, ExpireStep, Zenon DEF Keyed!Next
<1>2. CASE UNCHANGED Keyed!vars
  BY <1>2, Zenon DEF Keyed!vars, KeyedInv, KeysHeld, OrganizationHeld, Keyed!Scoped
<1> QED
  BY <1>1, <1>2, Zenon

\* The inductive invariant of idempotent requests (IdempotencyService): who
\* mutates holds the key, and a live row was committed once in its validity.
THEOREM KeyedInvAlways == ASSUME RequestsNamed PROVE Keyed!Spec => []KeyedInv
<1>1. Keyed!Init => KeyedInv
  BY InitKeyed, Zenon
<1>2. KeyedInv /\ [Keyed!Next]_(Keyed!vars) => KeyedInv'
  BY NextKeyed, Zenon
<1> QED
  BY <1>1, <1>2, PTL DEF Keyed!Spec

\* However requests race, fail and are repeated, one validity of a key commits
\* one mutation (the upsert of execute_inner).
THEOREM CommitsAreSingle == ASSUME RequestsNamed PROVE Keyed!Spec => []Keyed!OneCommitPerValidity
<1>1. KeyedInv => Keyed!OneCommitPerValidity
  BY DEF KeyedInv, RowSound, Keyed!OneCommitPerValidity
<1> QED
  BY <1>1, KeyedInvAlways, PTL

\* A request is answered with a committed result of its own key and body
\* (execute_inner, replay).
THEOREM AnswersAreCommitted == ASSUME RequestsNamed PROVE Keyed!Spec => []Keyed!AnswerIsCommitted
<1>1. KeyedInv => Keyed!AnswerIsCommitted
  BY DEF KeyedInv, AnswerSound, Keyed!AnswerIsCommitted
<1> QED
  BY <1>1, KeyedInvAlways, PTL

\* No set of transactions, of whatever size, waits for the row locks of one
\* another: who holds a key waits for nobody, who inserts one waits only for
\* such a holder, and who waits for the organization holds nothing.
THEOREM LocksHaveNoCycle == ASSUME RequestsNamed PROVE Keyed!Spec => []Keyed!NoLockCycle
<1>1. ASSUME KeyedInv, NEW S \in (SUBSET Requests) \ {{}}
      PROVE  \E r \in S : \A s \in S : ~Keyed!WaitsFor(r, s)
  <2>0. KeysHeld /\ OrganizationHeld /\ Keyed!None \notin Requests /\ S \subseteq Requests
    BY <1>1, Zenon DEF KeyedInv, RequestsNamed
  <2>1. ASSUME NEW r \in S, NEW s \in S, phase[r] \in Inside PROVE ~Keyed!WaitsFor(r, s)
    BY ONLY <2>0, <2>1, Zenon DEF Keyed!WaitsFor, OrganizationHeld, Inside
  <2>2. ASSUME NEW r \in S, NEW s \in S, phase[r] = "upsert", phase[s] \notin Inside
        PROVE  ~Keyed!WaitsFor(r, s)
    BY ONLY <2>0, <2>2, KeysAreKeys DEF Keyed!WaitsFor, KeysHeld, OrganizationHeld, Inside
  <2>3. ASSUME NEW r \in S, NEW s \in S, phase[r] \notin Inside \cup {"upsert"},
               phase[s] \notin Inside \cup {"upsert"}
        PROVE  ~Keyed!WaitsFor(r, s)
    BY ONLY <2>0, <2>3, Zenon DEF Keyed!WaitsFor, OrganizationHeld, Inside
  <2>4. CASE \E r \in S : phase[r] \in Inside
    BY ONLY <2>1, <2>4, Zenon
  <2>5. CASE (\E r \in S : phase[r] = "upsert") /\ ~(\E r \in S : phase[r] \in Inside)
    BY ONLY <2>2, <2>5, Zenon
  <2>6. CASE ~\E r \in S : phase[r] \in Inside \cup {"upsert"}
    BY <2>3, <2>6, Zenon
  <2> QED
    BY <2>4, <2>5, <2>6, Zenon
<1>2. KeyedInv => Keyed!NoLockCycle
  BY <1>1, Zenon DEF Keyed!NoLockCycle
<1> QED
  BY <1>2, KeyedInvAlways, PTL

-----------------------------------------------------------------------------
(* The outbox.  The module above is Outbox's: its state, actions and        *)
(* properties are meant where no instance is named.                         *)

\* Replicas can be counted, and 0 names no event.
ReplicasCounted ==
    IsFiniteSet(Workers) /\ 0 \notin Events /\ Owning \subseteq Events /\ MaxMishaps \in Nat

\* The row of event e, its operation, the last claim and the claims whose
\* handler ended.
EventSound(e, row, operation, latest, ended) ==
    /\ row \in OutboxRow
    /\ IF e \in Owning
         THEN operation = CASE row.state = "absent" -> "absent" [] row.state = "pending" -> "queued"
                            [] row.state = "delivered" -> "succeeded" [] row.state = "failed" -> "failed"
         ELSE operation = "none"
    /\ row.token # -1 => row.token = latest
    /\ row.state = "delivered" => latest \in ended

\* What a worker holds.
ClaimSound(c, ended) ==
    /\ c \in OutboxClaim
    /\ c.result = "none" <=> c.ev = 0
    /\ c.result = "ok" => c.token \in ended[c.ev]

\* The inductive invariant of the outbox.
OutboxInv ==
    /\ event \in [Events -> OutboxRow] /\ claim \in [Workers -> OutboxClaim]
    /\ owned \in [Events -> {"none", "absent", "queued", "succeeded", "failed"}]
    /\ last \in [Events -> Tokens] /\ did \in [Events -> SUBSET Tokens]
    /\ \A e \in Events : EventSound(e, event[e], owned[e], last[e], did[e])
    /\ \A w \in Workers : ClaimSound(claim[w], did)
    /\ \A v, w \in Workers : v # w /\ claim[v].ev # 0 /\ claim[w].ev # 0 =>
                               claim[v].token # claim[w].token

\* The least of some natural numbers is one of them.
LEMMA LeastIsMember == ASSUME NEW S, S \subseteq Nat, S # {} PROVE Min(S) \in S
<1>1. PICK x \in S : \A y \in S : ~(<<y, x>> \in OpToRel(<, Nat))
  BY WFMin, NatLessThanWellFounded, Zenon
<1>2. \A y \in S : ~(y < x)
  BY <1>1, Zenon DEF OpToRel
<1>3. \A y \in S : x <= y
  BY <1>2
<1> QED
  BY <1>3, Zenon DEF Min

\* There are more tokens than workers, so a claim finds one that nobody holds.
LEMMA TokenIsFresh ==
  ASSUME ReplicasCounted
  PROVE  /\ Min(FreshTokens) \in Tokens /\ 0 \in Tokens /\ -1 \notin Tokens
         /\ \A v \in Workers : claim[v].ev # 0 => claim[v].token # Min(FreshTokens)
<1> DEFINE V == {claim[v].token : v \in Workers}
           f == [v \in Workers |-> claim[v].token]
<1>1. Cardinality(Workers) \in Nat
  BY FS_CardinalityType, Zenon DEF ReplicasCounted
<1>2. /\ IsFiniteSet(Tokens) /\ Cardinality(Tokens) = Cardinality(Workers) + 1
      /\ Tokens \subseteq Nat /\ 0 \in Tokens
  BY <1>1, FS_Interval DEF Tokens
<1>3. IsFiniteSet(V) /\ Cardinality(V) <= Cardinality(Workers)
  <2>1. f \in Surjection(Workers, V)
    BY Zenon DEF Surjection
  <2> QED
    BY <2>1, FS_Surjection, Zenon DEF ReplicasCounted
<1>4. FreshTokens # {}
  <2> SUFFICES ASSUME FreshTokens = {} PROVE FALSE
    BY Zenon
  <2>1. Tokens \in SUBSET V
    BY Zenon DEF FreshTokens
  <2> HIDE DEF V
  <2>2. Cardinality(Tokens) <= Cardinality(V) /\ Cardinality(V) \in Nat
    BY <1>3, <2>1, FS_Subset, FS_CardinalityType
  <2> QED
    BY <1>1, <1>2, <1>3, <2>2
<1>5. FreshTokens \subseteq Tokens
  BY Zenon DEF FreshTokens
<1>6. Min(FreshTokens) \in FreshTokens
  BY <1>2, <1>4, <1>5, LeastIsMember, Zenon
<1>7. \A v \in Workers : claim[v].ev # 0 => claim[v].token \notin FreshTokens
  BY Zenon DEF FreshTokens
<1>8. -1 \notin Tokens
  BY <1>2
<1> QED
  BY <1>2, <1>5, <1>6, <1>7, <1>8

\* A worker without a claim.
LEMMA NoClaimSound ==
  ASSUME ReplicasCounted
  PROVE  NoClaim \in OutboxClaim /\ NoClaim.ev = 0 /\ \A ended : ClaimSound(NoClaim, ended)
<1>1. NoClaim \in OutboxClaim /\ NoClaim.ev = 0 /\ NoClaim.result = "none"
  BY TokenIsFresh, Zenon DEF NoClaim, OutboxClaim
<1> QED
  BY <1>1, Zenon DEF ClaimSound

\* What a worker at work holds is an event.
LEMMA HeldIsEvent ==
  ASSUME OutboxInv, NEW w \in Workers, claim[w].result # "none"
  PROVE  /\ claim[w].ev \in Events /\ claim[w].ev # 0 /\ claim[w].token \in Tokens
         /\ event[claim[w].ev] \in OutboxRow
  BY Zenon DEF OutboxInv, ClaimSound, OutboxClaim

\* Steps that settle nothing: rows keep state and token, claims are kept or
\* given up, ended handlers stay ended.
LEMMA CalmStep ==
  ASSUME OutboxInv, UNCHANGED <<owned, last>>,
         event' \in [Events -> OutboxRow], did' \in [Events -> SUBSET Tokens],
         claim' \in [Workers -> OutboxClaim],
         \A e \in Events : /\ event'[e].state = event[e].state /\ event'[e].token = event[e].token
                           /\ did[e] \subseteq did'[e],
         \A w \in Workers : /\ ClaimSound(claim'[w], did')
                            /\ claim'[w].ev # 0 => claim'[w].ev = claim[w].ev
                                                   /\ claim'[w].token = claim[w].token
  PROVE  OutboxInv'
<1>1. ASSUME NEW e \in Events PROVE EventSound(e, event'[e], owned'[e], last'[e], did'[e])
  <2>1. /\ EventSound(e, event[e], owned[e], last[e], did[e])
        /\ event'[e] \in OutboxRow /\ event'[e].state = event[e].state
        /\ event'[e].token = event[e].token
        /\ did[e] \subseteq did'[e] /\ owned'[e] = owned[e] /\ last'[e] = last[e]
    BY Zenon DEF OutboxInv
  <2> QED
    BY <2>1, Zenon DEF EventSound
<1>2. \A v, w \in Workers :
         v # w /\ claim'[v].ev # 0 /\ claim'[w].ev # 0 => claim'[v].token # claim'[w].token
  <2>1. \A v, w \in Workers :
           v # w /\ claim[v].ev # 0 /\ claim[w].ev # 0 => claim[v].token # claim[w].token
    BY Zenon DEF OutboxInv
  <2>2. \A w \in Workers : claim'[w].ev # 0 => claim'[w].ev = claim[w].ev
                                             /\ claim'[w].token = claim[w].token
    BY Zenon
  <2> QED
    BY ONLY <2>1, <2>2
<1> QED
  BY <1>1, <1>2, Zenon DEF OutboxInv

\* Steps that write one row and its operation, and at most give up a claim.
LEMMA RowStep ==
  ASSUME ReplicasCounted, OutboxInv, UNCHANGED <<last, did>>,
         NEW e \in Events, NEW row, NEW operation,
         operation \in {"none", "absent", "queued", "succeeded", "failed"},
         EventSound(e, row, operation, last[e], did[e]),
         event' = [event EXCEPT ![e] = row], owned' = [owned EXCEPT ![e] = operation],
         \/ UNCHANGED claim
         \/ \E w \in Workers : claim' = [claim EXCEPT ![w] = NoClaim]
  PROVE  OutboxInv'
<1>1. row \in OutboxRow
  BY Zenon DEF EventSound
<1>2. /\ event' \in [Events -> OutboxRow]
      /\ owned' \in [Events -> {"none", "absent", "queued", "succeeded", "failed"}]
      /\ last' \in [Events -> Tokens] /\ did' \in [Events -> SUBSET Tokens]
  BY <1>1, Zenon DEF OutboxInv
<1>3. \A d \in Events : EventSound(d, event'[d], owned'[d], last'[d], did'[d])
  <2> SUFFICES ASSUME NEW d \in Events PROVE EventSound(d, event'[d], owned'[d], last[d], did[d])
    BY Zenon
  <2>1. CASE d = e
    BY <2>1, Zenon DEF OutboxInv
  <2>2. CASE d # e
    <3>1. event'[d] = event[d] /\ owned'[d] = owned[d]
      BY <2>2, Zenon DEF OutboxInv
    <3> QED
      BY <3>1, Zenon DEF OutboxInv
  <2> QED
    BY <2>1, <2>2
<1>4. /\ claim' \in [Workers -> OutboxClaim]
      /\ \A v \in Workers : claim'[v] = claim[v] \/ claim'[v] = NoClaim
  BY NoClaimSound, Zenon DEF OutboxInv
<1>5. \A v \in Workers : ClaimSound(claim'[v], did')
  BY <1>4, NoClaimSound DEF OutboxInv
<1>6. \A v, w \in Workers :
         v # w /\ claim'[v].ev # 0 /\ claim'[w].ev # 0 => claim'[v].token # claim'[w].token
  BY <1>4, NoClaimSound DEF OutboxInv
<1> QED
  BY <1>2, <1>3, <1>4, <1>5, <1>6, Zenon DEF OutboxInv

\* Timers and stalls touch neither state nor token of a row.
LEMMA TimerStep ==
  ASSUME OutboxInv, ReplicasCounted, NEW e \in Events, RetryDue(e) \/ LeaseExpires(e) \/ Stall(e)
  PROVE  OutboxInv'
<1> DEFINE row == event'[e]
<1>1. event[e] \in OutboxRow
  BY Zenon DEF OutboxInv
<1>2. /\ event' \in [Events -> OutboxRow]
      /\ \A d \in Events : event'[d].state = event[d].state /\ event'[d].token = event[d].token
  <2>1. CASE RetryDue(e)
    BY <1>1, <2>1, Zenon DEF RetryDue, OutboxInv, OutboxRow
  <2>2. CASE LeaseExpires(e)
    BY <1>1, <2>2 DEF LeaseExpires, OutboxInv, OutboxRow
  <2>3. CASE Stall(e)
    <3>1. event[e].mishaps + 1 \in 0..MaxMishaps
      BY <1>1, <2>3 DEF Stall, OutboxRow, ReplicasCounted
    <3> QED
      BY <1>1, <2>3, <3>1, Zenon DEF Stall, OutboxInv, OutboxRow
  <2> QED
    BY <2>1, <2>2, <2>3, Zenon
<1>3. UNCHANGED <<owned, claim, last, did>>
  BY Zenon DEF RetryDue, LeaseExpires, Stall
<1> QED
  BY <1>2, <1>3, CalmStep, Zenon DEF OutboxInv

\* A worker gives up, dies, or its handler ends.
LEMMA WorkerStep ==
  ASSUME OutboxInv, ReplicasCounted, NEW w \in Workers,
         heartbeat(w) \/ Crash(w) \/ \E r \in {"ok", "temporary", "permanent"} : process(w, r)
  PROVE  OutboxInv'
<1>1. claim[w].result # "none"
  BY Zenon DEF heartbeat, Crash, process, Running, OutboxInv, ClaimSound
<1>2. /\ claim[w].ev \in Events /\ claim[w].token \in Tokens /\ claim[w] \in OutboxClaim
      /\ event[claim[w].ev] \in OutboxRow /\ claim[w].ev # 0
  BY <1>1, HeldIsEvent, Zenon DEF OutboxInv
<1>3. CASE heartbeat(w)
  <2>1. /\ event' \in [Events -> OutboxRow]
        /\ \A d \in Events : event'[d].state = event[d].state /\ event'[d].token = event[d].token
    BY <1>2, <1>3, Zenon DEF heartbeat, OutboxInv, OutboxRow
  <2> QED
    BY <1>3, <2>1, NoClaimSound, CalmStep DEF heartbeat, OutboxInv
<1>4. CASE Crash(w)
  <2>1. event[claim[w].ev].mishaps + 1 \in 0..MaxMishaps
    BY <1>2, <1>4 DEF Crash, OutboxRow, ReplicasCounted
  <2>2. /\ event' \in [Events -> OutboxRow]
        /\ \A d \in Events : event'[d].state = event[d].state /\ event'[d].token = event[d].token
    BY <1>2, <1>4, <2>1, Zenon DEF Crash, OutboxInv, OutboxRow
  <2> QED
    BY <1>4, <2>2, NoClaimSound, CalmStep, Zenon DEF Crash, OutboxInv
<1>5. ASSUME NEW r \in {"ok", "temporary", "permanent"}, process(w, r) PROVE OutboxInv'
  <2> DEFINE e == claim[w].ev
             c == [claim[w] EXCEPT !.result = r]
  <2>1. c \in OutboxClaim /\ c.ev = e /\ c.token = claim[w].token /\ c.result = r
    BY <1>2, Zenon DEF OutboxClaim
  <2>2. claim' = [claim EXCEPT ![w] = c] /\ UNCHANGED <<owned, last>>
    BY <1>5, Zenon DEF process
  <2>3. /\ did' \in [Events -> SUBSET Tokens] /\ \A d \in Events : did[d] \subseteq did'[d]
        /\ r = "ok" => claim[w].token \in did'[e]
    <3>1. CASE r = "ok"
      <4>1. did' = [did EXCEPT ![e] = @ \cup {claim[w].token}]
        BY <1>5, <3>1, Zenon DEF process
      <4> QED
        BY <1>2, <4>1, Zenon DEF OutboxInv
    <3>2. CASE r # "ok"
      BY <1>5, <3>2, Zenon DEF process, OutboxInv
    <3> QED
      BY <3>1, <3>2, Zenon
  <2>4. /\ event' \in [Events -> OutboxRow]
        /\ \A d \in Events : event'[d].state = event[d].state /\ event'[d].token = event[d].token
    <3>1. CASE r = "temporary"
      <4>1. event[e].mishaps + 1 \in 0..MaxMishaps
        <5>1. event[e].mishaps < MaxMishaps
          BY <1>5, <3>1 DEF process
        <5>2. event[e].mishaps \in 0..MaxMishaps
          BY <1>2, Zenon DEF OutboxRow
        <5>3. MaxMishaps \in Nat
          BY Zenon DEF ReplicasCounted
        <5> QED
          BY ONLY <5>1, <5>2, <5>3
      <4> DEFINE n == event[e].mishaps + 1
                 row == [event[e] EXCEPT !.mishaps = n]
      <4>2. event' = [event EXCEPT ![e] = row]
        BY <1>2, <1>5, <3>1 DEF process, OutboxInv, OutboxRow
      <4> HIDE DEF n
      <4>3. row \in OutboxRow /\ row.state = event[e].state /\ row.token = event[e].token
        BY <1>2, <4>1, Zenon DEF OutboxRow, n
      <4> HIDE DEF row
      <4> QED
        BY <1>2, <4>2, <4>3 DEF OutboxInv
    <3>2. CASE r # "temporary"
      BY <1>5, <3>2 DEF process, OutboxInv
    <3> QED
      BY <3>1, <3>2, Zenon
  <2> HIDE DEF c
  <2>5. ASSUME NEW v \in Workers PROVE ClaimSound(claim'[v], did')
    <3>1. CASE v = w
      BY <1>2, <2>1, <2>2, <2>3, <3>1 DEF ClaimSound, OutboxInv
    <3>2. CASE v # w
      <4>1. claim'[v] = claim[v] /\ ClaimSound(claim[v], did) /\ claim[v] \in OutboxClaim
        BY <2>2, <3>2 DEF OutboxInv
      <4>2. claim[v].result = "ok" => claim[v].ev \in Events
        BY <4>1, Zenon DEF ClaimSound, OutboxClaim
      <4> QED
        BY <2>3, <4>1, <4>2 DEF ClaimSound
    <3> QED
      BY <3>1, <3>2, Zenon
  <2>6. claim' \in [Workers -> OutboxClaim]
    BY <2>1, <2>2 DEF OutboxInv
  <2>7. \A v \in Workers : claim'[v].ev = claim[v].ev /\ claim'[v].token = claim[v].token
    BY <2>1, <2>2, Zenon DEF OutboxInv
  <2> QED
    BY <2>2, <2>3, <2>4, <2>5, <2>6, <2>7, CalmStep
<1> QED
  BY <1>3, <1>4, <1>5, Zenon

\* insert_in_tx: the event and its operation begin together.
LEMMA InsertStep ==
  ASSUME OutboxInv, ReplicasCounted, NEW e \in Events, insert_in_tx(e)
  PROVE  OutboxInv'
<1> DEFINE row == [event[e] EXCEPT !.state = "pending"]
           operation == IF e \in Owning THEN "queued" ELSE "none"
<1>1. event[e] \in OutboxRow /\ EventSound(e, event[e], owned[e], last[e], did[e])
  BY Zenon DEF OutboxInv
<1>2. row \in OutboxRow /\ row.state = "pending" /\ row.token = event[e].token
  BY <1>1, Zenon DEF OutboxRow
<1>3. event' = [event EXCEPT ![e] = row] /\ owned' = [owned EXCEPT ![e] = operation]
  BY Zenon DEF insert_in_tx
<1>4. UNCHANGED <<claim, last, did>>
  BY Zenon DEF insert_in_tx
<1> HIDE DEF row
<1>5. EventSound(e, row, operation, last[e], did[e])
  BY <1>1, <1>2, Zenon DEF EventSound
<1>6. operation \in {"none", "absent", "queued", "succeeded", "failed"}
  BY Zenon
<1> HIDE DEF operation
<1> QED
  BY <1>3, <1>4, <1>5, <1>6, RowStep

\* claim_filtered: the token is new to the event, so whoever held it before can
\* settle nothing from now on.
LEMMA ClaimStep ==
  ASSUME OutboxInv, ReplicasCounted, NEW w \in Workers, claim_filtered(w)
  PROVE  OutboxInv'
<1> DEFINE t == Min(FreshTokens)
<1>1. PICK e \in Events :
         /\ Eligible(e)
         /\ event' = [event EXCEPT ![e].token = t, ![e].live = TRUE]
         /\ claim' = [claim EXCEPT ![w] = [ev |-> e, token |-> t, result |-> "running"]]
         /\ last' = [last EXCEPT ![e] = t]
         /\ did' = [did EXCEPT ![e] = @ \ {t}]
  BY Zenon DEF claim_filtered
<1>2. UNCHANGED owned
  BY Zenon DEF claim_filtered
<1>3. /\ t \in Tokens /\ t # -1
      /\ \A v \in Workers : claim[v].ev # 0 => claim[v].token # t
  <2>1. Min(FreshTokens) \in Tokens /\ -1 \notin Tokens
    BY TokenIsFresh, Zenon
  <2>2. \A v \in Workers : claim[v].ev # 0 => claim[v].token # Min(FreshTokens)
    BY TokenIsFresh, Zenon
  <2> QED
    BY <2>1, <2>2
<1> HIDE DEF t
<1> DEFINE row == [event[e] EXCEPT !.token = t, !.live = TRUE]
           c == [ev |-> e, token |-> t, result |-> "running"]
<1>4. /\ event[e] \in OutboxRow /\ EventSound(e, event[e], owned[e], last[e], did[e])
      /\ event[e].state = "pending"
  BY <1>1, Zenon DEF OutboxInv, Eligible
<1>5. row \in OutboxRow /\ row.state = "pending" /\ row.token = t
  BY <1>3, <1>4 DEF OutboxRow
<1>6. event' = [event EXCEPT ![e] = row]
  BY <1>1, Zenon
<1>7. c \in OutboxClaim /\ c.ev = e /\ c.token = t /\ c.result = "running"
  BY <1>3, Zenon DEF OutboxClaim
<1>8. claim' = [claim EXCEPT ![w] = c]
  BY <1>1, Zenon
<1> HIDE DEF row, c
<1>9. /\ event' \in [Events -> OutboxRow] /\ claim' \in [Workers -> OutboxClaim]
      /\ last' \in [Events -> Tokens] /\ did' \in [Events -> SUBSET Tokens]
  <2>1. event' \in [Events -> OutboxRow]
    BY <1>5, <1>6 DEF OutboxInv
  <2>2. claim' \in [Workers -> OutboxClaim]
    BY <1>7, <1>8, Zenon DEF OutboxInv
  <2>3. last' \in [Events -> Tokens]
    BY <1>1, <1>3, Zenon DEF OutboxInv
  <2>4. did' \in [Events -> SUBSET Tokens]
    BY <1>1, Zenon DEF OutboxInv
  <2> QED
    BY <2>1, <2>2, <2>3, <2>4
<1>10. ASSUME NEW d \in Events PROVE EventSound(d, event'[d], owned'[d], last'[d], did'[d])
  <2>1. CASE d = e
    <3>1. event'[d] = row /\ owned'[d] = owned[e] /\ last'[d] = t
      BY <1>1, <1>2, <1>6, <2>1 DEF OutboxInv
    <3> QED
      BY <1>4, <1>5, <2>1, <3>1 DEF EventSound
  <2>2. CASE d # e
    <3>1. /\ event'[d] = event[d] /\ owned'[d] = owned[d] /\ last'[d] = last[d]
          /\ did'[d] = did[d]
      BY <1>1, <1>2, <1>6, <2>2 DEF OutboxInv
    <3> QED
      BY <3>1, Zenon DEF OutboxInv
  <2> QED
    BY <2>1, <2>2
<1>11. ASSUME NEW v \in Workers PROVE ClaimSound(claim'[v], did')
  <2>1. CASE v = w
    BY <1>7, <1>8, <2>1, Zenon DEF ClaimSound, OutboxInv, ReplicasCounted
  <2>2. CASE v # w
    <3>1. claim'[v] = claim[v] /\ ClaimSound(claim[v], did) /\ claim[v] \in OutboxClaim
      BY <1>8, <2>2, Zenon DEF OutboxInv
    <3>2. claim[v].result = "ok" => claim[v].token \in did'[claim[v].ev]
      <4> SUFFICES ASSUME claim[v].result = "ok" PROVE claim[v].token \in did'[claim[v].ev]
        BY Zenon
      <4>1. claim[v].ev # 0 /\ claim[v].ev \in Events /\ claim[v].token \in did[claim[v].ev]
        BY <3>1, Zenon DEF ClaimSound, OutboxClaim
      <4> QED
        BY <1>1, <1>3, <4>1, Zenon DEF OutboxInv
    <3> QED
      BY <3>1, <3>2, Zenon DEF ClaimSound
  <2> QED
    BY <2>1, <2>2, Zenon
<1>12. \A u, v \in Workers :
         u # v /\ claim'[u].ev # 0 /\ claim'[v].ev # 0 => claim'[u].token # claim'[v].token
  BY <1>3, <1>7, <1>8, Zenon DEF OutboxInv
<1> QED
  BY <1>2, <1>9, <1>10, <1>11, <1>12 DEF OutboxInv

\* complete_operation_delivery and fail_delivery: under the lease, or not at all.
LEMMA SettleStep ==
  ASSUME OutboxInv, ReplicasCounted, NEW w \in Workers, Settle(w)
  PROVE  OutboxInv'
<1> DEFINE e == claim[w].ev
<1>1. claim[w].result \in {"ok", "temporary", "permanent"}
  BY Zenon DEF Settle, complete_operation_delivery, fail_delivery
<1>2. /\ e \in Events /\ event[e] \in OutboxRow /\ claim[w].token \in Tokens
      /\ EventSound(e, event[e], owned[e], last[e], did[e]) /\ ClaimSound(claim[w], did)
  BY <1>1, HeldIsEvent, Zenon DEF OutboxInv
<1>3. claim' = [claim EXCEPT ![w] = NoClaim] /\ UNCHANGED <<last, did>>
  BY Zenon DEF Settle, complete_operation_delivery, fail_delivery
<1>a. \E v \in Workers : claim' = [claim EXCEPT ![v] = NoClaim]
  BY <1>3, Zenon
<1>4. CASE ~Leased(w)
  <2>1. UNCHANGED <<event, owned>>
    BY <1>4, Zenon DEF Settle, complete_operation_delivery, fail_delivery
  <2> QED
    BY <1>3, <2>1, NoClaimSound, CalmStep, Zenon DEF OutboxInv
<1>5. CASE Leased(w)
  <2>1. /\ event[e].token = claim[w].token /\ event[e].state = "pending"
        /\ last[e] = claim[w].token
    <3>1. event[e].token = claim[w].token /\ event[e].state = "pending"
      BY <1>5, Zenon DEF Leased
    <3>2. claim[w].token # -1
      BY <1>2, TokenIsFresh, Zenon
    <3> QED
      BY <1>2, <3>1, <3>2, Zenon DEF EventSound
  <2>2. owned[e] = IF e \in Owning THEN "queued" ELSE "none"
    BY <1>2, <2>1, Zenon DEF EventSound
  <2>3. CASE claim[w].result = "ok"
    <3> DEFINE row == [event[e] EXCEPT !.state = "delivered", !.token = -1, !.live = FALSE]
               operation == IF owned[e] = "queued" THEN "succeeded" ELSE owned[e]
    <3>1. row \in OutboxRow /\ row.state = "delivered" /\ row.token = -1
      BY <1>2, Zenon DEF OutboxRow
    <3>2. event' = [event EXCEPT ![e] = row] /\ owned' = [owned EXCEPT ![e] = operation]
      BY <1>5, <2>3 DEF Settle, complete_operation_delivery, fail_delivery
    <3>3. last[e] \in did[e]
      BY <1>2, <2>1, <2>3, Zenon DEF ClaimSound
    <3> HIDE DEF row
    <3>4. EventSound(e, row, operation, last[e], did[e])
      BY <2>2, <3>1, <3>3, Zenon DEF EventSound
    <3>5. operation \in {"none", "absent", "queued", "succeeded", "failed"}
      BY <2>2
    <3> HIDE DEF operation
    <3> QED
      BY <1>2, <1>3, <1>a, <3>2, <3>4, <3>5, RowStep
  <2>4. CASE claim[w].result = "permanent"
    <3> DEFINE row == [event[e] EXCEPT !.state = "failed", !.token = -1, !.live = FALSE]
               operation == IF owned[e] = "queued" THEN "failed" ELSE owned[e]
    <3>1. row \in OutboxRow /\ row.state = "failed" /\ row.token = -1
      BY <1>2, Zenon DEF OutboxRow
    <3>2. event' = [event EXCEPT ![e] = row] /\ owned' = [owned EXCEPT ![e] = operation]
      BY <1>5, <2>4 DEF Settle, complete_operation_delivery, fail_delivery
    <3> HIDE DEF row
    <3>3. EventSound(e, row, operation, last[e], did[e])
      BY <2>2, <3>1, Zenon DEF EventSound
    <3>4. operation \in {"none", "absent", "queued", "succeeded", "failed"}
      BY <2>2, Zenon
    <3> HIDE DEF operation
    <3> QED
      BY <1>2, <1>3, <1>a, <3>2, <3>3, <3>4, RowStep
  <2>5. CASE claim[w].result = "temporary"
    <3> DEFINE row == [event[e] EXCEPT !.token = -1, !.live = FALSE, !.due = FALSE]
               operation == owned[e]
    <3>1. row \in OutboxRow /\ row.state = "pending" /\ row.token = -1
      BY <1>2, <2>1, Zenon DEF OutboxRow
    <3>2. event' = [event EXCEPT ![e] = row]
      BY <1>5, <2>5, Zenon DEF Settle, complete_operation_delivery, fail_delivery
    <3>3. owned' = [owned EXCEPT ![e] = operation]
      <4>1. owned' = owned
        BY <1>5, <2>5, Zenon DEF Settle, complete_operation_delivery, fail_delivery
      <4> QED
        BY <1>2, <4>1, Zenon DEF OutboxInv
    <3> HIDE DEF row
    <3>4. EventSound(e, row, operation, last[e], did[e])
      BY <2>2, <3>1, Zenon DEF EventSound
    <3>5. operation \in {"none", "absent", "queued", "succeeded", "failed"}
      BY <2>2, Zenon
    <3> HIDE DEF operation
    <3> QED
      BY <1>2, <1>3, <1>a, <3>2, <3>3, <3>4, <3>5, RowStep
  <2> QED
    BY <1>1, <2>3, <2>4, <2>5, Zenon
<1> QED
  BY <1>4, <1>5, Zenon

\* Nothing is in the outbox at the start, and nobody holds a claim.
LEMMA InitOutbox == ASSUME ReplicasCounted, Init PROVE OutboxInv
<1>1. ASSUME NEW e \in Events
      PROVE  event[e] \in OutboxRow /\ EventSound(e, event[e], owned[e], last[e], did[e])
  <2>1. event[e] = [state |-> "absent", token |-> -1, live |-> FALSE, due |-> TRUE, mishaps |-> 0]
    BY Zenon DEF Init
  <2>2. event[e] \in OutboxRow /\ event[e].state = "absent" /\ event[e].token = -1
    <3>1. 0 \in 0..MaxMishaps
      BY DEF ReplicasCounted
    <3> QED
      BY ONLY <2>1, <3>1 DEF OutboxRow
  <2>3. owned[e] = IF e \in Owning THEN "absent" ELSE "none"
    BY Zenon DEF Init
  <2> QED
    BY <2>2, <2>3, Zenon DEF EventSound
<1>2. /\ event \in [Events -> OutboxRow]
      /\ owned \in [Events -> {"none", "absent", "queued", "succeeded", "failed"}]
  BY <1>1, Zenon DEF Init
<1>3. last \in [Events -> Tokens] /\ did \in [Events -> SUBSET Tokens]
  BY TokenIsFresh, Zenon DEF Init
<1>4. /\ claim \in [Workers -> OutboxClaim]
      /\ \A w \in Workers : ClaimSound(claim[w], did) /\ claim[w].ev = 0
  BY NoClaimSound, Zenon DEF Init
<1> QED
  BY <1>1, <1>2, <1>3, <1>4 DEF OutboxInv

\* Every step of workers, timers and producers keeps the invariant.
LEMMA NextOutbox == ReplicasCounted /\ OutboxInv /\ [Next]_vars => OutboxInv'
<1> SUFFICES ASSUME ReplicasCounted, OutboxInv, [Next]_vars PROVE OutboxInv'
  OBVIOUS
<1>1. CASE Next
  BY <1>1, InsertStep, TimerStep, ClaimStep, WorkerStep, SettleStep DEF Next
<1>2. CASE UNCHANGED vars
  BY <1>2, Zenon DEF vars, OutboxInv
<1> QED
  BY <1>1, <1>2

\* The inductive invariant of the outbox (outbox.rs): the token of a row is
\* that of its last claim, and no two workers hold the same token.
THEOREM OutboxInvAlways == ASSUME ReplicasCounted PROVE Spec => []OutboxInv
<1>1. Init => OutboxInv
  BY InitOutbox
<1>2. OutboxInv /\ [Next]_vars => OutboxInv'
  BY NextOutbox
<1> QED
  BY <1>1, <1>2, PTL DEF Spec

\* An event and the operation it owns are settled alike, whatever leases expire
\* and whichever replica dies (complete_operation_delivery, fail_delivery).
THEOREM OperationsFollowEvents == ASSUME ReplicasCounted PROVE Spec => []EventAndOperationAgree
<1>1. ASSUME OutboxInv, NEW e \in Owning
      PROVE  /\ (owned[e] = "succeeded") = (event[e].state = "delivered")
             /\ (owned[e] = "failed") = (event[e].state = "failed")
  <2>1. e \in Events /\ event[e] \in OutboxRow /\ EventSound(e, event[e], owned[e], last[e], did[e])
    BY <1>1, Zenon DEF OutboxInv, ReplicasCounted
  <2>2. event[e].state \in {"absent", "pending", "delivered", "failed"}
    BY <2>1, Zenon DEF OutboxRow
  <2> QED
    BY <2>1, <2>2, Zenon DEF EventSound
<1>2. OutboxInv => EventAndOperationAgree
  BY <1>1, Zenon DEF EventAndOperationAgree
<1> QED
  BY <1>2, OutboxInvAlways, PTL

\* A delivered event was processed to its end under the claim that delivered it:
\* a worker that lost its lease settles nothing for its successor (the token in
\* every settling statement).
THEOREM ProcessorsDeliver == ASSUME ReplicasCounted PROVE Spec => []DeliveredByItsProcessor
<1>1. OutboxInv => DeliveredByItsProcessor
  BY Zenon DEF OutboxInv, EventSound, DeliveredByItsProcessor
<1> QED
  BY <1>1, OutboxInvAlways, PTL

\* A settled row is not pending, and every statement that writes a row asks for
\* a pending one.
LEMMA SettledStep ==
  ASSUME ReplicasCounted, OutboxInv, Next, NEW e \in Events,
         event[e].state \in {"delivered", "failed"}
  PROVE  event'[e].state = event[e].state /\ owned'[e] = owned[e]
<1>1. /\ event[e] \in OutboxRow /\ event \in [Events -> OutboxRow]
      /\ owned = [d \in Events |-> owned[d]]
  BY Zenon DEF OutboxInv
<1>2. CASE \E d \in Events : insert_in_tx(d) \/ RetryDue(d) \/ LeaseExpires(d) \/ Stall(d)
  <2>1. PICK d \in Events : insert_in_tx(d) \/ RetryDue(d) \/ LeaseExpires(d) \/ Stall(d)
    BY <1>2, Zenon
  <2>2. CASE insert_in_tx(d)
    <3>1. d # e
      BY <2>2, Zenon DEF insert_in_tx
    <3> QED
      BY <1>1, <2>2, <3>1, Zenon DEF insert_in_tx
  <2>3. CASE RetryDue(d)
    BY <1>1, <2>3, Zenon DEF RetryDue, OutboxRow
  <2>4. CASE LeaseExpires(d)
    BY <1>1, <2>4, Zenon DEF LeaseExpires, OutboxRow
  <2>5. CASE Stall(d)
    BY <1>1, <2>5, Zenon DEF Stall, OutboxRow
  <2> QED
    BY <2>1, <2>2, <2>3, <2>4, <2>5
<1>3. CASE \E w \in Workers : claim_filtered(w)
  BY <1>1, <1>3 DEF claim_filtered
<1>4. CASE \E w \in Workers : \/ heartbeat(w) \/ Crash(w)
                              \/ \E r \in {"ok", "temporary", "permanent"} : process(w, r)
  <2>1. PICK w \in Workers : \/ heartbeat(w) \/ Crash(w)
                             \/ \E r \in {"ok", "temporary", "permanent"} : process(w, r)
    BY <1>4, Zenon
  <2>2. CASE heartbeat(w)
    BY <2>2, Zenon DEF heartbeat
  <2>3. CASE Crash(w)
    BY <1>1, <2>3, Zenon DEF Crash, OutboxRow
  <2>4. ASSUME NEW r, process(w, r) PROVE event'[e].state = event[e].state /\ owned'[e] = owned[e]
    BY <1>1, <2>4, Zenon DEF process, OutboxRow
  <2> QED
    BY <2>1, <2>2, <2>3, <2>4, Zenon
<1>5. CASE \E w \in Workers : Settle(w)
  <2>1. PICK w \in Workers : Settle(w)
    BY <1>5, Zenon
  <2>2. CASE ~Leased(w)
    BY <2>1, <2>2, Zenon DEF Settle, complete_operation_delivery, fail_delivery
  <2>3. CASE Leased(w)
    <3>1. claim[w].ev # e
      BY <2>3, Zenon DEF Leased
    <3> QED
      BY <1>1, <2>1, <2>3, <3>1 DEF Settle, complete_operation_delivery, fail_delivery
  <2> QED
    BY <2>2, <2>3, Zenon
<1> QED
  BY <1>2, <1>3, <1>4, <1>5, Zenon DEF Next

\* No late worker, retry or expired lease reopens or changes a settled event or
\* its operation (delivered_at IS NULL in every settling statement).
THEOREM SettledStays == ASSUME ReplicasCounted PROVE Spec => [][SettledForGood]_vars
<1>1. OutboxInv /\ [Next]_vars => [SettledForGood]_vars
  BY SettledStep, Zenon DEF SettledForGood
<1> QED
  BY <1>1, OutboxInvAlways, PTL DEF Spec

-----------------------------------------------------------------------------
(* Sessions of the command line. *)

CONSTANTS Refreshers, VERIFY_LIMIT, RECENT_AUTH_WINDOW, DEVICE_LIFETIME, ACCESS_LIFETIME,
          REFRESH_LIFETIME, MaxClock, MaxGen, MaxSignIns
VARIABLES clock, web, form, request, approver, cli, history, rotator, leaver, ledger

Cli == INSTANCE CliSessions

\* Limits and lifetimes are numbers, and a family outlives the device request
\* and the access credential it starts with.
LifetimesOrdered ==
    /\ {VERIFY_LIMIT, RECENT_AUTH_WINDOW, DEVICE_LIFETIME, ACCESS_LIFETIME, REFRESH_LIFETIME,
        MaxClock, MaxGen} \subseteq Nat
    /\ MaxSignIns \in Nat \ {0}
    /\ DEVICE_LIFETIME <= REFRESH_LIFETIME /\ ACCESS_LIFETIME <= REFRESH_LIFETIME

\* Nothing is delivered for a request that is not consumed, and nobody rotates
\* what was not delivered.
Delivered ==
    /\ cli.count <= 1
    /\ request.status \in {"none", "pending", "approved"} => cli.count = 0
    /\ cli.count = 0 => cli.gen = 0 /\ \A r \in Refreshers : rotator[r].stage = "idle"

\* Every recorded authentication time is one of a sign-in.
Authenticated ==
    /\ web.at <= clock
    /\ approver.at <= web.at /\ request.at <= web.at /\ cli.at <= web.at

\* No refresh can succeed any more.
Over(c, now) ==
    c.revoked \/ c.refresh <= now \/ now >= c.made + REFRESH_LIFETIME \/ c.gen = MaxGen

\* A rotation in progress has the current credential, alone; a refused one had
\* a spent one of a revoked family, or found the family over.
RotatorOK(x, c, spent, now) ==
    /\ x.stage \in {"checked", "held"} => x.tok = c.gen
    /\ x.stage = "held" => ~c.revoked
    /\ x.stage = "answered" /\ ~x.got => Over(c, now) /\ (x.tok \in spent => c.revoked)

Rotation ==
    /\ history = 0..(cli.gen - 1)
    /\ \A r \in Refreshers : RotatorOK(rotator[r], cli, history, clock)
    /\ \A r, o \in Refreshers : rotator[r].stage \in {"checked", "held"} /\
          rotator[o].stage \in {"checked", "held"} => r = o

Bounded == ledger.admitted <= ledger.count /\ ledger.admitted <= VERIFY_LIMIT

CliInv == /\ Cli!TypeOK /\ Cli!FamilyNeverExtended
          /\ Delivered /\ Authenticated /\ Rotation /\ Bounded

WebRow == [n : 1..MaxSignIns, at : Cli!Times, live : BOOLEAN]
RequestRow == [status : {"none", "pending", "approved", "consumed", "expired"},
               expires : Cli!Times, at : Cli!Times]
ApproverRow == [stage : {"idle", "read"}, at : Cli!Times]
CliRow == [made : Cli!Times, count : 0..2, gen : 0..MaxGen, access : Cli!Times,
           refresh : Cli!Times, revoked : BOOLEAN, at : Cli!Times]
RotatorRow == [stage : {"idle", "checked", "held", "answered"}, tok : 0..MaxGen, got : BOOLEAN]
LedgerRow == [count : 0..(VERIFY_LIMIT + 1), admitted : 0..(VERIFY_LIMIT + 1)]

\* The types of the variables, one by one.
LEMMA CliTypes ==
  Cli!TypeOK <=> /\ clock \in 0..MaxClock /\ web \in WebRow /\ form \in 0..MaxSignIns
                 /\ request \in RequestRow /\ approver \in ApproverRow /\ cli \in CliRow
                 /\ history \subseteq 0..MaxGen /\ rotator \in [Refreshers -> RotatorRow]
                 /\ leaver \in {"idle", "validated", "done"} /\ ledger \in LedgerRow
  BY Zenon DEF Cli!TypeOK, WebRow, RequestRow, ApproverRow, CliRow, RotatorRow, LedgerRow

\* The times and counts are natural numbers.
LEMMA CliNumbers ==
  ASSUME LifetimesOrdered, CliInv
  PROVE  /\ clock \in Nat /\ MaxClock \in Nat /\ clock <= MaxClock
         /\ ACCESS_LIFETIME \in Nat /\ REFRESH_LIFETIME \in Nat /\ DEVICE_LIFETIME \in Nat
         /\ MaxGen \in Nat /\ VERIFY_LIMIT \in Nat
         /\ Cli!Times = 0..(MaxClock + REFRESH_LIFETIME + ACCESS_LIFETIME)
         /\ web.at \in Nat /\ request.at \in Nat /\ approver.at \in Nat
         /\ cli.at \in Nat /\ cli.made \in Nat /\ cli.access \in Nat /\ cli.refresh \in Nat
         /\ cli.gen \in Nat /\ cli.gen <= MaxGen
<1>1. /\ MaxClock \in Nat /\ ACCESS_LIFETIME \in Nat /\ REFRESH_LIFETIME \in Nat
      /\ DEVICE_LIFETIME \in Nat /\ MaxGen \in Nat /\ VERIFY_LIMIT \in Nat
  BY Zenon DEF LifetimesOrdered
<1>2. /\ clock \in 0..MaxClock /\ web \in WebRow /\ request \in RequestRow
      /\ approver \in ApproverRow /\ cli \in CliRow
  BY CliTypes, Zenon DEF CliInv
<1>3. Cli!Times = 0..(MaxClock + REFRESH_LIFETIME + ACCESS_LIFETIME)
  BY Zenon DEF Cli!Times
<1>4. Cli!Times \subseteq Nat
  BY ONLY <1>1, <1>3
<1>5. clock \in Nat /\ clock <= MaxClock
  BY ONLY <1>1, <1>2
<1>6. web.at \in Nat /\ request.at \in Nat /\ approver.at \in Nat
  BY ONLY <1>2, <1>4, Zenon DEF WebRow, RequestRow, ApproverRow
<1>7. cli.at \in Nat /\ cli.made \in Nat /\ cli.access \in Nat /\ cli.refresh \in Nat
  BY ONLY <1>2, <1>4, Zenon DEF CliRow
<1>8. cli.gen \in Nat /\ cli.gen <= MaxGen
  <2>1. cli.gen \in 0..MaxGen
    BY ONLY <1>2, Zenon DEF CliRow
  <2> QED
    BY ONLY <1>1, <2>1
<1> QED
  BY ONLY <1>1, <1>3, <1>5, <1>6, <1>7, <1>8, Zenon

\* No session, no request.
LEMMA InitCli == ASSUME LifetimesOrdered, Cli!Init PROVE CliInv
<1>1. /\ clock = 0 /\ form = 0 /\ history = {} /\ leaver = "idle"
      /\ web = [n |-> 1, at |-> 0, live |-> TRUE]
      /\ request = [status |-> "none", expires |-> 0, at |-> 0]
      /\ approver = [stage |-> "idle", at |-> 0] /\ ledger = [count |-> 0, admitted |-> 0]
  BY Zenon DEF Cli!Init
<1>2. /\ cli = [made |-> 0, count |-> 0, gen |-> 0, access |-> 0, refresh |-> 0,
                revoked |-> FALSE, at |-> 0]
      /\ rotator = [r \in Refreshers |-> [stage |-> "idle", tok |-> 0, got |-> FALSE]]
  BY Zenon DEF Cli!Init
<1>3. /\ MaxClock \in Nat /\ ACCESS_LIFETIME \in Nat /\ REFRESH_LIFETIME \in Nat
      /\ MaxGen \in Nat /\ VERIFY_LIMIT \in Nat /\ MaxSignIns \in Nat \ {0}
  BY Zenon DEF LifetimesOrdered
<1>4. /\ 0 \in Cli!Times /\ 0 \in 0..MaxGen /\ 0 \in 0..(VERIFY_LIMIT + 1)
      /\ 1 \in 1..MaxSignIns /\ 0 \in 0..MaxSignIns /\ 0 \in 0..MaxClock /\ 0 \in 0..2
  BY ONLY <1>3 DEF Cli!Times
<1>5. web \in WebRow /\ request \in RequestRow /\ approver \in ApproverRow /\ ledger \in LedgerRow
  BY ONLY <1>1, <1>4, Zenon DEF WebRow, RequestRow, ApproverRow, LedgerRow
<1>6. cli \in CliRow
  BY ONLY <1>2, <1>4, Zenon DEF CliRow
<1>7. rotator \in [Refreshers -> RotatorRow]
  <2>1. [stage |-> "idle", tok |-> 0, got |-> FALSE] \in RotatorRow
    BY ONLY <1>4, Zenon DEF RotatorRow
  <2> QED
    BY ONLY <1>2, <2>1, Zenon
<1>8. Cli!TypeOK
  <2>1. history \subseteq 0..MaxGen
    BY ONLY <1>1, Zenon
  <2> QED
    BY <1>1, <1>4, <1>5, <1>6, <1>7, <2>1, CliTypes, Zenon
<1>9. Cli!FamilyNeverExtended
  BY ONLY <1>2, <1>3 DEF Cli!FamilyNeverExtended, Cli!FamilyMax
<1>10. Delivered /\ Authenticated /\ Bounded
  <2>1. /\ cli.count = 0 /\ cli.gen = 0 /\ cli.at = 0 /\ web.at = 0 /\ clock = 0
        /\ approver.at = 0 /\ request.at = 0 /\ ledger.admitted = 0 /\ ledger.count = 0
        /\ \A r \in Refreshers : rotator[r].stage = "idle"
    BY ONLY <1>1, <1>2, Zenon
  <2>2. 0 <= 0 /\ 0 <= 1 /\ 0 <= VERIFY_LIMIT
    BY ONLY <1>3
  <2> QED
    BY ONLY <2>1, <2>2, Zenon DEF Delivered, Authenticated, Bounded
<1>11. \A r \in Refreshers : rotator[r].stage = "idle"
  BY ONLY <1>2, Zenon
<1>12. history = 0..(cli.gen - 1)
  <2>1. history = {} /\ cli.gen = 0
    BY ONLY <1>1, <1>2, Zenon
  <2>2. 0..(0 - 1) = {}
    OBVIOUS
  <2> QED
    BY ONLY <2>1, <2>2, Zenon
<1>13. Rotation
  BY ONLY <1>11, <1>12, Zenon DEF Rotation, RotatorOK
<1> QED
  BY ONLY <1>8, <1>9, <1>10, <1>13, Zenon DEF CliInv

Open == {"none", "pending", "approved"}

\* A step that leaves the clock, the session and the refreshes alone.
LEMMA SideStep ==
  ASSUME CliInv, UNCHANGED <<clock, cli, history, rotator>>,
         web' \in WebRow, form' \in 0..MaxSignIns, request' \in RequestRow,
         approver' \in ApproverRow, leaver' \in {"idle", "validated", "done"},
         ledger' \in LedgerRow,
         request'.status \in Open => request.status \in Open,
         web'.at <= clock, approver'.at <= web'.at, request'.at <= web'.at, cli.at <= web'.at,
         Bounded'
  PROVE  CliInv'
<1>1. Cli!TypeOK'
  <2>1. /\ clock \in 0..MaxClock /\ cli \in CliRow /\ history \subseteq 0..MaxGen
        /\ rotator \in [Refreshers -> RotatorRow]
    BY CliTypes, Zenon DEF CliInv
  <2> QED
    BY <2>1, Zenon
       DEF Cli!TypeOK, WebRow, RequestRow, ApproverRow, CliRow, RotatorRow, LedgerRow
<1>2. Cli!FamilyNeverExtended'
  BY Zenon DEF CliInv, Cli!FamilyNeverExtended, Cli!FamilyMax
<1>3. Delivered'
  BY Zenon DEF CliInv, Delivered, Open
<1>4. Authenticated'
  BY Zenon DEF Authenticated
<1>5. Rotation'
  <2>1. Rotation
    BY Zenon DEF CliInv
  <2> QED
    BY ONLY <2>1, UNCHANGED <<clock, cli, history, rotator>>, Zenon
       DEF Rotation
<1> QED
  BY ONLY <1>1, <1>2, <1>3, <1>4, <1>5, Bounded', Zenon DEF CliInv


\* The steps of the browser, of the device request before its delivery, and the
\* start of a logout.
LEMMA BrowserStep ==
  ASSUME LifetimesOrdered, CliInv,
         \/ Cli!SignIn \/ Cli!SignOut \/ Cli!start \/ Cli!device_verify_page \/ Cli!logout
         \/ \E right \in BOOLEAN : Cli!approve_authenticated(right)
         \/ Cli!poll /\ cli' = cli
  PROVE  CliInv'
<1>1. /\ web \in WebRow /\ form \in 0..MaxSignIns /\ request \in RequestRow
      /\ approver \in ApproverRow /\ leaver \in {"idle", "validated", "done"}
      /\ ledger \in LedgerRow /\ Authenticated /\ Bounded
  BY CliTypes, Zenon DEF CliInv
<1>2. /\ clock \in Nat /\ clock <= MaxClock /\ MaxClock \in Nat /\ DEVICE_LIFETIME \in Nat
      /\ REFRESH_LIFETIME \in Nat /\ ACCESS_LIFETIME \in Nat
      /\ web.at \in Nat /\ request.at \in Nat /\ approver.at \in Nat /\ cli.at \in Nat
      /\ Cli!Times = 0..(MaxClock + REFRESH_LIFETIME + ACCESS_LIFETIME)
      /\ DEVICE_LIFETIME <= REFRESH_LIFETIME /\ MaxSignIns \in Nat
  BY CliNumbers, Zenon DEF LifetimesOrdered
<1>3. clock \in Cli!Times /\ clock + DEVICE_LIFETIME \in Cli!Times /\ 0 \in Cli!Times
  BY ONLY <1>2
<1>4. /\ web.at <= clock /\ approver.at <= web.at /\ request.at <= web.at /\ cli.at <= web.at
  BY <1>1, Zenon DEF Authenticated
<1>5. ASSUME UNCHANGED ledger PROVE Bounded'
  BY ONLY <1>1, <1>5, Zenon DEF Bounded
<1>6. CASE Cli!SignIn
  <2>1. /\ web.n < MaxSignIns /\ web' = [n |-> web.n + 1, at |-> clock, live |-> TRUE]
        /\ UNCHANGED <<clock, form, request, approver, cli, history, rotator, leaver, ledger>>
    BY <1>6, Zenon DEF Cli!SignIn
  <2>2. web.n + 1 \in 1..MaxSignIns
    BY ONLY <1>1, <1>2, <2>1 DEF WebRow
  <2>3. web' \in WebRow /\ web'.at = clock
    BY ONLY <1>3, <2>1, <2>2, Zenon DEF WebRow
  <2>4. /\ web'.at <= clock /\ approver.at <= web'.at /\ request.at <= web'.at /\ cli.at <= web'.at
    BY ONLY <1>2, <1>4, <2>3
  <2> QED
    BY ONLY CliInv, <1>1, <1>5, <2>1, <2>3, <2>4, SideStep, Zenon
<1>7. CASE Cli!SignOut
  <2>1. /\ web' = [web EXCEPT !.live = FALSE]
        /\ UNCHANGED <<clock, form, request, approver, cli, history, rotator, leaver, ledger>>
    BY <1>7, Zenon DEF Cli!SignOut
  <2>2. web' \in WebRow /\ web'.at = web.at
    BY ONLY <1>1, <2>1, Zenon DEF WebRow
  <2> QED
    BY ONLY CliInv, <1>1, <1>4, <1>5, <2>1, <2>2, SideStep, Zenon
<1>8. CASE Cli!start
  <2>1. /\ request.status = "none"
        /\ request' = [status |-> "pending", expires |-> clock + DEVICE_LIFETIME, at |-> 0]
        /\ UNCHANGED <<clock, web, form, approver, cli, history, rotator, leaver, ledger>>
    BY <1>8, Zenon DEF Cli!start
  <2>2. request' \in RequestRow /\ request'.at = 0
    BY ONLY <1>3, <2>1, Zenon DEF RequestRow
  <2>3. request'.at <= web.at /\ request.status \in Open
    BY ONLY <1>2, <2>1, <2>2 DEF Open
  <2> QED
    BY ONLY CliInv, <1>1, <1>4, <1>5, <2>1, <2>2, <2>3, SideStep, Zenon
<1>9. CASE Cli!device_verify_page
  <2>1. /\ form' = web.n
        /\ UNCHANGED <<clock, web, request, approver, cli, history, rotator, leaver, ledger>>
    BY <1>9, Zenon DEF Cli!device_verify_page
  <2>2. form' \in 0..MaxSignIns
    BY ONLY <1>1, <1>2, <2>1 DEF WebRow
  <2> QED
    BY ONLY CliInv, <1>1, <1>4, <1>5, <2>1, <2>2, SideStep, Zenon
<1>10. CASE Cli!logout
  <2>1. /\ leaver' = "validated"
        /\ UNCHANGED <<clock, web, form, request, approver, cli, history, rotator, ledger>>
    BY <1>10, Zenon DEF Cli!logout
  <2> QED
    BY ONLY CliInv, <1>1, <1>4, <1>5, <2>1, SideStep, Zenon
<1>11. ASSUME NEW right \in BOOLEAN, Cli!approve_authenticated(right) PROVE CliInv'
  <2>1. /\ approver' = [stage |-> "idle", at |-> 0]
        /\ \/ request' = request
           \/ /\ request.status = "pending"
              /\ request' = [request EXCEPT !.status = "approved", !.at = approver.at]
        /\ UNCHANGED <<clock, web, form, cli, history, rotator, leaver, ledger>>
    BY <1>11, Zenon DEF Cli!approve_authenticated
  <2>2. approver' \in ApproverRow /\ approver'.at <= web.at
    BY ONLY <1>2, <1>3, <2>1 DEF ApproverRow
  <2>3. /\ request' \in RequestRow /\ request'.at <= web.at
        /\ request'.status \in Open => request.status \in Open
    <3>1. approver.at \in Cli!Times
      BY ONLY <1>1, Zenon DEF ApproverRow
    <3>2. CASE request' = request
      BY ONLY <1>1, <1>4, <3>2, Zenon
    <3>3. CASE /\ request.status = "pending"
               /\ request' = [request EXCEPT !.status = "approved", !.at = approver.at]
      BY ONLY <1>1, <1>4, <3>1, <3>3, Zenon DEF RequestRow, Open
    <3> QED
      BY <2>1, <3>2, <3>3, Zenon
  <2> QED
    BY ONLY CliInv, <1>1, <1>4, <1>5, <2>1, <2>2, <2>3, SideStep, Zenon
<1>12. CASE Cli!poll /\ cli' = cli
  <2>1. /\ \/ request' = [request EXCEPT !.status = "expired"]
           \/ request' = [request EXCEPT !.status = "consumed"]
        /\ UNCHANGED <<clock, web, form, approver, history, rotator, leaver, ledger>>
    BY <1>12, Zenon DEF Cli!poll, Cli!Consumed
  <2>2. /\ request' \in RequestRow /\ request'.at = request.at /\ request'.status \notin Open
    BY ONLY <1>1, <2>1, Zenon DEF RequestRow, Open
  <2> QED
    BY ONLY CliInv, <1>1, <1>4, <1>5, <1>12, <2>1, <2>2, SideStep, Zenon
<1> QED
  BY <1>6, <1>7, <1>8, <1>9, <1>10, <1>11, <1>12, Zenon

\* The count of attempts saturates above the limit, and what it admits is
\* counted.
LEMMA ApproveStep == ASSUME LifetimesOrdered, CliInv, Cli!device_approve PROVE CliInv'
<1>1. /\ web \in WebRow /\ form \in 0..MaxSignIns /\ request \in RequestRow
      /\ approver \in ApproverRow /\ leaver \in {"idle", "validated", "done"}
      /\ ledger \in LedgerRow /\ Authenticated /\ Bounded /\ VERIFY_LIMIT \in Nat
      /\ web.at \in Nat
  BY CliTypes, CliNumbers, Zenon DEF CliInv
<1> DEFINE n == ledger.count
           m == ledger.admitted
           L == VERIFY_LIMIT
<1>2. n \in 0..(L + 1) /\ m \in 0..(L + 1) /\ m <= n /\ m <= L
  BY ONLY <1>1, Zenon DEF LedgerRow, Bounded
<1>3. /\ ledger' = [count |-> Cli!Counted(n),
                    admitted |-> IF Cli!allow(n) THEN Cli!Least(m + 1, L + 1) ELSE m]
      /\ approver' = approver \/ approver' = [stage |-> "read", at |-> web.at]
      /\ UNCHANGED <<clock, web, form, request, cli, history, rotator, leaver>>
  BY Zenon DEF Cli!device_approve
<1> HIDE DEF n, m, L
<1>4. L \in Nat /\ L = VERIFY_LIMIT
  BY <1>1, Zenon DEF L
<1>5. Cli!Counted(n) = IF n <= L THEN n + 1 ELSE n
  BY ONLY <1>2, <1>4 DEF Cli!Counted, Cli!Greatest, Cli!Least
<1>6. Cli!allow(n) <=> n < L
  BY ONLY <1>2, <1>4, <1>5 DEF Cli!allow
<1>7. m < L => Cli!Least(m + 1, L + 1) = m + 1
  BY ONLY <1>2, <1>4 DEF Cli!Least
<1>8. ledger'.count = Cli!Counted(n) /\ ledger'.admitted = IF n < L THEN m + 1 ELSE m
  <2>1. ledger'.admitted = IF Cli!allow(n) THEN Cli!Least(m + 1, L + 1) ELSE m
    BY ONLY <1>3, Zenon
  <2>2. n < L => m < L
    BY ONLY <1>2, <1>4
  <2>3. ledger'.count = Cli!Counted(n)
    BY ONLY <1>3, Zenon
  <2> QED
    BY ONLY <1>6, <1>7, <2>1, <2>2, <2>3, Zenon
<1>9. /\ ledger'.count \in 0..(L + 1) /\ ledger'.admitted \in 0..(L + 1)
      /\ ledger'.admitted <= ledger'.count /\ ledger'.admitted <= L
  <2>1. CASE n < L
    BY ONLY <1>2, <1>4, <1>5, <1>8, <2>1
  <2>2. CASE ~(n < L)
    BY ONLY <1>2, <1>4, <1>5, <1>8, <2>2
  <2> QED
    BY <2>1, <2>2, Zenon
<1>10. ledger' \in LedgerRow
  BY ONLY <1>3, <1>4, <1>8, <1>9, Zenon DEF LedgerRow
<1>11. Bounded'
  BY ONLY <1>4, <1>9, Zenon DEF Bounded
<1>12. /\ web.at <= clock /\ approver.at <= web.at /\ request.at <= web.at /\ cli.at <= web.at
  BY <1>1, Zenon DEF Authenticated
<1>13. approver' \in ApproverRow /\ approver'.at <= web.at
  <2>1. web.at \in Cli!Times /\ web.at <= web.at
    BY ONLY <1>1 DEF WebRow
  <2> QED
    BY ONLY <1>1, <1>3, <1>12, <2>1 DEF ApproverRow
<1> QED
  BY ONLY CliInv, <1>1, <1>3, <1>10, <1>11, <1>12, <1>13, SideStep, Zenon

\* A tick of the clock.
LEMMA TickStep == ASSUME LifetimesOrdered, CliInv, Cli!Tick PROVE CliInv'
<1>1. /\ clock < MaxClock /\ clock' = clock + 1 /\ ledger' = [count |-> 0, admitted |-> 0]
      /\ UNCHANGED <<web, form, request, approver, cli, history, rotator, leaver>>
  BY Zenon DEF Cli!Tick
<1>2. /\ clock \in Nat /\ MaxClock \in Nat /\ VERIFY_LIMIT \in Nat /\ web.at \in Nat
      /\ cli.refresh \in Nat /\ cli.made \in Nat /\ REFRESH_LIFETIME \in Nat
  BY CliNumbers, Zenon
<1>3. Cli!TypeOK /\ Cli!FamilyNeverExtended /\ Delivered /\ Authenticated /\ Rotation
  BY Zenon DEF CliInv
<1>4. clock' \in 0..MaxClock
  BY ONLY <1>1, <1>2
<1>5. ledger' \in LedgerRow /\ Bounded'
  <2>1. 0 \in 0..(VERIFY_LIMIT + 1) /\ 0 <= VERIFY_LIMIT
    BY ONLY <1>2
  <2> QED
    BY ONLY <1>1, <2>1 DEF LedgerRow, Bounded
<1>6. Cli!TypeOK'
  BY ONLY <1>1, <1>3, <1>4, <1>5 DEF Cli!TypeOK, LedgerRow
<1>7. Cli!FamilyNeverExtended' /\ Delivered'
  BY ONLY <1>1, <1>3, Zenon DEF Cli!FamilyNeverExtended, Cli!FamilyMax, Delivered
<1>8. Authenticated'
  <2>1. web.at <= clock
    BY ONLY <1>3, Zenon DEF Authenticated
  <2>2. web.at <= clock + 1
    BY ONLY <1>2, <2>1
  <2> QED
    BY ONLY <1>1, <1>3, <2>2, Zenon DEF Authenticated
<1>9. Over(cli, clock) => Over(cli', clock')
  <2>1. cli.made + REFRESH_LIFETIME \in Nat
    BY ONLY <1>2
  <2>2. cli.refresh <= clock => cli.refresh <= clock + 1
    BY ONLY <1>2
  <2>3. clock >= cli.made + REFRESH_LIFETIME => clock + 1 >= cli.made + REFRESH_LIFETIME
    BY ONLY <1>2, <2>1
  <2> QED
    BY ONLY <1>1, <2>1, <2>2, <2>3, Zenon DEF Over
<1>10. Rotation'
  BY ONLY <1>1, <1>3, <1>9, Zenon DEF Rotation, RotatorOK
<1> QED
  BY ONLY <1>5, <1>6, <1>7, <1>8, <1>10, Zenon DEF CliInv


\* A step of the session and its refreshes, at one time.
LEMMA SessionStep ==
  ASSUME CliInv, UNCHANGED <<clock, web, form, approver, ledger>>,
         request' \in RequestRow, leaver' \in {"idle", "validated", "done"},
         cli' \in CliRow, history' \subseteq 0..MaxGen, rotator' \in [Refreshers -> RotatorRow],
         Cli!FamilyNeverExtended', Delivered', Rotation',
         request'.at <= web.at, cli'.at <= web.at
  PROVE  CliInv'
<1>1. /\ clock \in 0..MaxClock /\ web \in WebRow /\ form \in 0..MaxSignIns
      /\ approver \in ApproverRow /\ ledger \in LedgerRow /\ Authenticated /\ Bounded
  BY CliTypes, Zenon DEF CliInv
<1>2. Cli!TypeOK'
  BY <1>1, Zenon DEF Cli!TypeOK, WebRow, RequestRow, ApproverRow, CliRow, RotatorRow, LedgerRow
<1>3. Authenticated' /\ Bounded'
  BY <1>1, Zenon DEF Authenticated, Bounded
<1> QED
  BY ONLY <1>2, <1>3, Cli!FamilyNeverExtended', Delivered', Rotation', Zenon DEF CliInv

\* The delivery of the session.
LEMMA DeliverStep ==
  ASSUME LifetimesOrdered, CliInv, Cli!poll, cli' # cli PROVE CliInv'
<1>1. /\ request.status = "approved" /\ request' = [request EXCEPT !.status = "consumed"]
      /\ cli' = [made |-> clock, count |-> Cli!Least(cli.count + 1, 2), gen |-> 0,
                 access |-> clock + ACCESS_LIFETIME, refresh |-> clock + REFRESH_LIFETIME,
                 revoked |-> FALSE, at |-> request.at]
      /\ UNCHANGED <<clock, web, form, approver, history, rotator, leaver, ledger>>
  BY Zenon DEF Cli!poll, Cli!Consumed, Cli!create_cli_session_in_tx
<1>2. Delivered /\ Authenticated /\ Rotation
  BY Zenon DEF CliInv
<1>3. cli.count = 0 /\ cli.gen = 0 /\ \A r \in Refreshers : rotator[r].stage = "idle"
  BY ONLY <1>1, <1>2, Zenon DEF Delivered
<1>4. /\ request \in RequestRow /\ leaver \in {"idle", "validated", "done"}
      /\ history \subseteq 0..MaxGen /\ rotator \in [Refreshers -> RotatorRow]
  BY CliTypes, Zenon DEF CliInv
<1>5. /\ clock \in Nat /\ clock <= MaxClock /\ MaxClock \in Nat /\ MaxGen \in Nat
      /\ REFRESH_LIFETIME \in Nat /\ ACCESS_LIFETIME \in Nat /\ ACCESS_LIFETIME <= REFRESH_LIFETIME
      /\ Cli!Times = 0..(MaxClock + REFRESH_LIFETIME + ACCESS_LIFETIME)
  BY CliNumbers, Zenon DEF LifetimesOrdered
<1>6. /\ clock \in Cli!Times /\ clock + ACCESS_LIFETIME \in Cli!Times
      /\ clock + REFRESH_LIFETIME \in Cli!Times /\ 0 \in 0..MaxGen /\ 1 \in 0..2
  BY ONLY <1>5
<1>7. Cli!Least(cli.count + 1, 2) = 1
  BY ONLY <1>3 DEF Cli!Least
<1>8. request.at \in Cli!Times
  BY ONLY <1>4, Zenon DEF RequestRow
<1>9. /\ cli' \in CliRow /\ cli'.count = 1 /\ cli'.gen = 0 /\ cli'.at = request.at
      /\ cli'.made = clock /\ cli'.access = clock + ACCESS_LIFETIME
      /\ cli'.refresh = clock + REFRESH_LIFETIME
  BY ONLY <1>1, <1>6, <1>7, <1>8, Zenon DEF CliRow
<1>10. request' \in RequestRow /\ request'.at = request.at /\ request'.status = "consumed"
  BY ONLY <1>1, <1>4, Zenon DEF RequestRow
<1>11. Cli!FamilyNeverExtended'
  BY ONLY <1>5, <1>9 DEF Cli!FamilyNeverExtended, Cli!FamilyMax
<1>12. Delivered'
  BY ONLY <1>9, <1>10 DEF Delivered
<1>13. history = {}
  <2>1. history = 0..(cli.gen - 1)
    BY ONLY <1>2, Zenon DEF Rotation
  <2> QED
    BY ONLY <1>3, <2>1
<1>14. Rotation'
  <2>1. history' = 0..(cli'.gen - 1)
    BY ONLY <1>1, <1>9, <1>13
  <2> QED
    BY ONLY <1>1, <1>3, <2>1, Zenon DEF Rotation, RotatorOK
<1>15. request.at <= web.at
  BY ONLY <1>2, Zenon DEF Authenticated
<1> QED
  BY ONLY CliInv, <1>1, <1>4, <1>9, <1>10, <1>11, <1>12, <1>14, <1>15, SessionStep


\* The revocation of the session, while nobody holds its row.
LEMMA RevokedKeeps ==
  ASSUME LifetimesOrdered, CliInv, Cli!RowFree, cli' = [cli EXCEPT !.revoked = TRUE],
         UNCHANGED <<clock, history>>
  PROVE  /\ cli' \in CliRow /\ cli'.revoked = TRUE /\ cli'.at = cli.at /\ cli'.count = cli.count
         /\ cli'.gen = cli.gen /\ Cli!FamilyNeverExtended' /\ history' = 0..(cli'.gen - 1)
         /\ \A x \in RotatorRow : RotatorOK(x, cli, history, clock) /\ x.stage # "held" =>
                                    RotatorOK(x, cli', history', clock')
<1>1. cli \in CliRow
  BY CliTypes, Zenon DEF CliInv
<1>2. /\ cli' \in CliRow /\ cli'.revoked = TRUE /\ cli'.at = cli.at /\ cli'.count = cli.count
      /\ cli'.gen = cli.gen /\ cli'.made = cli.made /\ cli'.access = cli.access
      /\ cli'.refresh = cli.refresh
  BY ONLY <1>1, cli' = [cli EXCEPT !.revoked = TRUE], Zenon DEF CliRow
<1>3. Cli!FamilyNeverExtended /\ history = 0..(cli.gen - 1)
  BY Zenon DEF CliInv, Rotation
<1>4. Cli!FamilyNeverExtended'
  BY ONLY <1>2, <1>3, Zenon DEF Cli!FamilyNeverExtended, Cli!FamilyMax
<1>5. Over(cli', clock')
  BY ONLY <1>2, Zenon DEF Over
<1>6. \A x \in RotatorRow : RotatorOK(x, cli, history, clock) /\ x.stage # "held" =>
                             RotatorOK(x, cli', history', clock')
  BY ONLY <1>2, <1>5, Zenon DEF RotatorOK
<1> QED
  BY ONLY <1>2, <1>3, <1>4, <1>6, UNCHANGED <<clock, history>>, Zenon

\* The second half of a logout.
LEMMA LogoutStep == ASSUME LifetimesOrdered, CliInv, Cli!revoke_session PROVE CliInv'
<1>1. /\ leaver' = "done" /\ cli' = [cli EXCEPT !.revoked = TRUE] /\ Cli!RowFree
      /\ UNCHANGED <<clock, web, form, request, approver, history, rotator, ledger>>
  BY Zenon DEF Cli!revoke_session
<1>2. /\ cli' \in CliRow /\ cli'.revoked = TRUE /\ cli'.at = cli.at /\ cli'.count = cli.count
      /\ cli'.gen = cli.gen /\ Cli!FamilyNeverExtended' /\ history' = 0..(cli'.gen - 1)
      /\ \A x \in RotatorRow : RotatorOK(x, cli, history, clock) /\ x.stage # "held" =>
                                 RotatorOK(x, cli', history', clock')
  BY <1>1, RevokedKeeps, Zenon
<1>3. /\ request \in RequestRow /\ history \subseteq 0..MaxGen /\ Delivered /\ Authenticated
      /\ rotator \in [Refreshers -> RotatorRow] /\ Rotation
  BY CliTypes, Zenon DEF CliInv
<1>4. \A r \in Refreshers : rotator[r].stage # "held"
  BY <1>1, Zenon DEF Cli!RowFree
<1>5. Rotation'
  BY ONLY <1>1, <1>2, <1>3, <1>4, Zenon DEF Rotation
<1>6. Delivered'
  BY ONLY <1>1, <1>2, <1>3, Zenon DEF Delivered
<1>7. request.at <= web.at /\ cli.at <= web.at
  BY ONLY <1>3, Zenon DEF Authenticated
<1> QED
  BY ONLY CliInv, <1>1, <1>2, <1>3, <1>5, <1>6, <1>7, SessionStep, Zenon

\* A refresh looks for its credential in the history.
LEMMA HistoryStep ==
  ASSUME LifetimesOrdered, CliInv, NEW r \in Refreshers, NEW tok \in 0..cli.gen,
         Cli!CheckHistory(r, tok)
  PROVE  CliInv'
<1>1. /\ rotator[r].stage = "idle" /\ cli.count > 0 /\ Cli!LockFree(r, tok)
      /\ UNCHANGED <<clock, web, form, request, approver, history, leaver, ledger>>
  BY Zenon DEF Cli!CheckHistory
<1>2. /\ request \in RequestRow /\ history \subseteq 0..MaxGen /\ Delivered /\ Authenticated
      /\ rotator \in [Refreshers -> RotatorRow] /\ Rotation /\ cli \in CliRow
      /\ leaver \in {"idle", "validated", "done"}
  BY CliTypes, Zenon DEF CliInv
<1>3. tok \in 0..MaxGen /\ tok \in Nat /\ cli.gen \in Nat /\ tok <= cli.gen
  BY CliNumbers
<1>4. request.at <= web.at /\ cli.at <= web.at
  BY ONLY <1>2, Zenon DEF Authenticated
<1>5. CASE /\ tok \in history /\ Cli!RowFree /\ cli' = [cli EXCEPT !.revoked = TRUE]
           /\ rotator' = [rotator EXCEPT ![r] = [stage |-> "answered", tok |-> tok, got |-> FALSE]]
  <2> DEFINE x == [stage |-> "answered", tok |-> tok, got |-> FALSE]
  <2>1. /\ cli' \in CliRow /\ cli'.revoked = TRUE /\ cli'.at = cli.at /\ cli'.count = cli.count
        /\ cli'.gen = cli.gen /\ Cli!FamilyNeverExtended' /\ history' = 0..(cli'.gen - 1)
        /\ \A y \in RotatorRow : RotatorOK(y, cli, history, clock) /\ y.stage # "held" =>
                                   RotatorOK(y, cli', history', clock')
    BY <1>1, <1>5, RevokedKeeps, Zenon
  <2>2. x \in RotatorRow /\ x.stage = "answered"
    BY ONLY <1>3, Zenon DEF RotatorRow
  <2> HIDE DEF x
  <2>3. /\ rotator' \in [Refreshers -> RotatorRow] /\ rotator'[r] = x
        /\ \A o \in Refreshers \ {r} : rotator'[o] = rotator[o]
    BY ONLY <1>2, <1>5, <2>2, r \in Refreshers, Zenon DEF x
  <2>4. RotatorOK(x, cli', history', clock')
    <3>1. Over(cli', clock')
      BY ONLY <2>1, Zenon DEF Over
    <3> QED
      BY ONLY <2>1, <2>2, <3>1, Zenon DEF RotatorOK
  <2>5. \A o \in Refreshers : /\ rotator[o].stage # "held"
                              /\ RotatorOK(rotator[o], cli, history, clock)
    BY <1>2, <1>5, Zenon DEF Cli!RowFree, Rotation
  <2>6. \A o \in Refreshers : RotatorOK(rotator'[o], cli', history', clock')
    BY ONLY <1>2, <2>1, <2>3, <2>4, <2>5, Zenon
  <2>7. Rotation'
    <3>1. \A p, o \in Refreshers : rotator'[p].stage \in {"checked", "held"} /\
              rotator'[o].stage \in {"checked", "held"} => p = o
      BY ONLY <1>2, <2>2, <2>3, Zenon DEF Rotation
    <3> QED
      BY ONLY <2>1, <2>6, <3>1, Zenon DEF Rotation
  <2>8. Delivered'
    <3>1. cli.count # 0
      <4>1. cli.count > 0 => cli.count # 0
        OBVIOUS
      <4> QED
        BY ONLY <1>1, <4>1, Zenon
    <3> QED
      BY ONLY <1>1, <1>2, <2>1, <3>1, Zenon DEF Delivered
  <2> QED
    BY ONLY CliInv, <1>1, <1>2, <1>4, <2>1, <2>3, <2>7, <2>8, SessionStep, Zenon
<1>6. CASE /\ tok \notin history /\ cli' = cli
           /\ rotator' = [rotator EXCEPT ![r] = [stage |-> "checked", tok |-> tok, got |-> FALSE]]
  <2> DEFINE x == [stage |-> "checked", tok |-> tok, got |-> FALSE]
  <2>1. x \in RotatorRow /\ x.stage = "checked" /\ x.tok = tok
    BY ONLY <1>3, Zenon DEF RotatorRow
  <2> HIDE DEF x
  <2>2. /\ rotator' \in [Refreshers -> RotatorRow] /\ rotator'[r] = x
        /\ \A o \in Refreshers \ {r} : rotator'[o] = rotator[o]
    BY ONLY <1>2, <1>6, <2>1, r \in Refreshers, Zenon DEF x
  <2>3. tok = cli.gen
    <3>1. tok \notin 0..(cli.gen - 1)
      BY ONLY <1>2, <1>6, Zenon DEF Rotation
    <3> QED
      BY ONLY <1>3, <3>1
  <2>4. \A o \in Refreshers \ {r} : rotator[o].stage \notin {"checked", "held"}
    BY <1>1, <1>2, <2>3, Zenon DEF Cli!LockFree, Rotation, RotatorOK
  <2>5. \A y : RotatorOK(y, cli', history', clock') <=> RotatorOK(y, cli, history, clock)
    BY ONLY <1>1, <1>6, Zenon 
  <2>6. RotatorOK(x, cli, history, clock)
    BY ONLY <2>1, <2>3, Zenon DEF RotatorOK
  <2>7. \A o \in Refreshers : RotatorOK(rotator'[o], cli', history', clock')
    BY ONLY <1>2, <2>2, <2>5, <2>6, Zenon DEF Rotation
  <2>8. Rotation'
    <3>1. \A p, o \in Refreshers : rotator'[p].stage \in {"checked", "held"} /\
              rotator'[o].stage \in {"checked", "held"} => p = o
      BY ONLY <2>2, <2>4, Zenon
    <3>2. history' = 0..(cli'.gen - 1)
      BY ONLY <1>1, <1>2, <1>6, Zenon DEF Rotation
    <3> QED
      BY ONLY <2>7, <3>1, <3>2, Zenon DEF Rotation
  <2>9. Delivered' /\ Cli!FamilyNeverExtended'
    <3>1. cli.count # 0
      BY <1>1, <1>2 DEF CliRow
    <3>2. Cli!FamilyNeverExtended
      BY Zenon DEF CliInv
    <3> QED
      BY ONLY <1>1, <1>2, <1>6, <3>1, <3>2, Zenon
         DEF Delivered, Cli!FamilyNeverExtended, Cli!FamilyMax
  <2> QED
    BY ONLY CliInv, <1>1, <1>2, <1>4, <1>6, <2>2, <2>8, <2>9, SessionStep, Zenon
<1> QED
  BY <1>5, <1>6, Zenon DEF Cli!CheckHistory


\* A refresh moves on and the session stays as it is.
LEMMA RotatorMoves ==
  ASSUME LifetimesOrdered, CliInv, NEW r \in Refreshers, NEW x \in RotatorRow,
         rotator[r].stage # "idle",
         rotator' = [rotator EXCEPT ![r] = x], RotatorOK(x, cli, history, clock),
         x.stage \in {"checked", "held"} => rotator[r].stage \in {"checked", "held"},
         UNCHANGED <<clock, web, form, request, approver, cli, history, leaver, ledger>>
  PROVE  CliInv'
<1>1. /\ request \in RequestRow /\ history \subseteq 0..MaxGen /\ Delivered /\ Authenticated
      /\ rotator \in [Refreshers -> RotatorRow] /\ Rotation /\ cli \in CliRow
      /\ leaver \in {"idle", "validated", "done"} /\ Cli!FamilyNeverExtended
  BY CliTypes, Zenon DEF CliInv
<1>2. UNCHANGED <<clock, web, form, request, approver, cli, history, leaver, ledger>>
  BY Zenon
<1>3. /\ rotator' \in [Refreshers -> RotatorRow] /\ rotator'[r] = x
      /\ \A o \in Refreshers \ {r} : rotator'[o] = rotator[o]
  BY <1>1, Zenon
<1>4. \A o \in Refreshers : RotatorOK(rotator'[o], cli, history, clock)
  BY <1>1, <1>3, Zenon DEF Rotation
<1>5. \A p, o \in Refreshers : rotator'[p].stage \in {"checked", "held"} /\
          rotator'[o].stage \in {"checked", "held"} => p = o
  <2>1. \A o \in Refreshers : rotator'[o].stage \in {"checked", "held"} =>
                                rotator[o].stage \in {"checked", "held"}
    BY <1>3, Zenon
  <2> QED
    BY ONLY <1>1, <2>1, Zenon DEF Rotation
<1>6. Rotation'
  BY ONLY <1>1, <1>2, <1>4, <1>5, Zenon DEF Rotation
<1>7. cli.count # 0
  BY <1>1, Zenon DEF Delivered
<1>8. Delivered' /\ Cli!FamilyNeverExtended'
  BY ONLY <1>1, <1>2, <1>7, Zenon DEF Delivered, Cli!FamilyNeverExtended, Cli!FamilyMax
<1>9. request.at <= web.at /\ cli.at <= web.at
  BY ONLY <1>1, Zenon DEF Authenticated
<1> QED
  BY ONLY CliInv, <1>1, <1>2, <1>3, <1>6, <1>8, <1>9, SessionStep, Zenon

\* What a refresh becomes.
LEMMA AnswerRows ==
  ASSUME NEW x \in RotatorRow
  PROVE  /\ [x EXCEPT !.stage = "held"] \in RotatorRow
         /\ [x EXCEPT !.stage = "held"].stage = "held"
         /\ [x EXCEPT !.stage = "held"].tok = x.tok
         /\ \A b \in BOOLEAN : LET y == [x EXCEPT !.stage = "answered", !.got = b] IN
              y \in RotatorRow /\ y.stage = "answered" /\ y.tok = x.tok /\ y.got = b
<1>1. /\ [x EXCEPT !.stage = "held"] \in RotatorRow
      /\ [x EXCEPT !.stage = "held"].stage = "held"
      /\ [x EXCEPT !.stage = "held"].tok = x.tok
  BY Zenon DEF RotatorRow
<1>2. ASSUME NEW b \in BOOLEAN
      PROVE  LET y == [x EXCEPT !.stage = "answered", !.got = b] IN
             y \in RotatorRow /\ y.stage = "answered" /\ y.tok = x.tok /\ y.got = b
  BY Zenon DEF RotatorRow
<1> QED
  BY <1>1, <1>2, Zenon

\* A refresh locks the row of its session, or is refused.
LEMMA FindStep ==
  ASSUME LifetimesOrdered, CliInv, NEW r \in Refreshers, Cli!FindSession(r) PROVE CliInv'
<1>1. /\ rotator[r].stage = "checked"
      /\ UNCHANGED <<clock, web, form, request, approver, cli, history, leaver, ledger>>
  BY Zenon DEF Cli!FindSession
<1>2. /\ rotator \in [Refreshers -> RotatorRow] /\ rotator[r] \in RotatorRow /\ Rotation
  BY CliTypes, Zenon DEF CliInv
<1>3. rotator[r].tok = cli.gen
  BY <1>1, <1>2, Zenon DEF Rotation, RotatorOK
<1>4. CASE ~cli.revoked
  <2> DEFINE x == [rotator[r] EXCEPT !.stage = "held"]
  <2>1. rotator' = [rotator EXCEPT ![r] = x]
    BY <1>2, <1>3, <1>4, Zenon DEF Cli!FindSession
  <2>2. x \in RotatorRow /\ x.stage = "held" /\ x.tok = cli.gen
    BY ONLY <1>2, <1>3, AnswerRows, Zenon
  <2> HIDE DEF x
  <2>3. RotatorOK(x, cli, history, clock)
    BY ONLY <1>4, <2>2, Zenon DEF RotatorOK
  <2> QED
    BY <1>1, <2>1, <2>2, <2>3, RotatorMoves, Zenon
<1>5. CASE cli.revoked
  <2> DEFINE x == [rotator[r] EXCEPT !.stage = "answered", !.got = FALSE]
  <2>1. rotator' = [rotator EXCEPT ![r] = x]
    BY <1>2, <1>5, Zenon DEF Cli!FindSession, Cli!Answer
  <2>2. x \in RotatorRow /\ x.stage = "answered"
    BY ONLY <1>2, AnswerRows, Zenon
  <2> HIDE DEF x
  <2>3. RotatorOK(x, cli, history, clock)
    BY ONLY <1>5, <2>2, Zenon DEF RotatorOK, Over
  <2> QED
    BY <1>1, <2>1, <2>2, <2>3, RotatorMoves, Zenon
<1> QED
  BY <1>4, <1>5, Zenon

\* What a rotation writes stays within the lifetime of the family.
LEMMA RotatedRow ==
  ASSUME LifetimesOrdered, CliInv, cli.gen # MaxGen
  PROVE  /\ Cli!Rotated \in CliRow /\ Cli!Rotated.gen = cli.gen + 1
         /\ Cli!Rotated.made = cli.made /\ Cli!Rotated.revoked = cli.revoked
         /\ Cli!Rotated.at = cli.at /\ Cli!Rotated.count = cli.count
         /\ Cli!Rotated.access <= cli.made + REFRESH_LIFETIME
         /\ Cli!Rotated.refresh <= cli.made + REFRESH_LIFETIME
<1> DEFINE f == cli.made + REFRESH_LIFETIME
           a == Cli!Least(clock + ACCESS_LIFETIME, f)
           b == Cli!Least(clock + REFRESH_LIFETIME, f)
           g == cli.gen + 1
<1>1. /\ clock \in Nat /\ clock <= MaxClock /\ MaxClock \in Nat /\ MaxGen \in Nat
      /\ REFRESH_LIFETIME \in Nat /\ ACCESS_LIFETIME \in Nat /\ cli.made \in Nat
      /\ cli.gen \in Nat /\ cli.gen <= MaxGen
      /\ Cli!Times = 0..(MaxClock + REFRESH_LIFETIME + ACCESS_LIFETIME)
  BY CliNumbers, Zenon
<1>2. cli \in CliRow
  BY CliTypes, Zenon DEF CliInv
<1>3. a \in Cli!Times /\ a <= f
  BY ONLY <1>1 DEF Cli!Least
<1>4. b \in Cli!Times /\ b <= f
  BY ONLY <1>1 DEF Cli!Least
<1>5. g \in 0..MaxGen
  BY <1>1
<1>6. Cli!Rotated = [cli EXCEPT !.gen = g, !.access = a, !.refresh = b]
  BY <1>2, Zenon DEF Cli!Rotated, Cli!FamilyMax, CliRow
<1> HIDE DEF a, b, g, f
<1> DEFINE u == [cli EXCEPT !.gen = g]
           v == [u EXCEPT !.access = a]
<1>7. /\ u \in CliRow /\ u.gen = g /\ u.made = cli.made /\ u.revoked = cli.revoked
      /\ u.at = cli.at /\ u.count = cli.count
  BY ONLY <1>2, <1>5, Zenon DEF CliRow
<1> HIDE DEF u
<1>8. /\ v \in CliRow /\ v.gen = g /\ v.made = cli.made /\ v.revoked = cli.revoked
      /\ v.at = cli.at /\ v.count = cli.count /\ v.access = a
  BY ONLY <1>3, <1>7, Zenon DEF CliRow
<1>9. Cli!Rotated = [v EXCEPT !.refresh = b]
  BY <1>6, Zenon DEF u
<1> HIDE DEF v
<1>10. /\ Cli!Rotated \in CliRow /\ Cli!Rotated.gen = g /\ Cli!Rotated.made = cli.made
       /\ Cli!Rotated.revoked = cli.revoked /\ Cli!Rotated.at = cli.at
       /\ Cli!Rotated.count = cli.count /\ Cli!Rotated.access = a /\ Cli!Rotated.refresh = b
  BY ONLY <1>4, <1>8, <1>9, Zenon DEF CliRow
<1> QED
  BY ONLY <1>3, <1>4, <1>10, Zenon DEF f, g

\* A refresh that holds the row rotates the credential, or finds the family over.
LEMMA RotateStep ==
  ASSUME LifetimesOrdered, CliInv, NEW r \in Refreshers, Cli!refresh_cli_session(r) PROVE CliInv'
<1>1. /\ rotator[r].stage = "held"
      /\ UNCHANGED <<clock, web, form, request, approver, leaver, ledger>>
  BY Zenon DEF Cli!refresh_cli_session
<1>2. /\ rotator \in [Refreshers -> RotatorRow] /\ rotator[r] \in RotatorRow /\ Rotation
      /\ request \in RequestRow /\ history \subseteq 0..MaxGen /\ Delivered /\ Authenticated
      /\ cli \in CliRow /\ leaver \in {"idle", "validated", "done"}
  BY CliTypes, Zenon DEF CliInv
<1>3. rotator[r].tok = cli.gen /\ ~cli.revoked
  BY <1>1, <1>2, Zenon DEF Rotation, RotatorOK
<1>4. CASE Over(cli, clock)
  <2> DEFINE x == [rotator[r] EXCEPT !.stage = "answered", !.got = FALSE]
  <2>1. rotator' = [rotator EXCEPT ![r] = x] /\ UNCHANGED <<cli, history>>
    BY <1>2, <1>3, <1>4, Zenon DEF Cli!refresh_cli_session, Cli!Answer, Over, Cli!FamilyMax
  <2>2. x \in RotatorRow /\ x.stage = "answered" /\ x.tok = cli.gen
    BY ONLY <1>2, <1>3, AnswerRows, Zenon
  <2> HIDE DEF x
  <2>3. cli.gen \notin history
    <3>1. history = 0..(cli.gen - 1) /\ cli.gen \in Nat
      BY <1>2, CliNumbers, Zenon DEF Rotation
    <3> QED
      BY ONLY <3>1
  <2>4. RotatorOK(x, cli, history, clock)
    BY ONLY <1>4, <2>2, <2>3, Zenon DEF RotatorOK
  <2> QED
    BY <1>1, <2>1, <2>2, <2>4, RotatorMoves, Zenon
<1>5. CASE ~Over(cli, clock)
  <2> DEFINE x == [rotator[r] EXCEPT !.stage = "answered", !.got = TRUE]
  <2>1. /\ rotator' = [rotator EXCEPT ![r] = x] /\ cli' = Cli!Rotated
        /\ history' = history \cup {cli.gen} /\ cli.gen # MaxGen
    BY <1>2, <1>3, <1>5, Zenon DEF Cli!refresh_cli_session, Cli!Answer, Over, Cli!FamilyMax
  <2>2. x \in RotatorRow /\ x.stage = "answered" /\ x.got
    BY ONLY <1>2, AnswerRows, Zenon
  <2> HIDE DEF x
  <2>3. /\ cli' \in CliRow /\ cli'.gen = cli.gen + 1 /\ cli'.made = cli.made
        /\ cli'.revoked = cli.revoked /\ cli'.at = cli.at /\ cli'.count = cli.count
        /\ cli'.access <= cli.made + REFRESH_LIFETIME /\ cli'.refresh <= cli.made + REFRESH_LIFETIME
    BY ONLY LifetimesOrdered, CliInv, <2>1, RotatedRow, Zenon
  <2>4. /\ rotator' \in [Refreshers -> RotatorRow] /\ rotator'[r] = x
        /\ \A o \in Refreshers \ {r} : rotator'[o] = rotator[o]
    BY ONLY <1>2, <2>1, <2>2, r \in Refreshers, Zenon
  <2>5. \A o \in Refreshers \ {r} :
           /\ rotator[o].stage \notin {"checked", "held"}
           /\ rotator[o].stage = "answered" => rotator[o].got
    BY <1>1, <1>2, <1>5, Zenon DEF Rotation, RotatorOK
  <2>6. \A o \in Refreshers : RotatorOK(rotator'[o], cli', history', clock')
    BY ONLY <1>2, <2>2, <2>4, <2>5 DEF RotatorOK, RotatorRow
  <2>7. history' = 0..(cli'.gen - 1) /\ history' \subseteq 0..MaxGen
    <3>1. history = 0..(cli.gen - 1) /\ cli.gen \in Nat /\ MaxGen \in Nat /\ cli.gen <= MaxGen
      BY <1>2, CliNumbers, Zenon DEF Rotation
    <3> QED
      BY ONLY <2>1, <2>3, <3>1
  <2>8. Rotation'
    <3>1. \A o \in Refreshers : rotator'[o].stage \notin {"checked", "held"}
      BY ONLY <2>2, <2>4, <2>5, Zenon
    <3> QED
      BY ONLY <2>6, <2>7, <3>1, Zenon DEF Rotation
  <2>9. Delivered'
    <3>1. cli.count # 0
      BY <1>1, <1>2, Zenon DEF Delivered
    <3> QED
      BY ONLY <1>1, <1>2, <2>3, <3>1, Zenon DEF Delivered
  <2>10. Cli!FamilyNeverExtended'
    BY ONLY <2>3, Zenon DEF Cli!FamilyNeverExtended, Cli!FamilyMax
  <2>11. request.at <= web.at /\ cli.at <= web.at
    BY ONLY <1>2, Zenon DEF Authenticated
  <2> QED
    BY ONLY CliInv, <1>1, <1>2, <2>3, <2>4, <2>7, <2>8, <2>9, <2>10, <2>11, SessionStep, Zenon
<1> QED
  BY <1>4, <1>5, Zenon

\* Every step of CliSessions preserves the invariant.
LEMMA NextCli == ASSUME LifetimesOrdered, CliInv, [Cli!Next]_(Cli!vars) PROVE CliInv'
<1>1. CASE UNCHANGED Cli!vars
  <2>1. UNCHANGED <<clock, web, form, request, approver, cli, history, rotator, leaver, ledger>>
    BY <1>1, Zenon DEF Cli!vars
  <2>2. Cli!TypeOK' /\ Cli!FamilyNeverExtended'
    BY <2>1 DEF CliInv, Cli!TypeOK, Cli!FamilyNeverExtended, Cli!FamilyMax
  <2>3. Delivered' /\ Authenticated' /\ Rotation' /\ Bounded'
    BY <2>1, Zenon DEF CliInv, Delivered, Authenticated, Rotation, Bounded
  <2> QED
    BY ONLY <2>2, <2>3, Zenon DEF CliInv
<1> QED
  BY <1>1, BrowserStep, ApproveStep, TickStep, DeliverStep, LogoutStep, HistoryStep, FindStep,
     RotateStep, Zenon
     DEF Cli!Next

\* The invariant holds whatever sign-ins, polls, refreshes and logouts race.
THEOREM CliInvAlways == ASSUME LifetimesOrdered PROVE Cli!Spec => []CliInv
<1>1. Cli!Init => CliInv
  BY InitCli, Zenon
<1>2. CliInv /\ [Cli!Next]_(Cli!vars) => CliInv'
  BY NextCli, Zenon
<1> QED
  BY <1>1, <1>2, PTL DEF Cli!Spec

\* The rows, the clock and the requests in flight have their types.
THEOREM CliTypeCorrect == ASSUME LifetimesOrdered PROVE Cli!Spec => []Cli!TypeOK
<1>1. CliInv => Cli!TypeOK
  BY Zenon DEF CliInv
<1> QED
  BY <1>1, CliInvAlways, PTL

\* An approval yields one session, however often the command line polls (poll).
THEOREM DeliveredOnce == ASSUME LifetimesOrdered PROVE Cli!Spec => []Cli!OneDelivery
<1>1. CliInv => Cli!OneDelivery
  BY Zenon DEF CliInv, Delivered, Cli!OneDelivery
<1> QED
  BY <1>1, CliInvAlways, PTL

\* A session counts as freshly authenticated only while a person has signed in
\* within the window (device_approve, approve_authenticated, poll).
THEOREM FreshnessIsHonest == ASSUME LifetimesOrdered PROVE Cli!Spec => []Cli!RecentAuthIsHonest
<1>1. ASSUME CliInv PROVE Cli!RecentAuthIsHonest
  <2>1. cli.at \in Nat /\ web.at \in Nat /\ clock \in Nat
    BY <1>1, CliNumbers, Zenon
  <2>2. cli.at <= web.at /\ RECENT_AUTH_WINDOW \in Nat
    BY <1>1, Zenon DEF CliInv, Authenticated, LifetimesOrdered
  <2> QED
    BY ONLY <2>1, <2>2 DEF Cli!RecentAuthIsHonest, Cli!has_recent_auth
<1> QED
  BY <1>1, CliInvAlways, PTL

\* A refresh that was refused although its credential had been rotated away has
\* revoked the family, however the refreshes interleave (refresh_cli_session).
THEOREM ReuseIsDetected == ASSUME LifetimesOrdered PROVE Cli!Spec => []Cli!ReuseRevokes
<1>1. CliInv => Cli!ReuseRevokes
  BY Zenon DEF CliInv, Rotation, RotatorOK, Cli!ReuseRevokes
<1> QED
  BY <1>1, CliInvAlways, PTL

\* No rotation promises more than the lifetime of the family.
THEOREM FamilyEndsInTime == ASSUME LifetimesOrdered PROVE Cli!Spec => []Cli!FamilyNeverExtended
<1>1. CliInv => Cli!FamilyNeverExtended
  BY Zenon DEF CliInv
<1> QED
  BY <1>1, CliInvAlways, PTL

\* A window admits at most the limit of verification attempts (allow).
THEOREM VerificationsBounded == ASSUME LifetimesOrdered PROVE Cli!Spec => []Cli!AttemptsBounded
<1>1. CliInv => Cli!AttemptsBounded
  BY Zenon DEF CliInv, Bounded, Cli!AttemptsBounded
<1> QED
  BY <1>1, CliInvAlways, PTL

\* A refresh that crosses a logout or a revocation hands out nothing after it.
THEOREM NothingAfterLogout ==
  ASSUME LifetimesOrdered PROVE Cli!Spec => [][Cli!NothingIssuedAfterLogout]_(Cli!vars)
<1>1. ASSUME CliInv, [Cli!Next]_(Cli!vars) PROVE [Cli!NothingIssuedAfterLogout]_(Cli!vars)
  <2>0. rotator \in [Refreshers -> RotatorRow] /\ Rotation
    BY <1>1, CliTypes, Zenon DEF CliInv
  <2>1. ASSUME rotator' = rotator PROVE Cli!NothingIssuedAfterLogout
    BY <2>1, Zenon DEF Cli!NothingIssuedAfterLogout
  <2>2. ASSUME NEW r \in Refreshers, NEW x, rotator' = [rotator EXCEPT ![r] = x],
               x.got => rotator[r].got \/ ~cli.revoked
        PROVE  Cli!NothingIssuedAfterLogout
    BY ONLY <2>0, <2>2, Zenon DEF Cli!NothingIssuedAfterLogout
  <2>3. ASSUME NEW r \in Refreshers, NEW tok \in 0..cli.gen, Cli!CheckHistory(r, tok)
        PROVE  Cli!NothingIssuedAfterLogout
    <3>1. \E st \in {"answered", "checked"} :
             rotator' = [rotator EXCEPT ![r] = [stage |-> st, tok |-> tok, got |-> FALSE]]
      BY <2>3, Zenon DEF Cli!CheckHistory
    <3> QED
      BY <2>2, <3>1, Zenon
  <2>4. ASSUME NEW r \in Refreshers, Cli!FindSession(r) PROVE Cli!NothingIssuedAfterLogout
    <3>1. \/ rotator' = [rotator EXCEPT ![r] = [rotator[r] EXCEPT !.stage = "held"]]
          \/ rotator' = [rotator EXCEPT ![r] =
                            [rotator[r] EXCEPT !.stage = "answered", !.got = FALSE]]
      BY <2>0, <2>4, Zenon DEF Cli!FindSession, Cli!Answer
    <3>2. rotator[r] \in RotatorRow
      BY <2>0, Zenon
    <3>3. /\ [rotator[r] EXCEPT !.stage = "held"].got = rotator[r].got
          /\ ~[rotator[r] EXCEPT !.stage = "answered", !.got = FALSE].got
      BY ONLY <3>2, Zenon DEF RotatorRow
    <3> QED
      BY <2>2, <3>1, <3>3, Zenon
  <2>5. ASSUME NEW r \in Refreshers, Cli!refresh_cli_session(r) PROVE Cli!NothingIssuedAfterLogout
    <3>1. rotator[r].stage = "held"
      BY <2>5, Zenon DEF Cli!refresh_cli_session
    <3>2. ~cli.revoked
      BY <2>0, <3>1, Zenon DEF Rotation, RotatorOK
    <3> QED
      BY ONLY <3>2, Zenon DEF Cli!NothingIssuedAfterLogout
  <2> QED
    BY <1>1, <2>1, <2>3, <2>4, <2>5, Zenon
       DEF Cli!Next, Cli!Tick, Cli!SignIn, Cli!SignOut, Cli!start, Cli!device_verify_page,
           Cli!device_approve, Cli!approve_authenticated, Cli!poll, Cli!logout, Cli!revoke_session
<1> QED
  BY <1>1, CliInvAlways, PTL DEF Cli!Spec
=============================================================================
