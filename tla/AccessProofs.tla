---------------------------- MODULE AccessProofs ----------------------------
(***************************************************************************)
(* What holds, for all values of their constants, of the connection of an  *)
(* installation (ConnectAttempts) and of the access it gives               *)
(* (ConnectionAccess).                                                     *)
(***************************************************************************)
EXTENDS Integers, TLAPS

-----------------------------------------------------------------------------
(* Connection attempts. *)

CONSTANTS Orgs, Attempts
VARIABLES attempt, leg, admin, bound, binds

Connect == INSTANCE ConnectAttempts

\* What a row says of the bindings made with it and of the credential it keeps.
AttemptSound(row, n) ==
    /\ row \in Connect!AttemptRow
    /\ n = IF row.status = "consumed" THEN 1 ELSE 0
    /\ row.status \in {"consumed", "expired"} => ~row.credential

\* The inductive invariant of connection attempts.
ConnectInv ==
    /\ Connect!TypeOK
    /\ binds \in [Attempts -> {0, 1}]
    /\ \A a \in Attempts : AttemptSound(attempt[a], binds[a])

\* No attempt has been started, and none has bound anything.
LEMMA InitConnect == ASSUME Connect!Init PROVE ConnectInv
<1>1. Connect!NoAttempt \in Connect!AttemptRow
  BY Zenon DEF Connect!NoAttempt, Connect!AttemptRow, Connect!AttemptStatus
<1>2. AttemptSound(Connect!NoAttempt, 0)
  BY <1>1, Zenon DEF AttemptSound, Connect!NoAttempt
<1>3. /\ attempt = [a \in Attempts |-> Connect!NoAttempt] /\ binds = [a \in Attempts |-> 0]
      /\ leg = [l \in Connect!Legs |-> [step |-> "idle", saw |-> Connect!None]]
      /\ bound = Connect!None
  BY Zenon DEF Connect!Init
<1>4. Connect!TypeOK
  BY ONLY <1>1, <1>3, Zenon DEF Connect!TypeOK, Connect!Steps
<1> QED
  BY ONLY <1>2, <1>3, <1>4, Zenon DEF ConnectInv

\* A step that writes one row of an attempt and none of the bindings.
LEMMA AttemptWritten ==
  ASSUME ConnectInv, NEW a \in Attempts, NEW row, AttemptSound(row, binds[a]),
         attempt' = [attempt EXCEPT ![a] = row], binds' = binds, bound' = bound,
         leg' \in [Connect!Legs -> [step : Connect!Steps, saw : Orgs \cup {Connect!None}]]
  PROVE  ConnectInv'
<1>1. \A b \in Attempts : AttemptSound(attempt[b], binds[b])
  BY Zenon DEF ConnectInv
<1>2. Connect!TypeOK' /\ binds' \in [Attempts -> {0, 1}]
  BY Zenon DEF ConnectInv, Connect!TypeOK, AttemptSound
<1>3. attempt \in [Attempts -> Connect!AttemptRow]
  BY Zenon DEF ConnectInv, Connect!TypeOK
<1>4. \A b \in Attempts : AttemptSound(attempt'[b], binds'[b])
  BY <1>1, <1>3, Zenon
<1> QED
  BY ONLY <1>2, <1>4, Zenon DEF ConnectInv

\* A step of a callback that writes no row.
LEMMA LegMoves ==
  ASSUME ConnectInv, attempt' = attempt, binds' = binds, bound' = bound,
         leg' \in [Connect!Legs -> [step : Connect!Steps, saw : Orgs \cup {Connect!None}]]
  PROVE  ConnectInv'
  BY Zenon DEF ConnectInv, Connect!TypeOK

\* The rows a transaction writes keep what they say.
LEMMA AttemptRows ==
  ASSUME NEW row, NEW n, AttemptSound(row, n)
  PROVE  /\ row.status = "pending" =>
              /\ AttemptSound([row EXCEPT !.late = TRUE], n)
              /\ AttemptSound([row EXCEPT !.setup = TRUE], n)
              /\ AttemptSound([row EXCEPT !.oauth = TRUE, !.credential = TRUE], n)
              /\ AttemptSound([row EXCEPT !.status = "expired", !.credential = FALSE], n)
              /\ n = 0 /\ AttemptSound([row EXCEPT !.status = "consumed", !.credential = FALSE], 1)
         /\ row.status = "absent" => \A org \in Orgs :
              AttemptSound([Connect!NoAttempt EXCEPT !.org = org, !.status = "pending"], n)
<1>1. /\ row \in Connect!AttemptRow
      /\ n = IF row.status = "consumed" THEN 1 ELSE 0
      /\ row.status \in {"consumed", "expired"} => ~row.credential
  BY Zenon DEF AttemptSound
<1>2. CASE row.status = "pending"
  <2> DEFINE u1 == [row EXCEPT !.late = TRUE]
             u2 == [row EXCEPT !.setup = TRUE]
             u3 == [row EXCEPT !.oauth = TRUE, !.credential = TRUE]
             u4 == [row EXCEPT !.status = "expired", !.credential = FALSE]
             u5 == [row EXCEPT !.status = "consumed", !.credential = FALSE]
  <2>1. AttemptSound(u1, n)
    BY ONLY <1>1, <1>2, Zenon DEF AttemptSound, Connect!AttemptRow
  <2>2. AttemptSound(u2, n)
    BY ONLY <1>1, <1>2, Zenon DEF AttemptSound, Connect!AttemptRow
  <2>3. AttemptSound(u3, n)
    BY ONLY <1>1, <1>2, Zenon DEF AttemptSound, Connect!AttemptRow
  <2>4. AttemptSound(u4, n)
    BY ONLY <1>1, <1>2, Zenon DEF AttemptSound, Connect!AttemptRow, Connect!AttemptStatus
  <2>5. AttemptSound(u5, 1)
    BY ONLY <1>1, <1>2, Zenon DEF AttemptSound, Connect!AttemptRow, Connect!AttemptStatus
  <2>6. n = 0
    BY ONLY <1>1, <1>2, Zenon
  <2> QED
    BY <1>2, <2>1, <2>2, <2>3, <2>4, <2>5, <2>6, Zenon
<1>3. ASSUME row.status = "absent", NEW org \in Orgs
      PROVE  AttemptSound([Connect!NoAttempt EXCEPT !.org = org, !.status = "pending"], n)
  <2> DEFINE u == [Connect!NoAttempt EXCEPT !.org = org, !.status = "pending"]
  <2>1. Connect!NoAttempt \in Connect!AttemptRow
    BY Zenon DEF Connect!NoAttempt, Connect!AttemptRow, Connect!AttemptStatus
  <2>2. u \in Connect!AttemptRow /\ u.status = "pending"
    BY ONLY <1>3, <2>1, Zenon DEF Connect!AttemptRow, Connect!AttemptStatus
  <2> HIDE DEF u
  <2>3. n = 0
    BY ONLY <1>1, <1>3, Zenon
  <2>4. AttemptSound(u, n)
    BY ONLY <2>2, <2>3, Zenon DEF AttemptSound
  <2> QED
    BY <2>4, Zenon DEF u
<1> QED
  BY <1>2, <1>3, Zenon

\* Every step of ConnectAttempts preserves the invariant.
LEMMA NextConnect == ASSUME ConnectInv, [Connect!Next]_(Connect!vars) PROVE ConnectInv'
<1>0. /\ attempt \in [Attempts -> Connect!AttemptRow]
      /\ leg \in [Connect!Legs -> [step : Connect!Steps, saw : Orgs \cup {Connect!None}]]
      /\ bound \in Orgs \cup {Connect!None} /\ binds \in [Attempts -> {0, 1}]
      /\ \A a \in Attempts : AttemptSound(attempt[a], binds[a])
  BY Zenon DEF ConnectInv, Connect!TypeOK
<1>1. ASSUME NEW a \in Attempts, NEW org \in Orgs, Connect!start_connect(a, org) PROVE ConnectInv'
  <2> DEFINE row == [Connect!NoAttempt EXCEPT !.org = org, !.status = "pending"]
  <2>1. /\ attempt[a].status = "absent" /\ attempt' = [attempt EXCEPT ![a] = row]
        /\ leg' = leg /\ bound' = bound /\ binds' = binds
    BY <1>1, Zenon DEF Connect!start_connect
  <2>2. AttemptSound(row, binds[a])
    BY ONLY <1>0, <1>1, <2>1, AttemptRows, Zenon
  <2> HIDE DEF row
  <2> QED
    BY ONLY ConnectInv, <1>0, <1>1, <2>1, <2>2, AttemptWritten, Zenon
<1>2. ASSUME NEW a \in Attempts, Connect!Deadline(a) PROVE ConnectInv'
  <2>1. /\ attempt' = [attempt EXCEPT ![a] = [attempt[a] EXCEPT !.late = TRUE]]
        /\ attempt[a].status = "pending"
    BY <1>0, <1>2, Zenon DEF Connect!Deadline, Connect!Usable
  <2>2. AttemptSound([attempt[a] EXCEPT !.late = TRUE], binds[a])
    BY ONLY <1>0, <1>2, <2>1, AttemptRows, Zenon
  <2>3. leg' = leg /\ bound' = bound /\ binds' = binds
    BY <1>2, Zenon DEF Connect!Deadline
  <2> QED
    BY ONLY ConnectInv, <1>0, <1>2, <2>1, <2>2, <2>3, AttemptWritten, Zenon
<1>3. ASSUME NEW l \in Connect!Legs, NEW s \in Connect!Steps
      PROVE  /\ [leg EXCEPT ![l].step = s] \in
                  [Connect!Legs -> [step : Connect!Steps, saw : Orgs \cup {Connect!None}]]
             /\ l[1] \in Attempts
  BY <1>0 DEF Connect!Legs
<1>4. ASSUME NEW l \in Connect!Legs, Connect!ResolveLeg(l) PROVE ConnectInv'
  BY <1>3, <1>4, LegMoves, Zenon DEF Connect!ResolveLeg, Connect!Steps
<1>5. ASSUME NEW l \in Connect!Legs, Connect!oauth_callback(l) PROVE ConnectInv'
  <2>0. l[1] \in Attempts /\ bound' = bound /\ binds' = binds
    BY <1>3, <1>5, Zenon DEF Connect!oauth_callback, Connect!Steps
  <2>1. CASE Connect!MayConsumeProof(l[1])
    <3> DEFINE row == [attempt[l[1]] EXCEPT !.oauth = TRUE, !.credential = TRUE]
    <3>1. /\ leg' = [leg EXCEPT ![l].step = "proved"] /\ attempt[l[1]].status = "pending"
          /\ attempt' = Connect!consume_oauth_proof_in_tx(l[1])
      BY <1>5, <2>1, Zenon DEF Connect!oauth_callback, Connect!MayConsumeProof, Connect!Usable
    <3>2. attempt' = [attempt EXCEPT ![l[1]] = row]
      BY <1>0, <2>0, <3>1, Zenon DEF Connect!consume_oauth_proof_in_tx
    <3>3. AttemptSound(row, binds[l[1]])
      BY ONLY <1>0, <2>0, <3>1, AttemptRows, Zenon
    <3>4. leg' \in [Connect!Legs -> [step : Connect!Steps, saw : Orgs \cup {Connect!None}]]
      BY <1>3, <3>1, Zenon DEF Connect!Steps
    <3> HIDE DEF row
    <3> QED
      BY ONLY ConnectInv, <2>0, <3>2, <3>3, <3>4, AttemptWritten, Zenon
  <2>2. CASE ~Connect!MayConsumeProof(l[1])
    <3>1. leg' = [leg EXCEPT ![l].step = "done"] /\ attempt' = attempt
      BY <1>5, <2>2, Zenon DEF Connect!oauth_callback
    <3>2. leg' \in [Connect!Legs -> [step : Connect!Steps, saw : Orgs \cup {Connect!None}]]
      BY <1>3, <3>1, Zenon DEF Connect!Steps
    <3> QED
      BY ONLY ConnectInv, <2>0, <3>1, <3>2, LegMoves, Zenon
  <2> QED
    BY <2>1, <2>2, Zenon
<1>6. ASSUME NEW l \in Connect!Legs, Connect!setup_callback(l) PROVE ConnectInv'
  <2>0. l[1] \in Attempts /\ bound' = bound /\ binds' = binds
    BY <1>3, <1>6, Zenon DEF Connect!setup_callback, Connect!Steps
  <2>1. CASE Connect!MayConsumeProof(l[1])
    <3> DEFINE row == [attempt[l[1]] EXCEPT !.setup = TRUE]
    <3>1. /\ leg' = [leg EXCEPT ![l].step = "proved"] /\ attempt[l[1]].status = "pending"
          /\ attempt' = Connect!consume_setup_proof_in_tx(l[1])
      BY <1>6, <2>1, Zenon DEF Connect!setup_callback, Connect!MayConsumeProof, Connect!Usable
    <3>2. attempt' = [attempt EXCEPT ![l[1]] = row]
      BY <1>0, <2>0, <3>1, Zenon DEF Connect!consume_setup_proof_in_tx
    <3>3. AttemptSound(row, binds[l[1]])
      BY ONLY <1>0, <2>0, <3>1, AttemptRows, Zenon
    <3>4. leg' \in [Connect!Legs -> [step : Connect!Steps, saw : Orgs \cup {Connect!None}]]
      BY <1>3, <3>1 DEF Connect!Steps
    <3> HIDE DEF row
    <3> QED
      BY ONLY ConnectInv, <2>0, <3>2, <3>3, <3>4, AttemptWritten
  <2>2. CASE ~Connect!MayConsumeProof(l[1])
    <3>1. leg' = [leg EXCEPT ![l].step = "done"] /\ attempt' = attempt
      BY <1>6, <2>2, Zenon DEF Connect!setup_callback
    <3>2. leg' \in [Connect!Legs -> [step : Connect!Steps, saw : Orgs \cup {Connect!None}]]
      BY <1>3, <3>1 DEF Connect!Steps
    <3> QED
      BY ONLY ConnectInv, <2>0, <3>1, <3>2, LegMoves
  <2> QED
    BY <2>1, <2>2
<1>7. ASSUME NEW l \in Connect!Legs, Connect!maybe_bind(l) PROVE ConnectInv'
  <2>1. [leg[l] EXCEPT !.step = "done"] \in [step : Connect!Steps, saw : Orgs \cup {Connect!None}]
    BY <1>0 DEF Connect!Steps
  <2>2. [step |-> "observed", saw |-> bound] \in
           [step : Connect!Steps, saw : Orgs \cup {Connect!None}]
    BY <1>0, Zenon DEF Connect!Steps
  <2> QED
    BY <1>0, <1>7, <2>1, <2>2, LegMoves, Zenon DEF Connect!maybe_bind
<1>8. ASSUME NEW l \in Connect!Legs, Connect!bind(l) PROVE ConnectInv'
  <2> DEFINE a == l[1]
             row == [attempt[a] EXCEPT !.status = "consumed", !.credential = FALSE]
  <2>1. a \in Attempts /\ AttemptSound(attempt[a], binds[a])
    BY <1>0, <1>3, Zenon DEF Connect!Steps
  <2>2. leg' \in [Connect!Legs -> [step : Connect!Steps, saw : Orgs \cup {Connect!None}]]
    BY <1>0, <1>8, Zenon DEF Connect!bind, Connect!Steps
  <2>3. CASE UNCHANGED <<bound, attempt, binds>>
    BY <2>2, <2>3, LegMoves, Zenon
  <2>4. CASE ~UNCHANGED <<bound, attempt, binds>>
    <3>1. /\ bound' = attempt[a].org /\ binds' = [binds EXCEPT ![a] = binds[a] + 1]
          /\ attempt' = [attempt EXCEPT ![a] = row] /\ attempt[a].status = "pending"
      BY <1>0, <1>8, <2>1, <2>4, Zenon
         DEF Connect!bind, Connect!consume_attempt_in_tx, Connect!Usable
    <3>2. binds[a] = 0 /\ AttemptSound(row, 1)
      BY <2>1, <3>1, AttemptRows, Zenon
    <3>3. bound' \in Orgs \cup {Connect!None}
      BY <2>1, <3>1, Zenon DEF AttemptSound, Connect!AttemptRow
    <3> HIDE DEF row, a
    <3>4. binds' = [binds EXCEPT ![a] = 1]
      BY ONLY <3>1, <3>2
    <3>5. row \in Connect!AttemptRow
      BY ONLY <3>2, Zenon DEF AttemptSound
    <3>6. /\ binds' \in [Attempts -> {0, 1}] /\ attempt' \in [Attempts -> Connect!AttemptRow]
      BY ONLY <1>0, <2>1, <3>1, <3>4, <3>5, Zenon
    <3>7. \A b \in Attempts : AttemptSound(attempt'[b], binds'[b])
      BY ONLY <1>0, <2>1, <3>1, <3>2, <3>4, Zenon
    <3> QED
      BY ONLY <2>2, <3>3, <3>6, <3>7, Zenon DEF ConnectInv, Connect!TypeOK
  <2> QED
    BY <2>3, <2>4, Zenon
<1>9. ASSUME Connect!expire_attempts PROVE ConnectInv'
  <2>1. /\ attempt' = [a \in Attempts |-> IF attempt[a].status = "pending" /\ attempt[a].late
                         THEN [attempt[a] EXCEPT !.status = "expired", !.credential = FALSE]
                         ELSE attempt[a]]
        /\ leg' = leg /\ bound' = bound /\ binds' = binds
    BY <1>9, Zenon DEF Connect!expire_attempts
  <2>2. ASSUME NEW a \in Attempts PROVE AttemptSound(attempt'[a], binds'[a])
    <3>1. CASE attempt[a].status = "pending" /\ attempt[a].late
      BY <1>0, <2>1, <3>1, AttemptRows, Zenon
    <3>2. CASE ~(attempt[a].status = "pending" /\ attempt[a].late)
      BY <1>0, <2>1, <3>2, Zenon
    <3> QED
      BY <3>1, <3>2, Zenon
  <2>3. attempt' \in [Attempts -> Connect!AttemptRow]
    <3>1. \A a \in Attempts : attempt'[a] \in Connect!AttemptRow
      BY <2>2, Zenon DEF AttemptSound
    <3> QED
      BY <2>1, <3>1, Zenon
  <2> QED
    BY <1>0, <2>1, <2>2, <2>3, Zenon DEF ConnectInv, Connect!TypeOK
<1>10. ASSUME NEW org \in Orgs, Connect!AdminRemoved(org) PROVE ConnectInv'
  BY <1>0, <1>10, LegMoves, Zenon DEF Connect!AdminRemoved
<1>11. CASE UNCHANGED Connect!vars
  BY <1>0, <1>11, LegMoves, Zenon DEF Connect!vars
<1> QED
  BY <1>1, <1>2, <1>4, <1>5, <1>6, <1>7, <1>8, <1>9, <1>10, <1>11, Zenon DEF Connect!Next

\* The invariant holds whatever attempts, callbacks and admins do.
LEMMA ConnectInvAlways == Connect!Spec => []ConnectInv
<1>1. Connect!Init => ConnectInv
  BY InitConnect, Zenon
<1>2. ConnectInv /\ [Connect!Next]_(Connect!vars) => ConnectInv'
  BY NextConnect, Zenon
<1> QED
  BY <1>1, <1>2, PTL DEF Connect!Spec

\* The rows of attempts, the callbacks and the binding have their types.
THEOREM AttemptsTypeCorrect == Connect!Spec => []Connect!TypeOK
<1>1. ConnectInv => Connect!TypeOK
  BY Zenon DEF ConnectInv
<1> QED
  BY <1>1, ConnectInvAlways, PTL

\* Of the two callbacks of an attempt, and of any number of repetitions, at most
\* one binds the installation (consume_attempt_in_tx).
THEOREM AttemptsBindOnce == Connect!Spec => []Connect!OneBindPerAttempt
<1>1. ConnectInv => Connect!OneBindPerAttempt
  BY DEF ConnectInv, Connect!OneBindPerAttempt
<1> QED
  BY <1>1, ConnectInvAlways, PTL

\* A consumed or expired attempt keeps no user credential, also when the OAuth
\* callback is at GitHub while the attempt expires (consume_oauth_proof_in_tx,
\* expire_attempts).
THEOREM SpentAttemptsAreEmptied == Connect!Spec => []Connect!SpentAttemptKeepsNothing
<1>1. ConnectInv => Connect!SpentAttemptKeepsNothing
  BY Zenon DEF ConnectInv, AttemptSound, Connect!SpentAttemptKeepsNothing
<1> QED
  BY <1>1, ConnectInvAlways, PTL

\* An installation stays with the organization that bound it first (bind).
THEOREM BindingIsForGood == Connect!Spec => [][Connect!BoundForGood]_(Connect!vars)
<1>1. ASSUME [Connect!Next]_(Connect!vars) PROVE [Connect!BoundForGood]_(Connect!vars)
  <2>1. ASSUME NEW l \in Connect!Legs, Connect!bind(l) PROVE Connect!BoundForGood
    BY <2>1, Zenon DEF Connect!bind, Connect!MayBind, Connect!BoundForGood
  <2>2. ASSUME bound' = bound PROVE Connect!BoundForGood
    BY <2>2, Zenon DEF Connect!BoundForGood
  <2> QED
    BY <1>1, <2>1, <2>2, Zenon
       DEF Connect!Next, Connect!start_connect, Connect!Deadline, Connect!ResolveLeg,
           Connect!oauth_callback, Connect!setup_callback, Connect!maybe_bind,
           Connect!expire_attempts, Connect!AdminRemoved
<1> QED
  BY <1>1, PTL DEF Connect!Spec

-----------------------------------------------------------------------------
(* The access of a connection. *)

CONSTANTS Workers, MaxGen, MaxMoves
VARIABLES github, binder, conn, leased, jobs, processed, job, moves, faulted

Access == INSTANCE ConnectionAccess

\* What the proofs assume of the bounds.
MovesBounded == MaxGen \in Nat /\ MaxMoves \in Nat

GithubRow == [state : {"active", "suspended", "gone"}, changes : 0..MaxMoves]
BinderRow == [step : {"idle", "observed", "verified"}, row : Access!ConnectionRow]
Kinds == {"suspend", "deleted", "removed", "unsuspend", "reconcile", "cleanup"}
JobRow == [kind : Kinds, n : 0..MaxMoves]
WorkSteps == {"idle", "revoke", "leases", "ask", "reactivate", "mark"}
WorkerRow == [kind : Kinds \cup {"none"}, n : 0..MaxMoves, step : WorkSteps,
              row : Access!ConnectionRow, to : {"none", "suspended", "deleted"},
              then : {"mark", "ask"}]

AccessTyped == /\ github \in GithubRow /\ binder \in BinderRow /\ conn \in Access!ConnectionRow
               /\ leased \in BOOLEAN /\ jobs \subseteq JobRow /\ processed \subseteq 1..MaxMoves
               /\ job \in [Workers -> WorkerRow] /\ moves \in 0..MaxMoves
               /\ faulted \in BOOLEAN

\* A delivery has the number of a change.
Numbered == /\ github.changes <= moves
            /\ \A j \in jobs : j.n <= github.changes
            /\ \A w \in Workers : job[w].n <= github.changes
            /\ \A n \in processed : n <= github.changes

\* No row was read from the future, and only a present one is worked on.
ReadBefore(x, c) ==
    /\ x.row.gen <= c.gen
    /\ IF x.step = "idle" THEN x = Access!Idle ELSE x.kind # "none"
    /\ x.step \notin {"idle", "mark"} => c.status # "none" /\ x.to # "none"

RowsRead == /\ conn.status = "none" => conn.gen = 0
            /\ binder.row.gen <= conn.gen
            /\ \A w \in Workers : ReadBefore(job[w], conn)

\* A row read under another generation, or that no revocation could change.
Stale(row, c) == row.gen < c.gen \/ c.status \notin Access!Revocable

\* A revocation has happened since GitHub was last seen active: no activation
\* that is under way passes its fence.
Applied == /\ conn.status # "active" \/ conn.unfenced
           /\ binder.step = "verified" => Stale(binder.row, conn)
           /\ \A w \in Workers : job[w].step = "reactivate" => Stale(job[w].row, conn)

\* Delivery n takes access away and has not been applied.
Due(n) == /\ n # 0 /\ n \notin processed
          /\ \A j \in jobs : j.n = n => j.kind \in Access!Removal
          /\ \A w \in Workers : job[w].n = n => /\ job[w].kind \in Access!Removal
                                                /\ job[w].step = "revoke"
          /\ (\E j \in jobs : j.n = n) \/ \E w \in Workers : job[w].n = n

Justified == github.state # "active" => Applied \/ \E n \in 0..MaxMoves : Due(n)

\* Until a worker fails a delivery is in one place.
InOnePlace ==
    /\ \A j, k \in jobs : j.n = k.n /\ j.n # 0 => j = k
    /\ \A j \in jobs, w \in Workers : j.n = job[w].n => j.n = 0
    /\ \A v, w \in Workers : job[v].n = job[w].n /\ job[v].n # 0 => v = w
    /\ \A j \in jobs : j.n \notin processed
    /\ \A w \in Workers : job[w].n \notin processed

\* The worker is on its way to the leases, or to an activation.
Pursues(x, c) == \/ x.step \in {"leases", "revoke"}
                 \/ x.step = "ask" /\ x.row.gen = c.gen /\ x.row.status = "suspended"
                 \/ x.step = "reactivate" /\ x.row.gen = c.gen

\* The queued job will be taken, and not be skipped.
Sole(j) == /\ j.n \notin processed
           /\ j.n # 0 => /\ \A w \in Workers : job[w].n # j.n
                         /\ \A k \in jobs : k.n = j.n => k = j

Cleans(x) == x.kind = "cleanup" /\ x.n = 0

Discarding ==
    /\ conn.status = "disconnected" /\ leased =>
         \/ \E j \in jobs : Cleans(j)
         \/ \E w \in Workers : Cleans(job[w]) /\ job[w].step = "leases"
    /\ conn.status = "suspended" /\ leased =>
         \/ \E w \in Workers : Pursues(job[w], conn)
         \/ \E j \in jobs : Sole(j)

AccessInv == /\ AccessTyped /\ Numbered /\ RowsRead /\ Justified /\ Discarding
             /\ ~faulted => InOnePlace

\* What holds of the rows, with their numbers and generations.
AccessRows == AccessTyped /\ Numbered /\ RowsRead

\* Only worker w moves.
Moved(w) == /\ job' \in [Workers -> WorkerRow]
            /\ \A o \in Workers \ {w} : job'[o] = job[o]

\* The worker keeps its job and goes to another step of it.
KeepsJob(w) == /\ Moved(w)
               /\ job'[w].n = job[w].n /\ job'[w].kind = job[w].kind
               /\ job'[w].row = job[w].row

\* The counters are numbers within their bounds.
LEMMA AccessNumbers ==
  ASSUME MovesBounded, AccessRows
  PROVE  /\ MaxGen \in Nat /\ MaxMoves \in Nat /\ conn.gen \in Nat /\ conn.gen <= MaxGen
         /\ moves \in Nat /\ moves <= MaxMoves /\ github.changes \in Nat
         /\ github.changes <= moves
         /\ \A w \in Workers : job[w].n \in Nat /\ job[w].row.gen \in Nat
         /\ \A j \in jobs : j.n \in Nat
         /\ binder.row.gen \in Nat
<1>1. MaxGen \in Nat /\ MaxMoves \in Nat
  BY Zenon DEF MovesBounded
<1>2. /\ github \in GithubRow /\ conn \in Access!ConnectionRow /\ moves \in 0..MaxMoves
      /\ github.changes <= moves
  BY Zenon DEF AccessRows, AccessTyped, Numbered
<1>3. /\ conn.gen \in Nat /\ conn.gen <= MaxGen /\ moves \in Nat /\ moves <= MaxMoves
      /\ github.changes \in Nat
  BY ONLY <1>1, <1>2 DEF GithubRow, Access!ConnectionRow
<1>4. job \in [Workers -> WorkerRow] /\ jobs \subseteq JobRow /\ binder \in BinderRow
  BY Zenon DEF AccessRows, AccessTyped
<1>5. \A w \in Workers : job[w].n \in Nat /\ job[w].row.gen \in Nat
  BY ONLY <1>1, <1>4 DEF WorkerRow, Access!ConnectionRow
<1>6. /\ \A j \in jobs : j.n \in Nat
      /\ binder.row.gen \in Nat
  BY ONLY <1>1, <1>4 DEF JobRow, BinderRow, Access!ConnectionRow
<1> QED
  BY ONLY <1>1, <1>2, <1>3, <1>5, <1>6, Zenon

\* The row is read without its history.
LEMMA ReadRow ==
  ASSUME conn \in Access!ConnectionRow
  PROVE  /\ Access!Read \in Access!ConnectionRow
         /\ Access!Read.gen = conn.gen /\ Access!Read.status = conn.status
BY Zenon DEF Access!Read, Access!ConnectionRow

\* No connection is a row, of generation 0.
LEMMA AbsentRow ==
  ASSUME MovesBounded PROVE Access!NoConn \in Access!ConnectionRow /\ Access!NoConn.gen = 0
BY DEF MovesBounded, Access!NoConn, Access!ConnectionRow

\* An idle worker is a row without a delivery.
LEMMA IdleRow ==
  ASSUME MovesBounded
  PROVE  /\ Access!Idle \in WorkerRow /\ Access!Idle.step = "idle" /\ Access!Idle.n = 0
         /\ Access!Idle.row = Access!NoConn
<1>1. Access!NoConn \in Access!ConnectionRow
  BY AbsentRow, Zenon
<1>2. 0 \in 0..MaxMoves
  BY DEF MovesBounded
<1> QED
  BY ONLY <1>1, <1>2, Zenon DEF Access!Idle, WorkerRow, WorkSteps

\* A worker that writes its row moves alone.
LEMMA WorkerWrites ==
  ASSUME job \in [Workers -> WorkerRow], NEW w \in Workers, NEW x \in WorkerRow,
         job' = [job EXCEPT ![w] = x]
  PROVE  Moved(w) /\ job'[w] = x
BY Zenon DEF Moved

\* A worker goes to step s of its job.
LEMMA WorkerSteps ==
  ASSUME job \in [Workers -> WorkerRow], NEW w \in Workers, NEW s \in WorkSteps,
         Access!Step(w, s)
  PROVE  KeepsJob(w) /\ job'[w].step = s /\ job'[w].to = job[w].to
<1> DEFINE x == [job[w] EXCEPT !.step = s]
<1>1. job[w] \in WorkerRow
  BY Zenon
<1>2. /\ x \in WorkerRow /\ x.step = s /\ x.n = job[w].n /\ x.kind = job[w].kind
      /\ x.row = job[w].row /\ x.to = job[w].to
  BY ONLY <1>1, s \in WorkSteps, Zenon DEF WorkerRow
<1>3. job' = [job EXCEPT ![w] = x]
  BY Zenon DEF Access!Step
<1> HIDE DEF x
<1> QED
  BY <1>2, <1>3, WorkerWrites, Zenon DEF KeepsJob

\* No connection, no job, nothing delivered.
LEMMA InitAccess == ASSUME MovesBounded, Access!Init PROVE AccessInv
<1>1. /\ Access!NoConn \in Access!ConnectionRow /\ Access!NoConn.gen = 0
      /\ Access!Idle \in WorkerRow /\ Access!Idle.step = "idle" /\ Access!Idle.n = 0
      /\ Access!Idle.row = Access!NoConn /\ 0 \in 0..MaxMoves
  BY AbsentRow, IdleRow DEF MovesBounded
<1>2. /\ github = [state |-> "active", changes |-> 0] /\ binder = Access!NoBinding
      /\ conn = Access!NoConn /\ leased = FALSE /\ jobs = {} /\ processed = {}
      /\ moves = 0 /\ faulted = FALSE
      /\ job \in [Workers -> WorkerRow] /\ \A w \in Workers : job[w] = Access!Idle
  BY <1>1, Zenon DEF Access!Init
<1>3. github \in GithubRow /\ github.changes = 0 /\ github.state = "active"
  BY ONLY <1>1, <1>2, Zenon DEF GithubRow
<1>4. binder \in BinderRow /\ binder.row = Access!NoConn
  BY ONLY <1>1, <1>2, Zenon DEF BinderRow, Access!NoBinding
<1>5. AccessTyped
  BY ONLY <1>1, <1>2, <1>3, <1>4, Zenon DEF AccessTyped
<1>6. Numbered
  BY ONLY <1>1, <1>2, <1>3 DEF Numbered
<1>7. RowsRead
  BY ONLY <1>1, <1>2, <1>4 DEF RowsRead, ReadBefore
<1>8. Justified /\ Discarding
  BY ONLY <1>2, <1>3, Zenon DEF Justified, Discarding
<1>9. InOnePlace
  BY ONLY <1>1, <1>2, Zenon DEF InOnePlace
<1> QED
  BY ONLY <1>5, <1>6, <1>7, <1>8, <1>9, Zenon DEF AccessInv

--------------------------------------------------------------------------
(* What each step of the binder, of GitHub and of the admin does. *)

\* The binder keeps the generation it observed.
LEMMA ObserveDoes ==
  ASSUME MovesBounded, AccessRows, Access!Observe
  PROVE  /\ binder' \in BinderRow /\ binder'.step = "observed" /\ binder'.row.gen = conn.gen
         /\ moves' = moves + 1 /\ moves' \in 0..MaxMoves
         /\ UNCHANGED <<github, conn, leased, jobs, processed, job, faulted>>
<1>1. /\ binder' = [step |-> "observed", row |-> Access!Read]
      /\ moves < MaxMoves /\ moves' = moves + 1
      /\ UNCHANGED <<github, conn, leased, jobs, processed, job, faulted>>
  BY Zenon DEF Access!Observe, Access!Move
<1>2. Access!Read \in Access!ConnectionRow /\ Access!Read.gen = conn.gen
  BY ReadRow, Zenon DEF AccessRows, AccessTyped
<1>3. binder' \in BinderRow /\ binder'.step = "observed" /\ binder'.row.gen = conn.gen
  BY ONLY <1>1, <1>2, Zenon DEF BinderRow
<1>4. moves' \in 0..MaxMoves
  BY <1>1, AccessNumbers
<1> QED
  BY ONLY <1>1, <1>3, <1>4, Zenon

\* The binder goes on only where GitHub says the installation is active.
LEMMA VerifyDoes ==
  ASSUME MovesBounded, AccessRows, Access!VerifyInstallation
  PROVE  /\ binder' \in BinderRow /\ binder'.row.gen <= conn.gen
         /\ binder'.step = "verified" => github.state = "active"
         /\ UNCHANGED <<github, conn, leased, jobs, processed, job, moves, faulted>>
<1>1. /\ binder' = IF github.state = "active" THEN [binder EXCEPT !.step = "verified"]
                   ELSE Access!NoBinding
      /\ UNCHANGED <<github, conn, leased, jobs, processed, job, moves, faulted>>
  BY Zenon DEF Access!VerifyInstallation
<1>2. binder \in BinderRow /\ binder.row.gen <= conn.gen /\ conn.gen \in Nat
  BY AccessNumbers, Zenon DEF AccessRows, AccessTyped, RowsRead
<1>3. Access!NoConn \in Access!ConnectionRow /\ Access!NoConn.gen = 0
  BY AbsentRow, Zenon
<1>4. binder' \in BinderRow /\ binder'.row.gen <= conn.gen
  <2>1. CASE github.state = "active"
    BY ONLY <1>1, <1>2, <2>1, Zenon DEF BinderRow
  <2>2. CASE github.state # "active"
    BY ONLY <1>1, <1>2, <1>3, <2>2 DEF BinderRow, Access!NoBinding
  <2> QED
    BY ONLY <2>1, <2>2, Zenon
<1>5. binder'.step = "verified" => github.state = "active"
  BY ONLY <1>1, Zenon DEF Access!NoBinding
<1> QED
  BY ONLY <1>1, <1>4, <1>5, Zenon

\* A bound connection is new, or under a new generation; either way it is active.
LEMMA BindDoes ==
  ASSUME MovesBounded, AccessRows, Access!bind
  PROVE  /\ binder.step = "verified"
         /\ binder' \in BinderRow /\ binder'.step = "idle" /\ binder'.row.gen = 0
         /\ conn' \in Access!ConnectionRow
         /\ \/ conn' = conn
            \/ /\ conn'.status = "active" /\ conn.status = "none" /\ conn'.gen = 0
               /\ conn'.unfenced
            \/ /\ conn'.status = "active" /\ conn'.gen = conn.gen + 1 /\ binder.row.gen = conn.gen
               /\ conn.status # "none"
               /\ conn.status \notin Access!Revocable => conn'.unfenced
         /\ UNCHANGED <<github, leased, jobs, processed, job, moves, faulted>>
<1>1. /\ binder.step = "verified" /\ conn.gen < MaxGen
      /\ conn' = IF ~Access!FenceHolds THEN conn
               ELSE [status |-> "active", unfenced |-> conn.status \notin Access!Revocable,
                     gen |-> IF conn.status = "none" THEN 0 ELSE conn.gen + 1]
      /\ binder' = Access!NoBinding
      /\ UNCHANGED <<github, leased, jobs, processed, job, moves, faulted>>
  BY Zenon DEF Access!bind
<1>2. conn \in Access!ConnectionRow
  BY Zenon DEF AccessRows, AccessTyped
<1>3. Access!NoConn \in Access!ConnectionRow /\ Access!NoConn.gen = 0
  BY AbsentRow
<1>4. binder' \in BinderRow /\ binder'.step = "idle" /\ binder'.row.gen = 0
  BY ONLY <1>1, <1>3, Zenon DEF BinderRow, Access!NoBinding
<1>5. CASE ~Access!FenceHolds
  BY ONLY <1>1, <1>2, <1>4, <1>5, Zenon
<1>6. CASE Access!FenceHolds
  <2> DEFINE g == IF conn.status = "none" THEN 0 ELSE conn.gen + 1
             b == conn.status \notin Access!Revocable
  <2>1. g \in 0..MaxGen
    BY <1>1, AccessNumbers
  <2>2. conn' = [status |-> "active", unfenced |-> b, gen |-> g]
    BY <1>1, <1>6, Zenon
  <2>3. b \in BOOLEAN
    BY Zenon
  <2>4. conn.status = "none" => b
    BY Zenon DEF Access!Revocable
  <2>5. conn.status = "none" \/ binder.row.gen = conn.gen
    BY <1>6, Zenon DEF Access!FenceHolds
  <2>6. (conn.status = "none" => g = 0) /\ (conn.status # "none" => g = conn.gen + 1)
    BY Zenon
  <2>7. conn.status \notin Access!Revocable => b
    BY Zenon
  <2> HIDE DEF g, b
  <2>8. /\ conn' \in Access!ConnectionRow /\ conn'.status = "active" /\ conn'.unfenced = b
        /\ conn'.gen = g
    BY ONLY <2>1, <2>2, <2>3, Zenon DEF Access!ConnectionRow
  <2> QED
    BY ONLY <1>1, <1>4, <2>4, <2>5, <2>6, <2>7, <2>8, Zenon
<1> QED
  BY ONLY <1>5, <1>6, Zenon

\* A delivery gets the next number; it takes access away unless GitHub is active.
LEMMA ReceiveDoes ==
  ASSUME MovesBounded, AccessRows, NEW to \in {"active", "suspended", "gone"}, Access!receive(to)
  PROVE  \E j \in JobRow :
           /\ jobs' = jobs \cup {j} /\ j.n = github.changes + 1
           /\ github'.state # "active" => j.kind \in Access!Removal
           /\ github' \in GithubRow /\ github'.changes = github.changes + 1
           /\ moves' = moves + 1 /\ moves' \in 0..MaxMoves
           /\ UNCHANGED <<binder, conn, leased, processed, job, faulted>>
<1> DEFINE c == github.changes + 1
           e == Access!EventOf(github.state, to)
           j == Access!Job(e, c)
<1>1. /\ to \in Access!GithubMoves[github.state] /\ github' = [state |-> to, changes |-> c]
      /\ jobs' = jobs \cup {j} /\ moves < MaxMoves /\ moves' = moves + 1
      /\ UNCHANGED <<binder, conn, leased, processed, job, faulted>>
  BY Zenon DEF Access!receive, Access!Move
<1>2. c \in 0..MaxMoves /\ moves' \in 0..MaxMoves
  BY <1>1, AccessNumbers
<1>3. github.state \in {"active", "suspended", "gone"}
  BY Zenon DEF AccessRows, AccessTyped, GithubRow
<1>4. e \in Kinds /\ (to # "active" => e \in Access!Removal)
  <2>1. to = github.state => to = "active"
    BY <1>1, <1>3 DEF Access!GithubMoves
  <2> QED
    BY ONLY <1>3, <2>1, to \in {"active", "suspended", "gone"}, Zenon
       DEF Access!EventOf, Kinds, Access!Removal
<1> HIDE DEF e, c
<1>5. j \in JobRow /\ j.n = c /\ j.kind = e
  BY ONLY <1>2, <1>4, Zenon DEF Access!Job, JobRow
<1>6. github' \in GithubRow /\ github'.changes = c /\ github'.state = to
  BY ONLY <1>1, <1>2, to \in {"active", "suspended", "gone"}, Zenon DEF GithubRow
<1> HIDE DEF j
<1> QED
  <2>1. c = github.changes + 1
    BY Zenon DEF c
  <2> QED
    BY ONLY <1>1, <1>2, <1>4, <1>5, <1>6, <2>1, Zenon

\* A reconciliation queues a job of no delivery.
LEMMA ReconcileDoes ==
  ASSUME MovesBounded, AccessRows, Access!reconcile_connection
  PROVE  \E j \in JobRow :
           /\ jobs' = jobs \cup {j} /\ j.n = 0
           /\ moves' = moves + 1 /\ moves' \in 0..MaxMoves
           /\ UNCHANGED <<github, binder, conn, leased, processed, job, faulted>>
<1>1. /\ jobs' = jobs \cup {Access!Job("reconcile", 0)} /\ moves < MaxMoves /\ moves' = moves + 1
      /\ UNCHANGED <<github, binder, conn, leased, processed, job, faulted>>
  BY Zenon DEF Access!reconcile_connection, Access!Move
<1>2. moves' \in 0..MaxMoves /\ 0 \in 0..MaxMoves
  BY <1>1, AccessNumbers
<1>3. Access!Job("reconcile", 0) \in JobRow /\ Access!Job("reconcile", 0).n = 0
  BY ONLY <1>2, Zenon DEF Access!Job, JobRow, Kinds
<1> QED
  BY ONLY <1>1, <1>2, <1>3, Zenon

\* A disconnection takes the next generation and queues the cleanup.
LEMMA DisconnectDoes ==
  ASSUME MovesBounded, AccessRows, Access!disconnect
  PROVE  /\ conn.status \in Access!Revocable /\ conn' \in Access!ConnectionRow
         /\ conn'.status = "disconnected" /\ conn'.gen = conn.gen + 1
         /\ \E j \in JobRow : jobs' = jobs \cup {j} /\ Cleans(j)
         /\ moves' = moves + 1 /\ moves' \in 0..MaxMoves
         /\ UNCHANGED <<github, binder, leased, processed, job, faulted>>
<1> DEFINE g == conn.gen + 1
<1>1. /\ jobs' = jobs \cup {Access!Job("cleanup", 0)} /\ moves < MaxMoves /\ moves' = moves + 1
      /\ conn.gen < MaxGen /\ conn.status \in Access!Revocable
      /\ conn' = [conn EXCEPT !.status = "disconnected", !.gen = g, !.unfenced = FALSE]
      /\ UNCHANGED <<github, binder, leased, processed, job, faulted>>
  BY Zenon DEF Access!disconnect, Access!Move, AccessRows, AccessTyped, Access!ConnectionRow
<1>2. moves' \in 0..MaxMoves /\ 0 \in 0..MaxMoves /\ g \in 0..MaxGen
  BY <1>1, AccessNumbers
<1>3. Access!Job("cleanup", 0) \in JobRow /\ Cleans(Access!Job("cleanup", 0))
  BY ONLY <1>2, Zenon DEF Access!Job, JobRow, Kinds, Cleans
<1>4. conn \in Access!ConnectionRow
  BY DEF AccessRows, AccessTyped
<1> HIDE DEF g
<1>5. conn' \in Access!ConnectionRow /\ conn'.status = "disconnected" /\ conn'.gen = g
  BY ONLY <1>1, <1>2, <1>4, Zenon DEF Access!ConnectionRow
<1> QED
  BY ONLY <1>1, <1>2, <1>3, <1>5, Zenon DEF g


--------------------------------------------------------------------------
(* What each step of a worker does. *)

\* A worker takes a job and reads the delivery and the row.
LEMMA ProcessDoes ==
  ASSUME MovesBounded, AccessRows, NEW w \in Workers, Access!process(w)
  PROVE  \E j \in jobs :
           /\ jobs' = jobs \ {j} /\ Moved(w) /\ job[w].step = "idle"
           /\ job'[w].kind = j.kind /\ job'[w].n = j.n /\ job'[w].to # "none"
           /\ job'[w].row.gen = conn.gen /\ job'[w].row.status = conn.status
           /\ j.n \in processed \/ conn.status = "none" => job'[w].step = "mark"
           /\ j.n \notin processed /\ conn.status # "none" =>
                /\ job'[w].step \in {"revoke", "ask", "leases"}
                /\ j.kind \in Access!Removal => job'[w].step = "revoke"
                /\ j.kind = "cleanup" => job'[w].step = "leases"
           /\ job'[w].step \in {"revoke", "ask", "leases", "mark"}
           /\ UNCHANGED <<github, binder, conn, leased, processed, moves, faulted>>
<1>1. PICK j \in jobs :
         /\ jobs' = jobs \ {j}
         /\ job' = [job EXCEPT ![w] =
              [kind |-> j.kind, n |-> j.n, row |-> Access!Read,
               to |-> IF j.kind = "deleted" THEN "deleted" ELSE "suspended",
               then |-> IF j.kind = "removed" THEN "ask" ELSE "mark",
               step |-> IF j.n \in processed \/ conn.status = "none" THEN "mark"
                        ELSE CASE j.kind \in {"suspend", "deleted", "removed"} -> "revoke"
                               [] j.kind \in {"unsuspend", "reconcile"} -> "ask"
                               [] j.kind = "cleanup" -> "leases"]]
  BY Zenon DEF Access!process
<1>2. /\ job[w].step = "idle"
      /\ UNCHANGED <<github, binder, conn, leased, processed, moves, faulted>>
  BY Zenon DEF Access!process, Access!Rest
<1>3. Access!Read \in Access!ConnectionRow /\ Access!Read.gen = conn.gen
      /\ Access!Read.status = conn.status
  BY ReadRow, Zenon DEF AccessRows, AccessTyped
<1> DEFINE a == IF j.kind = "deleted" THEN "deleted" ELSE "suspended"
           b == IF j.kind = "removed" THEN "ask" ELSE "mark"
           s == IF j.n \in processed \/ conn.status = "none" THEN "mark"
                ELSE CASE j.kind \in {"suspend", "deleted", "removed"} -> "revoke"
                       [] j.kind \in {"unsuspend", "reconcile"} -> "ask"
                       [] j.kind = "cleanup" -> "leases"
           x == [kind |-> j.kind, n |-> j.n, row |-> Access!Read, to |-> a, then |-> b, step |-> s]
<1>4. j.kind \in Kinds /\ j.n \in 0..MaxMoves /\ job \in [Workers -> WorkerRow]
  BY Zenon DEF AccessRows, AccessTyped, JobRow
<1>5. a \in {"deleted", "suspended"} /\ b \in {"mark", "ask"}
  BY Zenon
<1>6. CASE j.n \in processed \/ conn.status = "none"
  <2>1. s = "mark"
    BY <1>6, Zenon
  <2> HIDE DEF s, a, b
  <2>2. /\ x \in WorkerRow /\ x.kind = j.kind /\ x.n = j.n /\ x.row = Access!Read /\ x.to = a
        /\ x.step = s
    BY ONLY <1>3, <1>4, <1>5, <2>1, Zenon DEF WorkerRow, WorkSteps
  <2>3. job' = [job EXCEPT ![w] = x]
    BY <1>1, Zenon DEF s, a, b
  <2> HIDE DEF x
  <2>4. Moved(w) /\ job'[w] = x
    BY <1>4, <2>2, <2>3, WorkerWrites, Zenon
  <2> QED
    BY ONLY j \in jobs, <1>1, <1>2, <1>3, <1>5, <1>6, <2>1, <2>2, <2>4, Zenon
<1>7. CASE ~(j.n \in processed \/ conn.status = "none")
  <2>1. /\ s \in {"revoke", "ask", "leases"}
        /\ j.kind \in Access!Removal => s = "revoke"
        /\ j.kind = "cleanup" => s = "leases"
    BY ONLY <1>4, <1>7, Zenon DEF Kinds, Access!Removal
  <2> HIDE DEF s, a, b
  <2>2. /\ x \in WorkerRow /\ x.kind = j.kind /\ x.n = j.n /\ x.row = Access!Read /\ x.to = a
        /\ x.step = s
    BY ONLY <1>3, <1>4, <1>5, <2>1, Zenon DEF WorkerRow, WorkSteps
  <2>3. job' = [job EXCEPT ![w] = x]
    BY <1>1 DEF s, a, b
  <2> HIDE DEF x
  <2>4. Moved(w) /\ job'[w] = x
    BY <1>4, <2>2, <2>3, WorkerWrites
  <2> QED
    BY ONLY j \in jobs, <1>1, <1>2, <1>3, <1>5, <1>7, <2>1, <2>2, <2>4
<1> QED
  BY ONLY <1>6, <1>7, Zenon

\* A revocation moves an active or suspended row to the next generation.
LEMMA RevokeDoes ==
  ASSUME MovesBounded, AccessRows, NEW w \in Workers, Access!revoke_access(w)
  PROVE  /\ job[w].step = "revoke" /\ KeepsJob(w) /\ job'[w].step = "leases"
         /\ job'[w].to = job[w].to /\ conn' \in Access!ConnectionRow
         /\ \/ conn.status \notin Access!Revocable /\ conn' = conn
            \/ /\ conn'.status \in {"suspended", "deleted"} /\ conn'.gen = conn.gen + 1
               /\ conn.status \in Access!Revocable
         /\ UNCHANGED <<github, binder, leased, jobs, processed, moves, faulted>>
<1> DEFINE g == conn.gen + 1
<1>1. /\ job[w].step = "revoke" /\ conn.gen < MaxGen /\ Access!Step(w, "leases")
      /\ UNCHANGED <<github, binder, leased, jobs, processed, moves, faulted>>
  BY Zenon DEF Access!revoke_access, Access!Rest
<1>2. conn \in Access!ConnectionRow /\ job \in [Workers -> WorkerRow] /\ "leases" \in WorkSteps
  BY Zenon DEF AccessRows, AccessTyped, WorkSteps
<1>3. conn' = IF conn.status \in Access!Revocable
                 THEN [conn EXCEPT !.status = job[w].to, !.gen = g, !.unfenced = FALSE]
                 ELSE conn
  BY <1>2, Zenon DEF Access!revoke_access, Access!ConnectionRow
<1>4. KeepsJob(w) /\ job'[w].step = "leases" /\ job'[w].to = job[w].to
  BY <1>1, <1>2, WorkerSteps, Zenon
<1>5. job[w].to \in {"suspended", "deleted"}
  <2>1. job[w] \in WorkerRow /\ ReadBefore(job[w], conn)
    BY Zenon DEF AccessRows, AccessTyped, RowsRead
  <2> QED
    BY ONLY <1>1, <2>1, Zenon DEF ReadBefore, WorkerRow
<1>6. g \in 0..MaxGen
  BY <1>1, AccessNumbers
<1>7. CASE conn.status \in Access!Revocable
  <2> HIDE DEF g
  <2>1. conn' \in Access!ConnectionRow /\ conn'.status = job[w].to /\ conn'.gen = g
    BY ONLY <1>2, <1>3, <1>5, <1>6, <1>7, Zenon DEF Access!ConnectionRow
  <2> QED
    BY ONLY <1>1, <1>4, <1>5, <1>7, <2>1, Zenon DEF g
<1>8. CASE conn.status \notin Access!Revocable
  BY ONLY <1>1, <1>2, <1>3, <1>4, <1>8, Zenon
<1> QED
  BY ONLY <1>7, <1>8, Zenon

\* Revoking the leases keeps the job and goes on with it.
LEMMA LeasesDoes ==
  ASSUME MovesBounded, AccessRows, NEW w \in Workers, Access!revoke_leases_for_connection(w)
  PROVE  /\ job[w].step = "leases" /\ KeepsJob(w) /\ job'[w].step \in {"mark", "ask"}
         /\ job'[w].to = job[w].to /\ leased' = FALSE
         /\ UNCHANGED <<github, binder, conn, jobs, processed, moves, faulted>>
<1>1. /\ job[w].step = "leases" /\ leased' = FALSE /\ Access!Step(w, job[w].then)
      /\ UNCHANGED <<github, binder, conn, jobs, processed, moves, faulted>>
  BY Zenon DEF Access!revoke_leases_for_connection, Access!Rest
<1>2. job \in [Workers -> WorkerRow] /\ job[w].then \in {"mark", "ask"}
  BY Zenon DEF AccessRows, AccessTyped, WorkerRow
<1>3. job[w].then \in WorkSteps
  BY <1>2, Zenon DEF WorkSteps
<1>4. KeepsJob(w) /\ job'[w].step = job[w].then /\ job'[w].to = job[w].to
  BY <1>1, <1>2, <1>3, WorkerSteps, Zenon
<1> QED
  BY ONLY <1>1, <1>2, <1>4, Zenon

\* GitHub decides whether a reconciliation revokes or reactivates.
LEMMA AskDoes ==
  ASSUME MovesBounded, AccessRows, NEW w \in Workers, Access!reconcile(w)
  PROVE  /\ job[w].step = "ask" /\ KeepsJob(w) /\ job'[w].to # "none"
         /\ job'[w].step \in {"mark", "reactivate", "revoke"}
         /\ job'[w].step = "reactivate" => github.state = "active"
         /\ job[w].row.status \notin {"disconnected", "deleted"} => job'[w].step # "mark"
         /\ UNCHANGED <<github, binder, conn, leased, jobs, processed, moves, faulted>>
<1> DEFINE s == IF job[w].row.status \in {"disconnected", "deleted"} THEN "mark"
                ELSE IF github.state = "active" THEN "reactivate" ELSE "revoke"
           a == IF github.state = "gone" THEN "deleted" ELSE "suspended"
           x == [job[w] EXCEPT !.step = s, !.to = a, !.then = "mark"]
<1>1. /\ job[w].step = "ask"
      /\ UNCHANGED <<github, binder, conn, leased, jobs, processed, moves, faulted>>
  BY Zenon DEF Access!reconcile, Access!Rest
<1>2. job \in [Workers -> WorkerRow] /\ job[w] \in WorkerRow
  BY Zenon DEF AccessRows, AccessTyped
<1>3. job' = [job EXCEPT ![w] = x]
  BY <1>2, Zenon DEF Access!reconcile
<1>4. /\ s \in {"mark", "reactivate", "revoke"} /\ a \in {"deleted", "suspended"}
      /\ s = "reactivate" => github.state = "active"
      /\ job[w].row.status \notin {"disconnected", "deleted"} => s # "mark"
  BY Zenon
<1> HIDE DEF s, a
<1> DEFINE u == [job[w] EXCEPT !.step = s]
           v == [u EXCEPT !.to = a]
<1>5. /\ u \in WorkerRow /\ u.step = s /\ u.n = job[w].n /\ u.kind = job[w].kind
      /\ u.row = job[w].row
  BY ONLY <1>2, <1>4, Zenon DEF WorkerRow, WorkSteps
<1> HIDE DEF u
<1>6. /\ v \in WorkerRow /\ v.step = s /\ v.n = job[w].n /\ v.kind = job[w].kind
      /\ v.row = job[w].row /\ v.to = a
  BY ONLY <1>4, <1>5, Zenon DEF WorkerRow
<1>7. x = [v EXCEPT !.then = "mark"]
  BY Zenon DEF u
<1> HIDE DEF v, x
<1>8. /\ x \in WorkerRow /\ x.step = s /\ x.n = job[w].n /\ x.kind = job[w].kind
      /\ x.row = job[w].row /\ x.to = a
  BY ONLY <1>6, <1>7, Zenon DEF WorkerRow
<1>9. Moved(w) /\ job'[w] = x
  BY ONLY <1>2, <1>3, <1>8, WorkerWrites, w \in Workers, Zenon
<1> QED
  BY ONLY <1>1, <1>4, <1>8, <1>9, Zenon DEF KeepsJob

\* A reactivation is of a suspended connection of the generation that was read.
LEMMA ReactivateDoes ==
  ASSUME MovesBounded, AccessRows, NEW w \in Workers, Access!reactivate_connection(w)
  PROVE  /\ job[w].step = "reactivate" /\ KeepsJob(w) /\ job'[w].step = "mark"
         /\ job'[w].to = job[w].to /\ conn' \in Access!ConnectionRow /\ conn'.gen = conn.gen
         /\ \/ conn' = conn /\ (conn.status # "suspended" \/ conn.gen # job[w].row.gen)
            \/ /\ conn.status = "suspended" /\ conn.gen = job[w].row.gen
               /\ conn'.status = "active"
         /\ UNCHANGED <<github, binder, leased, jobs, processed, moves, faulted>>
<1>1. /\ job[w].step = "reactivate" /\ Access!Step(w, "mark")
      /\ conn' = IF Access!Reactivates(w) THEN [conn EXCEPT !.status = "active"] ELSE conn
      /\ UNCHANGED <<github, binder, leased, jobs, processed, moves, faulted>>
  BY Zenon DEF Access!reactivate_connection, Access!Rest
<1>2. conn \in Access!ConnectionRow /\ job \in [Workers -> WorkerRow] /\ "mark" \in WorkSteps
  BY Zenon DEF AccessRows, AccessTyped, WorkSteps
<1>3. KeepsJob(w) /\ job'[w].step = "mark" /\ job'[w].to = job[w].to
  BY <1>1, <1>2, WorkerSteps, Zenon
<1>4. /\ conn' \in Access!ConnectionRow /\ conn'.gen = conn.gen
      /\ Access!Reactivates(w) => conn'.status = "active"
  BY ONLY <1>1, <1>2, Zenon DEF Access!ConnectionRow
<1> QED
  BY ONLY <1>1, <1>3, <1>4, Zenon DEF Access!Reactivates

\* Marking a delivery processed ends the job.
LEMMA MarkDoes ==
  ASSUME MovesBounded, AccessRows, NEW w \in Workers, Access!mark_processed(w)
  PROVE  /\ job[w].step = "mark" /\ Moved(w) /\ job'[w] = Access!Idle
         /\ processed' \subseteq 1..MaxMoves
         /\ \A n : n \in processed' <=> n \in processed \/ (n = job[w].n /\ n # 0)
         /\ UNCHANGED <<github, binder, conn, leased, jobs, moves, faulted>>
<1>1. /\ job[w].step = "mark" /\ job' = [job EXCEPT ![w] = Access!Idle]
      /\ processed' = IF job[w].n = 0 THEN processed ELSE processed \cup {job[w].n}
      /\ UNCHANGED <<github, binder, conn, leased, jobs, moves, faulted>>
  BY Zenon DEF Access!mark_processed, Access!Rest
<1>2. Moved(w) /\ job'[w] = Access!Idle
  BY <1>1, IdleRow, WorkerWrites, Zenon DEF AccessRows, AccessTyped
<1>3. processed \subseteq 1..MaxMoves /\ job[w].n \in 0..MaxMoves
  BY Zenon DEF AccessRows, AccessTyped, WorkerRow
<1>4. job[w].n # 0 => job[w].n \in 1..MaxMoves
  BY ONLY <1>3
<1>5. processed' \subseteq 1..MaxMoves
  BY ONLY <1>1, <1>3, <1>4, Zenon
<1>6. \A n : n \in processed' <=> n \in processed \/ (n = job[w].n /\ n # 0)
  BY ONLY <1>1, Zenon
<1> QED
  BY ONLY <1>1, <1>2, <1>5, <1>6, Zenon

\* A failed worker's job is queued again; the worker is idle or goes on.
LEMMA FaultDoes ==
  ASSUME MovesBounded, AccessRows, NEW w \in Workers, Access!WorkerCrash(w) \/ Access!LeaseLost(w)
  PROVE  /\ ~faulted /\ faulted' = TRUE /\ Moved(w)
         /\ job'[w] = Access!Idle \/ job'[w] = job[w]
         /\ \E j \in JobRow : jobs' = jobs \cup {j} /\ j.n = job[w].n /\ j.kind = job[w].kind
         /\ UNCHANGED <<github, binder, conn, leased, processed, moves>>
<1>1. /\ job[w].step # "idle" /\ ~faulted /\ faulted' = TRUE
      /\ jobs' = jobs \cup {Access!Job(job[w].kind, job[w].n)}
      /\ job' = [job EXCEPT ![w] = Access!Idle] \/ job' = job
      /\ UNCHANGED <<github, binder, conn, leased, processed, moves>>
  BY Zenon DEF Access!WorkerCrash, Access!LeaseLost, Access!Again
<1>2. job \in [Workers -> WorkerRow] /\ job[w] \in WorkerRow
  BY Zenon DEF AccessRows, AccessTyped
<1>3. Moved(w) /\ (job'[w] = Access!Idle \/ job'[w] = job[w])
  <2>1. CASE job' = [job EXCEPT ![w] = Access!Idle]
    BY <1>2, <2>1, IdleRow, WorkerWrites, Zenon
  <2>2. CASE job' = job
    BY <1>2, <2>2, Zenon DEF Moved
  <2> QED
    BY <1>1, <2>1, <2>2, Zenon
<1>4. job[w].kind # "none"
  BY <1>1, Zenon DEF AccessRows, RowsRead, ReadBefore
<1> DEFINE j == Access!Job(job[w].kind, job[w].n)
<1>5. j \in JobRow /\ j.n = job[w].n /\ j.kind = job[w].kind
  BY ONLY <1>2, <1>4, Zenon DEF Access!Job, JobRow, WorkerRow
<1>6. jobs' = jobs \cup {j}
  BY <1>1, Zenon
<1> HIDE DEF j
<1> QED
  BY ONLY <1>1, <1>3, <1>5, <1>6, Zenon


--------------------------------------------------------------------------
(* The rows keep their types, numbers and generations. *)

\* Numbers and generations grow; a worker that moved has read the row as it is.
LEMMA RowsStep ==
  ASSUME MovesBounded, AccessRows,
         github' \in GithubRow, moves' \in 0..MaxMoves, github'.changes <= moves',
         github.changes <= github'.changes,
         binder' \in BinderRow, binder'.row.gen <= conn'.gen,
         conn' \in Access!ConnectionRow, conn.gen <= conn'.gen,
         conn'.status = "none" => conn.status = "none" /\ conn'.gen = 0,
         leased' \in BOOLEAN, faulted' \in BOOLEAN,
         jobs' \subseteq JobRow, \A j \in jobs' : j.n <= github'.changes,
         processed' \subseteq 1..MaxMoves, \A n \in processed' : n <= github'.changes,
         job' \in [Workers -> WorkerRow],
         \A w \in Workers : \/ job'[w] = job[w]
                            \/ ReadBefore(job'[w], conn') /\ job'[w].n <= github'.changes
  PROVE  AccessRows'
<1>1. AccessTyped'
  BY Zenon DEF AccessTyped
<1>2. /\ conn.gen \in Nat /\ github.changes \in Nat
      /\ \A w \in Workers : job[w].n \in Nat /\ job[w].row.gen \in Nat
  BY AccessNumbers, Zenon
<1>3. conn'.gen \in Nat /\ github'.changes \in Nat
  BY DEF MovesBounded, Access!ConnectionRow, GithubRow
<1>4. \A w \in Workers : job[w].n <= github.changes /\ ReadBefore(job[w], conn)
  BY Zenon DEF AccessRows, Numbered, RowsRead
<1>5. \A w \in Workers : job'[w].n <= github'.changes
  <2>1. \A w \in Workers : job[w].n <= github'.changes
    <3> SUFFICES ASSUME NEW w \in Workers PROVE job[w].n <= github'.changes
      BY Zenon
    <3>1. job[w].n \in Nat /\ job[w].n <= github.changes
      BY ONLY <1>2, <1>4, w \in Workers, Zenon
    <3> QED
      BY ONLY <1>2, <1>3, <3>1, github.changes <= github'.changes
  <2> QED
    BY <2>1, Zenon
<1>6. \A w \in Workers : ReadBefore(job[w], conn')
  <2> SUFFICES ASSUME NEW w \in Workers PROVE ReadBefore(job[w], conn')
    BY Zenon
  <2>1. job[w].row.gen \in Nat /\ ReadBefore(job[w], conn)
    BY ONLY <1>2, <1>4, w \in Workers, Zenon
  <2>2. job[w].row.gen <= conn'.gen
    <3>1. job[w].row.gen <= conn.gen
      BY ONLY <2>1, Zenon DEF ReadBefore
    <3> QED
      BY ONLY <1>2, <1>3, <2>1, <3>1, conn.gen <= conn'.gen
  <2>3. conn.status # "none" => conn'.status # "none"
    BY Zenon
  <2> QED
    BY ONLY <2>1, <2>2, <2>3, Zenon DEF ReadBefore
<1>7. RowsRead'
  <2>1. \A w \in Workers : ReadBefore(job'[w], conn')
    BY <1>6, Zenon
  <2> QED
    BY <2>1, Zenon DEF RowsRead
<1>8. Numbered'
  BY <1>5, Zenon DEF Numbered
<1> QED
  BY ONLY <1>1, <1>7, <1>8, Zenon DEF AccessRows

\* The steps of the binder, of GitHub and of the admin.
LEMMA RowsBySide ==
  ASSUME MovesBounded, AccessRows,
         \/ Access!Observe \/ Access!VerifyInstallation \/ Access!bind
         \/ \E to \in {"active", "suspended", "gone"} : Access!receive(to)
         \/ Access!reconcile_connection \/ Access!disconnect \/ Access!RecordLease
  PROVE  AccessRows'
<1>1. /\ github \in GithubRow /\ moves \in 0..MaxMoves /\ github.changes <= moves
      /\ binder \in BinderRow /\ binder.row.gen <= conn.gen /\ conn \in Access!ConnectionRow
      /\ leased \in BOOLEAN /\ faulted \in BOOLEAN /\ jobs \subseteq JobRow
      /\ \A j \in jobs : j.n <= github.changes
      /\ processed \subseteq 1..MaxMoves /\ \A n \in processed : n <= github.changes
      /\ job \in [Workers -> WorkerRow] /\ (conn.status = "none" => conn.gen = 0)
  BY Zenon DEF AccessRows, AccessTyped, Numbered, RowsRead
<1>2. /\ conn.gen \in Nat /\ github.changes \in Nat /\ moves \in Nat
      /\ conn.gen <= conn.gen /\ github.changes <= github.changes
      /\ \A j \in jobs : j.n \in Nat
      /\ binder.row.gen \in Nat /\ processed \subseteq Nat
  <2>1. conn.gen \in Nat /\ github.changes \in Nat /\ moves \in Nat
        /\ (\A j \in jobs : j.n \in Nat) /\ binder.row.gen \in Nat
    BY AccessNumbers, Zenon
  <2>2. processed \subseteq Nat
    BY ONLY <1>1
  <2> QED
    BY ONLY <2>1, <2>2
<1>3. CASE Access!Observe
  <2>1. /\ binder' \in BinderRow /\ binder'.row.gen = conn.gen
        /\ moves' = moves + 1 /\ moves' \in 0..MaxMoves
        /\ UNCHANGED <<github, conn, leased, jobs, processed, job, faulted>>
    BY <1>3, ObserveDoes, Zenon
  <2>2. github'.changes <= moves'
    BY ONLY <1>1, <1>2, <2>1
  <2> QED
    BY ONLY MovesBounded, AccessRows, <1>1, <1>2, <2>1, <2>2, RowsStep, Zenon
<1>4. CASE Access!VerifyInstallation
  <2>1. /\ binder' \in BinderRow /\ binder'.row.gen <= conn.gen
        /\ UNCHANGED <<github, conn, leased, jobs, processed, job, moves, faulted>>
    BY <1>4, VerifyDoes, Zenon
  <2> QED
    BY ONLY MovesBounded, AccessRows, <1>1, <1>2, <2>1, RowsStep, Zenon
<1>5. CASE Access!bind
  <2>1. /\ binder' \in BinderRow /\ binder'.row.gen = 0 /\ conn' \in Access!ConnectionRow
        /\ \/ conn' = conn
           \/ conn'.status = "active" /\ conn.status = "none" /\ conn'.gen = 0
           \/ conn'.status = "active" /\ conn'.gen = conn.gen + 1
        /\ UNCHANGED <<github, leased, jobs, processed, job, moves, faulted>>
    BY <1>5, BindDoes, Zenon
  <2>2. conn.gen <= conn'.gen /\ binder'.row.gen <= conn'.gen
    BY ONLY <1>1, <1>2, <2>1
  <2>3. conn'.status = "none" => conn.status = "none" /\ conn'.gen = 0
    BY ONLY <1>1, <2>1
  <2> QED
    BY ONLY MovesBounded, AccessRows, <1>1, <1>2, <2>1, <2>2, <2>3, RowsStep, Zenon
<1>6. ASSUME NEW to \in {"active", "suspended", "gone"}, Access!receive(to) PROVE AccessRows'
  <2>1. PICK j \in JobRow :
           /\ jobs' = jobs \cup {j} /\ j.n = github.changes + 1
           /\ github' \in GithubRow /\ github'.changes = github.changes + 1
           /\ moves' = moves + 1 /\ moves' \in 0..MaxMoves
           /\ UNCHANGED <<binder, conn, leased, processed, job, faulted>>
    BY <1>6, ReceiveDoes, Zenon
  <2>2. github'.changes <= moves' /\ github.changes <= github'.changes
    BY ONLY <1>1, <1>2, <2>1
  <2>3. \A k \in jobs' : k.n <= github'.changes
    BY ONLY <1>1, <1>2, <2>1
  <2>4. \A n \in processed' : n <= github'.changes
    BY ONLY <1>1, <1>2, <2>1
  <2> QED
    BY ONLY MovesBounded, AccessRows, <1>1, <1>2, <2>1, <2>2, <2>3, <2>4, RowsStep, Zenon
<1>7. CASE Access!reconcile_connection
  <2>1. PICK j \in JobRow :
           /\ jobs' = jobs \cup {j} /\ j.n = 0
           /\ moves' = moves + 1 /\ moves' \in 0..MaxMoves
           /\ UNCHANGED <<github, binder, conn, leased, processed, job, faulted>>
    BY <1>7, ReconcileDoes, Zenon
  <2>2. github'.changes <= moves'
    BY ONLY <1>1, <1>2, <2>1
  <2>3. \A k \in jobs' : k.n <= github'.changes
    BY ONLY <1>1, <1>2, <2>1
  <2> QED
    BY ONLY MovesBounded, AccessRows, <1>1, <1>2, <2>1, <2>2, <2>3, RowsStep, Zenon
<1>8. CASE Access!disconnect
  <2>1. /\ conn' \in Access!ConnectionRow
        /\ conn'.status = "disconnected" /\ conn'.gen = conn.gen + 1
        /\ \E j \in JobRow : jobs' = jobs \cup {j} /\ Cleans(j)
        /\ moves' = moves + 1 /\ moves' \in 0..MaxMoves
        /\ UNCHANGED <<github, binder, leased, processed, job, faulted>>
    BY <1>8, DisconnectDoes, Zenon
  <2>2. PICK j \in JobRow : jobs' = jobs \cup {j} /\ Cleans(j)
    BY <2>1, Zenon
  <2>3. github'.changes <= moves' /\ conn.gen <= conn'.gen /\ binder'.row.gen <= conn'.gen
    BY ONLY <1>1, <1>2, <2>1
  <2>4. \A k \in jobs' : k.n <= github'.changes
    BY ONLY <1>1, <1>2, <2>1, <2>2 DEF Cleans
  <2> QED
    BY ONLY MovesBounded, AccessRows, <1>1, <1>2, <2>1, <2>2, <2>3, <2>4, RowsStep, Zenon
<1>9. CASE Access!RecordLease
  <2>1. leased' = TRUE /\ UNCHANGED <<github, binder, conn, jobs, processed, job, moves, faulted>>
    BY <1>9, Zenon DEF Access!RecordLease
  <2> QED
    BY ONLY MovesBounded, AccessRows, <1>1, <1>2, <2>1, RowsStep, Zenon
<1> QED
  BY <1>3, <1>4, <1>5, <1>6, <1>7, <1>8, <1>9, Zenon

\* The steps of a worker.
LEMMA RowsByWorker ==
  ASSUME MovesBounded, AccessRows, NEW w \in Workers,
         \/ Access!process(w) \/ Access!revoke_access(w)
         \/ Access!revoke_leases_for_connection(w) \/ Access!reconcile(w)
         \/ Access!reactivate_connection(w) \/ Access!mark_processed(w)
         \/ Access!WorkerCrash(w) \/ Access!LeaseLost(w)
  PROVE  AccessRows'
<1>1. /\ github \in GithubRow /\ moves \in 0..MaxMoves /\ github.changes <= moves
      /\ binder \in BinderRow /\ binder.row.gen <= conn.gen /\ conn \in Access!ConnectionRow
      /\ leased \in BOOLEAN /\ faulted \in BOOLEAN /\ jobs \subseteq JobRow
      /\ \A j \in jobs : j.n <= github.changes
      /\ processed \subseteq 1..MaxMoves /\ \A n \in processed : n <= github.changes
      /\ job \in [Workers -> WorkerRow] /\ (conn.status = "none" => conn.gen = 0)
      /\ job[w].n <= github.changes /\ ReadBefore(job[w], conn)
  BY Zenon DEF AccessRows, AccessTyped, Numbered, RowsRead
<1>2. /\ conn.gen \in Nat /\ github.changes \in Nat
      /\ conn.gen <= conn.gen /\ github.changes <= github.changes
      /\ binder.row.gen \in Nat /\ job[w].row.gen \in Nat
  <2>1. /\ conn.gen \in Nat /\ github.changes \in Nat /\ binder.row.gen \in Nat
        /\ \A o \in Workers : job[o].row.gen \in Nat
    BY ONLY MovesBounded, AccessRows, AccessNumbers, Zenon
  <2> QED
    BY ONLY <2>1, w \in Workers
<1>3. Access!Idle.n = 0 /\ ReadBefore(Access!Idle, conn)
  <2>1. Access!Idle.n = 0 /\ Access!Idle.step = "idle" /\ Access!Idle.row.gen = 0
    BY IdleRow, AbsentRow, Zenon
  <2>2. Access!Idle.row.gen <= conn.gen
    BY ONLY <1>2, <2>1
  <2> QED
    BY ONLY <2>1, <2>2, Zenon DEF ReadBefore
<1>4. CASE Access!process(w)
  <2>1. PICK j \in jobs :
           /\ jobs' = jobs \ {j} /\ Moved(w)
           /\ job'[w].kind = j.kind /\ job'[w].n = j.n /\ job'[w].to # "none"
           /\ job'[w].row.gen = conn.gen
           /\ conn.status = "none" => job'[w].step = "mark"
           /\ job'[w].step \in {"revoke", "ask", "leases", "mark"}
           /\ UNCHANGED <<github, binder, conn, leased, processed, moves, faulted>>
    BY <1>4, ProcessDoes
  <2>2. j.kind # "none"
    BY ONLY <1>1, <2>1, Zenon DEF JobRow, Kinds
  <2>3. ReadBefore(job'[w], conn') /\ job'[w].n <= github'.changes
    BY ONLY <1>1, <1>2, <2>1, <2>2, Zenon DEF ReadBefore
  <2>4. /\ job' \in [Workers -> WorkerRow]
        /\ \A o \in Workers : \/ job'[o] = job[o]
                              \/ ReadBefore(job'[o], conn') /\ job'[o].n <= github'.changes
    BY ONLY <2>1, <2>3, Zenon DEF Moved
  <2> QED
    BY ONLY MovesBounded, AccessRows, <1>1, <1>2, <2>1, <2>4, RowsStep, Zenon
<1>5. CASE Access!revoke_access(w)
  <2>1. /\ job[w].step = "revoke" /\ KeepsJob(w) /\ job'[w].step = "leases"
        /\ job'[w].to = job[w].to /\ conn' \in Access!ConnectionRow
        /\ \/ conn' = conn
           \/ conn'.status \in {"suspended", "deleted"} /\ conn'.gen = conn.gen + 1
        /\ UNCHANGED <<github, binder, leased, jobs, processed, moves, faulted>>
    BY <1>5, RevokeDoes, Zenon
  <2>2. conn.gen <= conn'.gen /\ binder'.row.gen <= conn'.gen /\ job[w].row.gen <= conn'.gen
    <3>1. conn'.gen \in {conn.gen, conn.gen + 1} /\ binder' = binder
      BY ONLY <2>1, Zenon
    <3>2. job[w].row.gen <= conn.gen
      BY ONLY <1>1, Zenon DEF ReadBefore
    <3>3. binder.row.gen <= conn.gen
      BY ONLY <1>1, Zenon
    <3> QED
      BY ONLY <1>2, <3>1, <3>2, <3>3
  <2>3. conn'.status = "none" => conn.status = "none" /\ conn'.gen = 0
    BY ONLY <1>1, <2>1, Zenon
  <2>4. conn'.status # "none" /\ job[w].kind # "none" /\ job[w].to # "none"
    BY ONLY <1>1, <2>1, Zenon DEF ReadBefore
  <2>5. ReadBefore(job'[w], conn') /\ job'[w].n <= github'.changes
    BY ONLY <1>1, <2>1, <2>2, <2>4, Zenon DEF ReadBefore, KeepsJob
  <2>6. /\ job' \in [Workers -> WorkerRow]
        /\ \A o \in Workers : \/ job'[o] = job[o]
                              \/ ReadBefore(job'[o], conn') /\ job'[o].n <= github'.changes
    BY ONLY <2>1, <2>5, Zenon DEF Moved, KeepsJob
  <2> QED
    BY ONLY MovesBounded, AccessRows, <1>1, <1>2, <2>1, <2>2, <2>3, <2>6, RowsStep, Zenon
<1>6. ASSUME KeepsJob(w), job[w].step \notin {"idle", "mark"}, job'[w].step # "idle",
             job'[w].to # "none",
             conn' \in Access!ConnectionRow, conn'.gen = conn.gen,
             conn' = conn \/ conn'.status = "active", leased' \in BOOLEAN,
             UNCHANGED <<github, binder, jobs, processed, moves, faulted>>
      PROVE  AccessRows'
  <2>1. conn.status # "none" /\ conn'.status # "none" /\ job[w].kind # "none"
    BY ONLY <1>1, <1>6, Zenon DEF ReadBefore
  <2>2. ReadBefore(job'[w], conn') /\ job'[w].n <= github'.changes
    BY ONLY <1>1, <1>6, <2>1, Zenon DEF ReadBefore, KeepsJob
  <2>3. /\ job' \in [Workers -> WorkerRow]
        /\ \A o \in Workers : \/ job'[o] = job[o]
                              \/ ReadBefore(job'[o], conn') /\ job'[o].n <= github'.changes
    BY ONLY <1>6, <2>2, Zenon DEF Moved, KeepsJob
  <2> QED
    BY ONLY MovesBounded, AccessRows, <1>1, <1>2, <1>6, <2>1, <2>3, RowsStep, Zenon
<1>7. job[w].step \notin {"idle", "mark"} => job[w].to # "none"
  BY ONLY <1>1, Zenon DEF ReadBefore
<1>8. CASE Access!revoke_leases_for_connection(w)
  BY <1>1, <1>6, <1>7, <1>8, LeasesDoes, Zenon
<1>9. CASE Access!reconcile(w)
  BY <1>1, <1>6, <1>9, AskDoes, Zenon
<1>10. CASE Access!reactivate_connection(w)
  BY <1>1, <1>6, <1>7, <1>10, ReactivateDoes, Zenon
<1>11. CASE Access!mark_processed(w)
  <2>1. /\ Moved(w) /\ job'[w] = Access!Idle /\ processed' \subseteq 1..MaxMoves
        /\ \A n : n \in processed' <=> n \in processed \/ (n = job[w].n /\ n # 0)
        /\ UNCHANGED <<github, binder, conn, leased, jobs, moves, faulted>>
    BY <1>11, MarkDoes, Zenon
  <2>2. \A n \in processed' : n <= github'.changes
    BY ONLY <1>1, <2>1
  <2>3. /\ job' \in [Workers -> WorkerRow]
        /\ \A o \in Workers : \/ job'[o] = job[o]
                              \/ ReadBefore(job'[o], conn') /\ job'[o].n <= github'.changes
    <3>1. ReadBefore(Access!Idle, conn') /\ Access!Idle.n <= github'.changes
      BY ONLY <1>2, <1>3, <2>1
    <3> QED
      BY ONLY <2>1, <3>1, Zenon DEF Moved
  <2> QED
    BY ONLY MovesBounded, AccessRows, <1>1, <1>2, <2>1, <2>2, <2>3, RowsStep, Zenon
<1>12. CASE Access!WorkerCrash(w) \/ Access!LeaseLost(w)
  <2>1. /\ faulted' = TRUE /\ Moved(w) /\ (job'[w] = Access!Idle \/ job'[w] = job[w])
        /\ \E j \in JobRow : jobs' = jobs \cup {j} /\ j.n = job[w].n /\ j.kind = job[w].kind
        /\ UNCHANGED <<github, binder, conn, leased, processed, moves>>
    BY <1>12, FaultDoes, Zenon
  <2>2. \A j \in jobs' : j \in JobRow /\ j.n <= github'.changes
    BY ONLY <1>1, <2>1, Zenon
  <2>3. /\ job' \in [Workers -> WorkerRow]
        /\ \A o \in Workers : \/ job'[o] = job[o]
                              \/ ReadBefore(job'[o], conn') /\ job'[o].n <= github'.changes
    <3>1. ReadBefore(Access!Idle, conn') /\ Access!Idle.n <= github'.changes
      BY ONLY <1>2, <1>3, <2>1
    <3> QED
      BY ONLY <2>1, <3>1, Zenon DEF Moved
  <2>4. jobs' \subseteq JobRow
    BY ONLY <2>2, Zenon
  <2> QED
    BY ONLY MovesBounded, AccessRows, <1>1, <1>2, <2>1, <2>2, <2>3, <2>4, RowsStep, Zenon
<1> QED
  BY <1>4, <1>5, <1>8, <1>9, <1>10, <1>11, <1>12, Zenon


--------------------------------------------------------------------------
(* An active connection is justified. *)

\* A row read no later than the next generation is stale under it.
LEMMA LaterIsStale ==
  ASSUME NEW row, NEW c, NEW d, row.gen \in Nat, c.gen \in Nat, row.gen <= c.gen,
         d.gen = c.gen + 1
  PROVE  Stale(row, d)
BY DEF Stale

\* A delivery stays due until a worker revokes.
LEMMA DueStays ==
  ASSUME NEW n, Due(n), n \notin processed',
         \A j \in jobs' : j.n = n => j \in jobs \/ j.kind \in Access!Removal,
         \A w \in Workers : job'[w].n = n =>
            \/ job'[w] = job[w]
            \/ job'[w].kind \in Access!Removal /\ job'[w].step = "revoke",
         \/ \E j \in jobs' : j.n = n
         \/ \E w \in Workers : job'[w].n = n
  PROVE  Due(n)'
<1>1. \A j \in jobs' : j.n = n => j.kind \in Access!Removal
  BY Zenon DEF Due
<1>2. \A w \in Workers : job'[w].n = n => /\ job'[w].kind \in Access!Removal
                                          /\ job'[w].step = "revoke"
  BY Zenon DEF Due
<1> QED
  BY <1>1, <1>2, Zenon DEF Due

\* The steps of the binder, of GitHub and of the admin.
LEMMA JustifiedBySide ==
  ASSUME MovesBounded, AccessRows, Justified,
         \/ Access!Observe \/ Access!VerifyInstallation \/ Access!bind
         \/ \E to \in {"active", "suspended", "gone"} : Access!receive(to)
         \/ Access!reconcile_connection \/ Access!disconnect \/ Access!RecordLease
  PROVE  Justified'
<1>1. SUFFICES ASSUME github'.state # "active"
               PROVE  Applied' \/ \E n \in 0..MaxMoves : Due(n)'
  BY Zenon DEF Justified
<1>2. /\ conn.gen \in Nat /\ binder.row.gen \in Nat /\ binder.row.gen <= conn.gen
      /\ \A w \in Workers : job[w].row.gen \in Nat /\ job[w].row.gen <= conn.gen
      /\ \A w \in Workers : job[w].step = "reactivate" => conn.status # "none"
  <2>1. /\ conn.gen \in Nat /\ binder.row.gen \in Nat
        /\ \A w \in Workers : job[w].row.gen \in Nat
    BY AccessNumbers, Zenon
  <2>2. binder.row.gen <= conn.gen /\ \A w \in Workers : ReadBefore(job[w], conn)
    BY Zenon DEF AccessRows, RowsRead
  <2> QED
    BY ONLY <2>1, <2>2, Zenon DEF ReadBefore
<1>3. ASSUME github' = github, UNCHANGED <<processed, job>>, jobs \subseteq jobs',
             \A j \in jobs' : j \in jobs \/ j.n = 0,
             Applied => Applied'
      PROVE  Applied' \/ \E n \in 0..MaxMoves : Due(n)'
  <2>1. ASSUME NEW n \in 0..MaxMoves, Due(n) PROVE Due(n)'
    <3>1. n # 0 /\ n \notin processed
      BY ONLY <2>1, Zenon DEF Due
    <3>2. \A j \in jobs' : j.n = n => j \in jobs \/ j.kind \in Access!Removal
      BY <1>3, <3>1, Zenon
    <3>3. (\E j \in jobs' : j.n = n) \/ \E w \in Workers : job'[w].n = n
      BY <1>3, <2>1, Zenon DEF Due
    <3> QED
      BY <1>3, <2>1, <3>1, <3>2, <3>3, DueStays, Zenon
  <2> QED
    BY <1>1, <1>3, <2>1, Zenon DEF Justified
<1>4. CASE Access!Observe
  <2>1. /\ binder'.step = "observed"
        /\ UNCHANGED <<github, conn, leased, jobs, processed, job, faulted>>
    BY <1>4, ObserveDoes, Zenon
  <2>2. Applied => Applied'
    BY ONLY <2>1, Zenon DEF Applied
  <2> QED
    BY <1>3, <2>1, <2>2, Zenon
<1>5. CASE Access!VerifyInstallation
  <2>1. /\ binder'.step = "verified" => github.state = "active"
        /\ UNCHANGED <<github, conn, leased, jobs, processed, job, moves, faulted>>
    BY <1>5, VerifyDoes, Zenon
  <2>2. Applied => Applied'
    BY ONLY <1>1, <2>1, Zenon DEF Applied
  <2> QED
    BY <1>3, <2>1, <2>2, Zenon
<1>6. CASE Access!bind
  <2>1. /\ binder.step = "verified" /\ binder'.step = "idle"
        /\ \/ conn' = conn
           \/ /\ conn'.status = "active" /\ conn.status = "none" /\ conn'.gen = 0
              /\ conn'.unfenced
           \/ /\ conn'.status = "active" /\ conn'.gen = conn.gen + 1 /\ binder.row.gen = conn.gen
              /\ conn.status # "none"
              /\ conn.status \notin Access!Revocable => conn'.unfenced
        /\ UNCHANGED <<github, leased, jobs, processed, job, moves, faulted>>
    BY <1>6, BindDoes, Zenon
  <2>2. ASSUME Applied PROVE Applied'
    <3>1. CASE conn' = conn
      BY ONLY <2>1, <2>2, <3>1, Zenon DEF Applied
    <3>2. CASE conn'.status = "active" /\ conn.status = "none" /\ conn'.unfenced
      BY ONLY <1>2, <2>1, <3>2, Zenon DEF Applied
    <3>3. CASE /\ conn'.status = "active" /\ conn'.gen = conn.gen + 1 /\ binder.row.gen = conn.gen
               /\ conn.status \notin Access!Revocable => conn'.unfenced
      <4>1. \A w \in Workers : Stale(job[w].row, conn')
        BY <1>2, <3>3, LaterIsStale, Zenon
      <4>2. Stale(binder.row, conn)
        BY ONLY <2>1, <2>2, Zenon DEF Applied
      <4>3. conn'.unfenced
        BY ONLY <1>2, <3>3, <4>2 DEF Stale
      <4> QED
        BY ONLY <2>1, <4>1, <4>3, Zenon DEF Applied
    <3> QED
      BY ONLY <2>1, <3>1, <3>2, <3>3, Zenon
  <2> QED
    BY <1>3, <2>1, <2>2, Zenon
<1>7. ASSUME NEW to \in {"active", "suspended", "gone"}, Access!receive(to)
      PROVE  Applied' \/ \E n \in 0..MaxMoves : Due(n)'
  <2>1. PICK j \in JobRow :
           /\ jobs' = jobs \cup {j} /\ j.n = github.changes + 1
           /\ github'.state # "active" => j.kind \in Access!Removal
           /\ UNCHANGED <<binder, conn, leased, processed, job, faulted>>
    BY <1>7, ReceiveDoes, Zenon
  <2>2. /\ \A k \in jobs : k.n <= github.changes
        /\ \A w \in Workers : job[w].n <= github.changes
        /\ \A n \in processed : n <= github.changes
    BY Zenon DEF AccessRows, Numbered
  <2>3. github.changes \in Nat /\ j.n \in 0..MaxMoves
    BY AccessNumbers, Zenon DEF JobRow
  <2>4. /\ j.n # 0 /\ j.n \notin processed
        /\ \A k \in jobs : k.n # j.n
        /\ \A w \in Workers : job[w].n # j.n
    BY ONLY <2>1, <2>2, <2>3
  <2>5. Due(j.n)'
    BY ONLY <1>1, <2>1, <2>4, Zenon DEF Due
  <2> QED
    BY <2>3, <2>5, Zenon
<1>8. CASE Access!reconcile_connection
  <2>1. PICK j \in JobRow :
           /\ jobs' = jobs \cup {j} /\ j.n = 0
           /\ UNCHANGED <<github, binder, conn, leased, processed, job, faulted>>
    BY <1>8, ReconcileDoes, Zenon
  <2>2. Applied => Applied'
    BY ONLY <2>1, Zenon DEF Applied
  <2> QED
    BY <1>3, <2>1, <2>2, Zenon
<1>9. CASE Access!disconnect
  <2>1. /\ conn'.status = "disconnected" /\ conn'.gen = conn.gen + 1
        /\ \E j \in JobRow : jobs' = jobs \cup {j} /\ Cleans(j)
        /\ UNCHANGED <<github, binder, leased, processed, job, faulted>>
    BY <1>9, DisconnectDoes, Zenon
  <2>2. PICK j \in JobRow : jobs' = jobs \cup {j} /\ Cleans(j)
    BY <2>1, Zenon
  <2>3. Stale(binder.row, conn') /\ \A w \in Workers : Stale(job[w].row, conn')
    BY ONLY <2>1, Zenon DEF Stale, Access!Revocable
  <2>4. Applied'
    BY ONLY <2>1, <2>3, Zenon DEF Applied
  <2> QED
    BY <2>4, Zenon
<1>10. CASE Access!RecordLease
  <2>1. UNCHANGED <<github, binder, conn, jobs, processed, job, moves, faulted>>
    BY <1>10, Zenon DEF Access!RecordLease
  <2>2. Applied => Applied'
    BY ONLY <2>1, Zenon DEF Applied
  <2> QED
    BY <1>3, <2>1, <2>2, Zenon
<1> QED
  BY <1>4, <1>5, <1>6, <1>7, <1>8, <1>9, <1>10, Zenon

\* The steps of a worker.  A revocation applies whatever was due.
LEMMA JustifiedByWorker ==
  ASSUME MovesBounded, AccessRows, Justified, NEW w \in Workers,
         \/ Access!process(w) \/ Access!revoke_access(w)
         \/ Access!revoke_leases_for_connection(w) \/ Access!reconcile(w)
         \/ Access!reactivate_connection(w) \/ Access!mark_processed(w)
         \/ Access!WorkerCrash(w) \/ Access!LeaseLost(w)
  PROVE  Justified'
<1>1. SUFFICES ASSUME github'.state # "active"
               PROVE  Applied' \/ \E n \in 0..MaxMoves : Due(n)'
  BY Zenon DEF Justified
<1>2. /\ conn.gen \in Nat /\ binder.row.gen \in Nat /\ binder.row.gen <= conn.gen
      /\ \A o \in Workers : job[o].row.gen \in Nat /\ job[o].row.gen <= conn.gen
      /\ \A o \in Workers : job[o].step = "reactivate" => conn.status # "none"
  <2>1. /\ conn.gen \in Nat /\ binder.row.gen \in Nat
        /\ \A o \in Workers : job[o].row.gen \in Nat
    BY AccessNumbers, Zenon
  <2>2. binder.row.gen <= conn.gen /\ \A o \in Workers : ReadBefore(job[o], conn)
    BY Zenon DEF AccessRows, RowsRead
  <2> QED
    BY ONLY <2>1, <2>2, Zenon DEF ReadBefore
<1>3. ASSUME github' = github, Moved(w), binder' = binder,
             job'[w].step # "reactivate",
             conn' = conn,
             \A n \in 0..MaxMoves : Due(n) => Due(n)' \/ conn.status = "none"
      PROVE  Applied' \/ \E n \in 0..MaxMoves : Due(n)'
  <2>1. \A o \in Workers : job'[o].step = "reactivate" => job'[o] = job[o]
    BY ONLY <1>3, Zenon DEF Moved
  <2>2. ASSUME Applied PROVE Applied'
    BY ONLY <1>3, <2>1, <2>2, Zenon DEF Applied
  <2>3. ASSUME conn.status = "none" PROVE Applied'
    <3>1. \A row : Stale(row, conn)
      BY ONLY <2>3, Zenon DEF Stale, Access!Revocable
    <3>2. conn'.status # "active" /\ \A row : Stale(row, conn')
      BY ONLY <1>3, <2>3, <3>1, Zenon
    <3> QED
      BY ONLY <3>2, Zenon DEF Applied
  <2> QED
    BY <1>1, <1>3, <2>2, <2>3, Zenon DEF Justified
<1>4. ASSUME KeepsJob(w), job[w].step # "revoke", jobs' = jobs, processed' = processed,
             NEW n, Due(n)
      PROVE  Due(n)'
  <2>1. n # 0 /\ n \notin processed /\ job[w].n # n
    BY ONLY <1>4, w \in Workers, Zenon DEF Due
  <2>2. \A o \in Workers : job'[o].n = n => job'[o] = job[o]
    BY ONLY <1>4, <2>1, Zenon DEF KeepsJob, Moved
  <2>3. (\E j \in jobs' : j.n = n) \/ \E o \in Workers : job'[o].n = n
    BY ONLY <1>4, <2>1, Zenon DEF Due, KeepsJob, Moved
  <2> QED
    BY ONLY <1>4, <2>1, <2>2, <2>3, DueStays, Zenon
<1>5. CASE Access!process(w)
  <2>1. PICK j \in jobs :
           /\ jobs' = jobs \ {j} /\ Moved(w) /\ job[w].step = "idle"
           /\ job'[w].kind = j.kind /\ job'[w].n = j.n
           /\ j.n \notin processed /\ conn.status # "none" =>
                /\ job'[w].step \in {"revoke", "ask", "leases"}
                /\ j.kind \in Access!Removal => job'[w].step = "revoke"
                /\ j.kind = "cleanup" => job'[w].step = "leases"
           /\ job'[w].step \in {"revoke", "ask", "leases", "mark"}
           /\ UNCHANGED <<github, binder, conn, leased, processed, moves, faulted>>
    BY ONLY MovesBounded, AccessRows, w \in Workers, <1>5, ProcessDoes
  <2>2. job[w].n = 0
    BY <2>1, IdleRow, Zenon DEF AccessRows, RowsRead, ReadBefore
  <2>3. ASSUME NEW n, Due(n), conn.status # "none" PROVE Due(n)'
    <3>1. n # 0 /\ n \notin processed
      BY ONLY <2>3, Zenon DEF Due
    <3>2. j.n = n => j.kind \in Access!Removal
      BY ONLY <2>3, j \in jobs, Zenon DEF Due
    <3>3. \A o \in Workers : job'[o].n = n =>
            \/ job'[o] = job[o]
            \/ job'[o].kind \in Access!Removal /\ job'[o].step = "revoke"
      BY ONLY <2>1, <2>3, <3>1, <3>2, Zenon DEF Moved
    <3>4. (\E k \in jobs' : k.n = n) \/ \E o \in Workers : job'[o].n = n
      BY ONLY <2>1, <2>2, <2>3, <3>1, w \in Workers DEF Due, Moved
    <3>5. n \notin processed' /\ \A k \in jobs' : k.n = n => k \in jobs
      BY ONLY <2>1, <3>1, Zenon
    <3> QED
      BY ONLY <2>3, <3>3, <3>4, <3>5, DueStays, Zenon
  <2> QED
    BY <1>3, <2>1, <2>3, Zenon
<1>6. CASE Access!revoke_access(w)
  <2>1. /\ job[w].step = "revoke" /\ KeepsJob(w) /\ job'[w].step = "leases"
        /\ \/ conn.status \notin Access!Revocable /\ conn' = conn
           \/ conn'.status \in {"suspended", "deleted"} /\ conn'.gen = conn.gen + 1
        /\ UNCHANGED <<github, binder, leased, jobs, processed, moves, faulted>>
    BY <1>6, RevokeDoes, Zenon
  <2>2. conn'.status # "active"
    BY ONLY <2>1, Zenon DEF Access!Revocable
  <2>3. Stale(binder.row, conn')
    <3>1. CASE conn.status \notin Access!Revocable /\ conn' = conn
      BY ONLY <3>1, Zenon DEF Stale
    <3>2. CASE conn'.gen = conn.gen + 1
      BY <1>2, <3>2, LaterIsStale, Zenon
    <3> QED
      BY ONLY <2>1, <3>1, <3>2, Zenon
  <2>4. \A o \in Workers : Stale(job[o].row, conn')
    <3>1. CASE conn.status \notin Access!Revocable /\ conn' = conn
      BY ONLY <3>1, Zenon DEF Stale
    <3>2. CASE conn'.gen = conn.gen + 1
      BY <1>2, <3>2, LaterIsStale, Zenon
    <3> QED
      BY ONLY <2>1, <3>1, <3>2, Zenon
  <2>5. Applied'
    BY ONLY <2>1, <2>2, <2>3, <2>4, Zenon DEF Applied, KeepsJob, Moved
  <2> QED
    BY <2>5, Zenon
<1>7. CASE Access!revoke_leases_for_connection(w)
  <2>1. /\ job[w].step = "leases" /\ KeepsJob(w) /\ job'[w].step \in {"mark", "ask"}
        /\ UNCHANGED <<github, binder, conn, jobs, processed, moves, faulted>>
    BY <1>7, LeasesDoes, Zenon
  <2>2. Moved(w)
    BY <2>1, Zenon DEF KeepsJob
  <2> QED
    BY <1>3, <1>4, <2>1, <2>2, Zenon
<1>8. CASE Access!reconcile(w)
  <2>1. /\ job[w].step = "ask" /\ KeepsJob(w)
        /\ job'[w].step = "reactivate" => github.state = "active"
        /\ UNCHANGED <<github, binder, conn, leased, jobs, processed, moves, faulted>>
    BY <1>8, AskDoes, Zenon
  <2>2. Moved(w) /\ job'[w].step # "reactivate"
    BY <1>1, <2>1, Zenon DEF KeepsJob
  <2> QED
    BY <1>3, <1>4, <2>1, <2>2, Zenon
<1>9. CASE Access!reactivate_connection(w)
  <2>1. /\ job[w].step = "reactivate" /\ KeepsJob(w) /\ job'[w].step = "mark"
        /\ conn'.gen = conn.gen
        /\ \/ conn' = conn
           \/ conn.status = "suspended" /\ conn.gen = job[w].row.gen
        /\ UNCHANGED <<github, binder, leased, jobs, processed, moves, faulted>>
    BY <1>9, ReactivateDoes, Zenon
  <2>2. Moved(w)
    BY <2>1, Zenon DEF KeepsJob
  <2>3. CASE Applied
    <3>1. Stale(job[w].row, conn)
      BY ONLY <2>1, <2>3, w \in Workers, Zenon DEF Applied
    <3>2. conn' = conn
      BY ONLY <1>2, <2>1, <3>1, w \in Workers DEF Stale, Access!Revocable
    <3>3. \A o \in Workers : job'[o].step = "reactivate" => job'[o] = job[o]
      BY ONLY <2>1, <2>2, Zenon DEF Moved
    <3>4. Applied'
      BY ONLY <2>1, <2>3, <3>2, <3>3 DEF Applied
    <3> QED
      BY <3>4
  <2>4. CASE \E n \in 0..MaxMoves : Due(n)
    BY <1>4, <2>1, <2>4, Zenon
  <2> QED
    BY <1>1, <2>1, <2>3, <2>4, Zenon DEF Justified
<1>10. CASE Access!mark_processed(w)
  <2>1. /\ job[w].step = "mark" /\ Moved(w) /\ job'[w] = Access!Idle
        /\ \A n : n \in processed' <=> n \in processed \/ (n = job[w].n /\ n # 0)
        /\ UNCHANGED <<github, binder, conn, leased, jobs, moves, faulted>>
    BY <1>10, MarkDoes, Zenon
  <2>2. Access!Idle.n = 0 /\ Access!Idle.step = "idle"
    BY IdleRow, Zenon
  <2>3. ASSUME NEW n, Due(n) PROVE Due(n)'
    <3>1. n # 0 /\ n \notin processed /\ job[w].n # n
      BY ONLY <2>1, <2>3, w \in Workers, Zenon DEF Due
    <3>2. n \notin processed'
      BY ONLY <2>1, <3>1, Zenon
    <3>3. \A o \in Workers : job'[o].n = n => job'[o] = job[o]
      BY ONLY <2>1, <2>2, <3>1, Zenon DEF Moved
    <3>4. (\E j \in jobs' : j.n = n) \/ \E o \in Workers : job'[o].n = n
      BY ONLY <2>1, <2>3, <3>1, Zenon DEF Due, Moved
    <3>5. \A j \in jobs' : j \in jobs
      BY ONLY <2>1, Zenon
    <3> QED
      BY ONLY <2>3, <3>2, <3>3, <3>4, <3>5, DueStays, Zenon
  <2> QED
    BY <1>3, <2>1, <2>2, <2>3, Zenon
<1>11. CASE Access!WorkerCrash(w) \/ Access!LeaseLost(w)
  <2>1. /\ Moved(w) /\ (job'[w] = Access!Idle \/ job'[w] = job[w])
        /\ \E j \in JobRow : jobs' = jobs \cup {j} /\ j.n = job[w].n /\ j.kind = job[w].kind
        /\ UNCHANGED <<github, binder, conn, leased, processed, moves>>
    BY <1>11, FaultDoes, Zenon
  <2>2. PICK j \in JobRow : jobs' = jobs \cup {j} /\ j.n = job[w].n /\ j.kind = job[w].kind
    BY ONLY <2>1, Zenon
  <2>3. Access!Idle.n = 0 /\ Access!Idle.step = "idle"
    BY IdleRow, Zenon
  <2>4. ASSUME NEW n, Due(n) PROVE Due(n)'
    <3>1. n # 0 /\ n \notin processed'
      BY ONLY <2>1, <2>4, Zenon DEF Due
    <3>2. \A k \in jobs' : k.n = n => k \in jobs \/ k.kind \in Access!Removal
      BY ONLY <2>2, <2>4, w \in Workers, Zenon DEF Due
    <3>3. \A o \in Workers : job'[o].n = n => job'[o] = job[o]
      BY ONLY <2>1, <2>3, <3>1, Zenon DEF Moved
    <3>4. (\E k \in jobs' : k.n = n) \/ \E o \in Workers : job'[o].n = n
      BY ONLY <2>1, <2>2, <2>4, Zenon DEF Due, Moved
    <3> QED
      BY ONLY <2>4, <3>1, <3>2, <3>3, <3>4, DueStays, Zenon
  <2>5. \A o \in Workers : job'[o].step = "reactivate" => job'[o] = job[o]
    BY ONLY <2>1, <2>3, Zenon DEF Moved
  <2>6. Applied => Applied'
    BY ONLY <2>1, <2>5, Zenon DEF Applied
  <2> QED
    BY <1>1, <2>1, <2>4, <2>6, Zenon DEF Justified
<1> QED
  BY <1>5, <1>6, <1>7, <1>8, <1>9, <1>10, <1>11, Zenon


--------------------------------------------------------------------------
(* A delivery is in one place until a worker fails. *)

\* Until a worker fails, no step puts a delivery in two places.
LEMMA PlacesStep ==
  ASSUME MovesBounded, AccessRows, InOnePlace, Access!Next, ~faulted'
  PROVE  InOnePlace'
<1>1. /\ \A j, k \in jobs : j.n = k.n /\ j.n # 0 => j = k
      /\ \A j \in jobs, w \in Workers : j.n = job[w].n => j.n = 0
      /\ \A v, w \in Workers : job[v].n = job[w].n /\ job[v].n # 0 => v = w
      /\ \A j \in jobs : j.n \notin processed
      /\ \A w \in Workers : job[w].n \notin processed
  BY Zenon DEF InOnePlace
<1>a. \A j, k \in jobs : j.n = k.n /\ j.n # 0 => j = k
  BY ONLY <1>1, Zenon
<1>b. \A j \in jobs, w \in Workers : j.n = job[w].n => j.n = 0
  BY ONLY <1>1, Zenon
<1>c. \A v, w \in Workers : job[v].n = job[w].n /\ job[v].n # 0 => v = w
  BY ONLY <1>1, Zenon
<1>d. \A j \in jobs : j.n \notin processed
  BY ONLY <1>1, Zenon
<1>e. \A w \in Workers : job[w].n \notin processed
  BY ONLY <1>1, Zenon
<1>2. /\ 0 \notin processed
      /\ github.changes \in Nat
      /\ \A j \in jobs : j.n <= github.changes
      /\ \A w \in Workers : job[w].n <= github.changes
      /\ \A n \in processed : n <= github.changes
  <2>1. processed \subseteq 1..MaxMoves
    BY Zenon DEF AccessRows, AccessTyped
  <2>2. 0 \notin processed
    BY ONLY <2>1
  <2> QED
    BY <2>2, AccessNumbers, Zenon DEF AccessRows, Numbered
<1>3. ASSUME UNCHANGED <<jobs, processed>>, \A w \in Workers : job'[w].n = job[w].n
      PROVE  InOnePlace'
  BY ONLY <1>1, <1>3 DEF InOnePlace
<1>4. ASSUME NEW j, jobs' = jobs \cup {j}, UNCHANGED <<processed, job>>, j.n \notin processed,
             \A k \in jobs : k.n = j.n => j.n = 0,
             \A w \in Workers : job[w].n = j.n => j.n = 0
      PROVE  InOnePlace'
  <2>1. \A h, k \in jobs' : h.n = k.n /\ h.n # 0 => h = k
    BY ONLY <1>1, <1>4, Zenon
  <2>2. \A h \in jobs', w \in Workers : h.n = job'[w].n => h.n = 0
    BY ONLY <1>1, <1>4, Zenon
  <2>3. \A h \in jobs' : h.n \notin processed'
    BY ONLY <1>1, <1>4, Zenon
  <2>4. /\ \A v, w \in Workers : job'[v].n = job'[w].n /\ job'[v].n # 0 => v = w
        /\ \A w \in Workers : job'[w].n \notin processed'
    BY ONLY <1>1, <1>4, Zenon
  <2> QED
    BY ONLY <2>1, <2>2, <2>3, <2>4, Zenon DEF InOnePlace
<1>5. ASSUME \/ Access!Observe \/ Access!VerifyInstallation \/ Access!bind \/ Access!RecordLease
      PROVE  InOnePlace'
  <2>1. UNCHANGED <<jobs, processed, job>>
    BY <1>5, Zenon
       DEF Access!Observe, Access!VerifyInstallation, Access!bind, Access!RecordLease
  <2> QED
    BY <1>3, <2>1, Zenon
<1>6. ASSUME NEW to \in {"active", "suspended", "gone"}, Access!receive(to) PROVE InOnePlace'
  <2>1. PICK j \in JobRow : /\ jobs' = jobs \cup {j} /\ j.n = github.changes + 1
                            /\ UNCHANGED <<processed, job>>
    BY <1>6, ReceiveDoes, Zenon
  <2>2. /\ j.n \notin processed
        /\ \A k \in jobs : k.n # j.n
        /\ \A w \in Workers : job[w].n # j.n
    BY ONLY <1>2, <2>1
  <2> QED
    BY ONLY <1>4, <2>1, <2>2, Zenon
<1>7. CASE Access!reconcile_connection
  <2>1. PICK j \in JobRow : jobs' = jobs \cup {j} /\ j.n = 0 /\ UNCHANGED <<processed, job>>
    BY <1>7, ReconcileDoes, Zenon
  <2> QED
    BY ONLY <1>2, <1>4, <2>1, Zenon
<1>8. CASE Access!disconnect
  <2>1. /\ \E j \in JobRow : jobs' = jobs \cup {j} /\ Cleans(j)
        /\ UNCHANGED <<processed, job>>
    BY <1>8, DisconnectDoes, Zenon
  <2>2. PICK j \in JobRow : jobs' = jobs \cup {j} /\ j.n = 0
    BY ONLY <2>1, Zenon DEF Cleans
  <2> QED
    BY ONLY <1>2, <1>4, <2>1, <2>2, Zenon
<1>9. ASSUME NEW w \in Workers, KeepsJob(w), UNCHANGED <<jobs, processed>> PROVE InOnePlace'
  <2>1. \A o \in Workers : job'[o].n = job[o].n
    BY ONLY <1>9, Zenon DEF KeepsJob, Moved
  <2> QED
    BY ONLY <1>3, <1>9, <2>1, Zenon
<1>10. ASSUME NEW w \in Workers, Access!process(w) PROVE InOnePlace'
  <2>1. PICK j \in jobs :
           /\ jobs' = jobs \ {j} /\ Moved(w) /\ job'[w].n = j.n /\ UNCHANGED processed
    BY <1>10, ProcessDoes
  <2>2. \A o \in Workers : job'[o].n = IF o = w THEN j.n ELSE job[o].n
    BY ONLY <2>1, Zenon DEF Moved
  <2>3. \A h, k \in jobs' : h.n = k.n /\ h.n # 0 => h = k
    BY ONLY <1>a, <2>1, Zenon
  <2>4. \A h \in jobs' : h.n \notin processed'
    BY ONLY <1>d, <2>1, Zenon
  <2>5. \A h \in jobs', o \in Workers : h.n = job'[o].n => h.n = 0
    BY ONLY <1>a, <1>b, <2>1, <2>2, Zenon
  <2>6. \A v, o \in Workers : job'[v].n = job'[o].n /\ job'[v].n # 0 => v = o
    BY ONLY <1>b, <1>c, <2>1, <2>2
  <2>7. \A o \in Workers : job'[o].n \notin processed'
    BY ONLY <1>d, <1>e, <2>1, <2>2, Zenon
  <2> QED
    BY ONLY <2>3, <2>4, <2>5, <2>6, <2>7, Zenon DEF InOnePlace
<1>11. ASSUME NEW w \in Workers, Access!mark_processed(w) PROVE InOnePlace'
  <2>1. /\ Moved(w) /\ job'[w] = Access!Idle
        /\ \A n : n \in processed' <=> n \in processed \/ (n = job[w].n /\ n # 0)
        /\ UNCHANGED jobs
    BY <1>11, MarkDoes, Zenon
  <2>2. \A o \in Workers : job'[o].n = IF o = w THEN 0 ELSE job[o].n
    <3>1. Access!Idle.n = 0
      BY IdleRow, Zenon
    <3> QED
      BY ONLY <2>1, <3>1, Zenon DEF Moved
  <2>3. \A n : n \in processed' <=> n \in processed \/ (n = job[w].n /\ n # 0)
    BY ONLY <2>1, Zenon
  <2>4. jobs' = jobs
    BY ONLY <2>1, Zenon
  <2>5. \A h \in jobs', o \in Workers : h.n = job'[o].n => h.n = 0
    BY ONLY <1>b, <2>2, <2>4, Zenon
  <2>6. \A v, o \in Workers : job'[v].n = job'[o].n /\ job'[v].n # 0 => v = o
    BY ONLY <1>c, <2>2, Zenon
  <2>7. \A o \in Workers : job'[o].n \notin processed'
    BY ONLY <1>2, <1>c, <1>e, <2>2, <2>3, w \in Workers, Zenon
  <2>8. \A h, k \in jobs' : h.n = k.n /\ h.n # 0 => h = k
    BY ONLY <1>a, <2>4, Zenon
  <2>9. \A h \in jobs' : h.n \notin processed'
    BY ONLY <1>b, <1>d, <2>3, <2>4, w \in Workers
  <2> QED
    BY ONLY <2>5, <2>6, <2>7, <2>8, <2>9, Zenon DEF InOnePlace
<1>12. ASSUME NEW w \in Workers, Access!revoke_access(w) PROVE InOnePlace'
  BY <1>9, <1>12, RevokeDoes, Zenon
<1>13. ASSUME NEW w \in Workers, Access!revoke_leases_for_connection(w) PROVE InOnePlace'
  BY <1>9, <1>13, LeasesDoes, Zenon
<1>14. ASSUME NEW w \in Workers, Access!reconcile(w) PROVE InOnePlace'
  BY <1>9, <1>14, AskDoes, Zenon
<1>15. ASSUME NEW w \in Workers, Access!reactivate_connection(w) PROVE InOnePlace'
  BY <1>9, <1>15, ReactivateDoes, Zenon
<1>16. ASSUME NEW w \in Workers, Access!WorkerCrash(w) \/ Access!LeaseLost(w) PROVE InOnePlace'
  BY <1>16, Zenon DEF Access!WorkerCrash, Access!LeaseLost
<1> QED
  BY <1>5, <1>6, <1>7, <1>8, <1>10, <1>11, <1>12, <1>13, <1>14, <1>15, <1>16 DEF Access!Next

--------------------------------------------------------------------------
(* A revocation goes on to the leases. *)

\* The two clauses of Discarding.
CleanupPending == \/ \E j \in jobs : Cleans(j)
                  \/ \E w \in Workers : Cleans(job[w]) /\ job[w].step = "leases"
RevokePending == \/ \E w \in Workers : Pursues(job[w], conn)
                 \/ \E j \in jobs : Sole(j)

\* The job stays the only one with its number.
LEMMA SoleStays ==
  ASSUME NEW j \in jobs', Sole(j), j.n \notin processed',
         \A w \in Workers : job'[w].n = job[w].n \/ job'[w].n # j.n \/ j.n = 0,
         \A k \in jobs' : k \in jobs \/ k.n # j.n \/ j.n = 0
  PROVE  Sole(j)'
BY Zenon DEF Sole

\* The steps of the binder, of GitHub and of the admin.
LEMMA DiscardingBySide ==
  ASSUME MovesBounded, AccessRows, Discarding,
         \/ Access!Observe \/ Access!VerifyInstallation \/ Access!bind
         \/ \E to \in {"active", "suspended", "gone"} : Access!receive(to)
         \/ Access!reconcile_connection \/ Access!disconnect \/ Access!RecordLease
  PROVE  Discarding'
<1>1. /\ github.changes \in Nat
      /\ \A j \in jobs : j.n <= github.changes /\ j.n \in Nat
  BY AccessNumbers, Zenon DEF AccessRows, Numbered
<1>2. ASSUME NEW new, jobs \subseteq jobs', \A k \in jobs' : k \in jobs \/ k.n = new,
             \A j \in jobs : j.n # new \/ j.n = 0,
             UNCHANGED <<conn, leased, processed, job>>
      PROVE  Discarding'
  <2>1. CleanupPending => CleanupPending'
    BY ONLY <1>2, Zenon DEF CleanupPending
  <2>2. RevokePending => RevokePending'
    <3>1. ASSUME NEW w \in Workers, Pursues(job[w], conn) PROVE Pursues(job'[w], conn')
      BY ONLY <1>2, <3>1, Zenon
    <3>2. ASSUME NEW j \in jobs, Sole(j) PROVE j \in jobs' /\ Sole(j)'
      <4>1. j \in jobs' /\ j.n \notin processed'
        BY ONLY <1>2, <3>2, Zenon DEF Sole
      <4>2. \A k \in jobs' : k \in jobs \/ k.n # j.n \/ j.n = 0
        BY ONLY <1>2, <3>2, Zenon
      <4>3. \A w \in Workers : job'[w].n = job[w].n
        BY ONLY <1>2, Zenon
      <4> QED
        BY ONLY <3>2, <4>1, <4>2, <4>3, SoleStays, Zenon
    <3> QED
      BY ONLY <3>1, <3>2, Zenon DEF RevokePending
  <2> QED
    BY <1>2, <2>1, <2>2, Zenon DEF Discarding, CleanupPending, RevokePending
<1>3. CASE Access!Observe \/ Access!VerifyInstallation
  <2>1. UNCHANGED <<conn, leased, jobs, processed, job>>
    BY <1>3, Zenon DEF Access!Observe, Access!VerifyInstallation
  <2> QED
    BY <1>2, <2>1, Zenon
<1>4. CASE Access!bind
  <2>1. /\ conn' = conn \/ conn'.status = "active"
        /\ UNCHANGED <<leased, jobs, processed, job>>
    BY <1>4, BindDoes, Zenon
  <2>2. CASE conn' = conn
    BY <1>2, <2>1, <2>2, Zenon
  <2>3. CASE conn'.status = "active"
    BY ONLY <2>3, Zenon DEF Discarding
  <2> QED
    BY ONLY <2>1, <2>2, <2>3, Zenon
<1>5. ASSUME NEW to \in {"active", "suspended", "gone"}, Access!receive(to) PROVE Discarding'
  <2>1. PICK j \in JobRow : /\ jobs' = jobs \cup {j} /\ j.n = github.changes + 1
                            /\ UNCHANGED <<conn, leased, processed, job>>
    BY <1>5, ReceiveDoes, Zenon
  <2>2. \A k \in jobs : k.n # j.n
    BY ONLY <1>1, <2>1
  <2>3. jobs \subseteq jobs' /\ \A k \in jobs' : k \in jobs \/ k.n = j.n
    BY ONLY <2>1, Zenon
  <2> QED
    BY ONLY <1>2, <2>1, <2>2, <2>3, Zenon
<1>6. CASE Access!reconcile_connection
  <2>1. PICK j \in JobRow : /\ jobs' = jobs \cup {j} /\ j.n = 0
                            /\ UNCHANGED <<conn, leased, processed, job>>
    BY <1>6, ReconcileDoes, Zenon
  <2>2. jobs \subseteq jobs' /\ \A k \in jobs' : k \in jobs \/ k.n = 0
    BY ONLY <2>1, Zenon
  <2>3. \A k \in jobs : k.n # 0 \/ k.n = 0
    BY Zenon
  <2> QED
    BY ONLY <1>2, <2>1, <2>2, <2>3, Zenon
<1>7. CASE Access!disconnect
  <2>1. /\ conn'.status = "disconnected"
        /\ \E j \in JobRow : jobs' = jobs \cup {j} /\ Cleans(j)
    BY <1>7, DisconnectDoes, Zenon
  <2> QED
    BY ONLY <2>1, Zenon DEF Discarding
<1>8. CASE Access!RecordLease
  <2>1. conn.status = "active" /\ conn' = conn
    BY <1>8, Zenon DEF Access!RecordLease
  <2> QED
    BY ONLY <2>1, Zenon DEF Discarding
<1> QED
  BY <1>3, <1>4, <1>5, <1>6, <1>7, <1>8, Zenon

\* The steps of a worker.  A job that fails is the only one of its delivery.
LEMMA DiscardingByWorker ==
  ASSUME MovesBounded, AccessRows, Discarding, ~faulted => InOnePlace, NEW w \in Workers,
         \/ Access!process(w) \/ Access!revoke_access(w)
         \/ Access!revoke_leases_for_connection(w) \/ Access!reconcile(w)
         \/ Access!reactivate_connection(w) \/ Access!mark_processed(w)
         \/ Access!WorkerCrash(w) \/ Access!LeaseLost(w)
  PROVE  Discarding'
<1>1. 0 \notin processed
  <2>1. processed \subseteq 1..MaxMoves
    BY Zenon DEF AccessRows, AccessTyped
  <2> QED
    BY ONLY <2>1
<1>2. ASSUME conn' = conn, leased' = leased,
             conn.status = "disconnected" /\ CleanupPending => CleanupPending',
             conn.status = "suspended" /\ RevokePending => RevokePending'
      PROVE  Discarding'
  BY <1>2, Zenon DEF Discarding, CleanupPending, RevokePending
<1>3. ASSUME KeepsJob(w), UNCHANGED <<jobs, processed>>, job[w].step # "leases"
      PROVE  /\ CleanupPending => CleanupPending'
             /\ \A j \in jobs : Sole(j) => j \in jobs' /\ Sole(j)'
  <2>1. \A o \in Workers : job'[o].n = job[o].n
    BY ONLY <1>3, Zenon DEF KeepsJob, Moved
  <2>2. \A o \in Workers : job[o].step = "leases" => job'[o] = job[o]
    BY ONLY <1>3, Zenon DEF KeepsJob, Moved
  <2>3. CleanupPending => CleanupPending'
    BY ONLY <1>3, <2>2, Zenon DEF CleanupPending
  <2>4. ASSUME NEW j \in jobs, Sole(j) PROVE j \in jobs' /\ Sole(j)'
    <3>1. j \in jobs' /\ j.n \notin processed' /\ \A k \in jobs' : k \in jobs
      BY ONLY <1>3, <2>4, Zenon DEF Sole
    <3> QED
      BY ONLY <2>1, <2>4, <3>1, SoleStays, Zenon
  <2> QED
    BY ONLY <2>3, <2>4, Zenon
<1>4. CASE Access!process(w)
  <2>1. PICK j \in jobs :
           /\ jobs' = jobs \ {j} /\ Moved(w) /\ job[w].step = "idle"
           /\ job'[w].kind = j.kind /\ job'[w].n = j.n
           /\ job'[w].row.gen = conn.gen /\ job'[w].row.status = conn.status
           /\ j.n \notin processed /\ conn.status # "none" =>
                /\ job'[w].step \in {"revoke", "ask", "leases"}
                /\ j.kind = "cleanup" => job'[w].step = "leases"
           /\ UNCHANGED <<github, binder, conn, leased, processed, moves, faulted>>
    BY <1>4, ProcessDoes
  <2>2. ASSUME conn.status = "disconnected", CleanupPending PROVE CleanupPending'
    <3>1. ASSUME Cleans(j) PROVE Cleans(job'[w]) /\ job'[w].step = "leases"
      BY ONLY <1>1, <2>1, <2>2, <3>1, Zenon DEF Cleans
    <3>2. \A o \in Workers : job[o].step = "leases" => job'[o] = job[o]
      BY ONLY <2>1, Zenon DEF Moved
    <3> QED
      BY ONLY <2>1, <2>2, <3>1, <3>2, w \in Workers, Zenon DEF CleanupPending
  <2>3. ASSUME conn.status = "suspended", RevokePending PROVE RevokePending'
    <3>1. ASSUME NEW o \in Workers, Pursues(job[o], conn) PROVE Pursues(job'[o], conn')
      BY ONLY <2>1, <3>1, Zenon DEF Pursues, Moved
    <3>2. ASSUME Sole(j) PROVE Pursues(job'[w], conn')
      BY ONLY <2>1, <2>3, <3>2, Zenon DEF Pursues, Sole
    <3>3. ASSUME NEW k \in jobs, k # j, Sole(k) PROVE k \in jobs' /\ Sole(k)'
      <4>1. k \in jobs' /\ k.n \notin processed' /\ \A h \in jobs' : h \in jobs
        BY ONLY <2>1, <3>3, Zenon DEF Sole
      <4>2. j.n # k.n \/ k.n = 0
        BY ONLY <3>3, j \in jobs, Zenon DEF Sole
      <4>3. \A o \in Workers : job'[o].n = job[o].n \/ job'[o].n # k.n \/ k.n = 0
        BY ONLY <2>1, <4>2, Zenon DEF Moved
      <4> QED
        BY ONLY <3>3, <4>1, <4>3, SoleStays, Zenon
    <3> QED
      BY ONLY <2>3, <3>1, <3>2, <3>3, w \in Workers, Zenon DEF RevokePending
  <2> QED
    BY ONLY <1>2, <2>1, <2>2, <2>3, Zenon
<1>5. CASE Access!revoke_access(w)
  <2>1. /\ job[w].step = "revoke" /\ KeepsJob(w) /\ job'[w].step = "leases"
        /\ \/ conn' = conn
           \/ conn'.status \in {"suspended", "deleted"}
        /\ UNCHANGED <<github, binder, leased, jobs, processed, moves, faulted>>
    BY <1>5, RevokeDoes, Zenon
  <2>2. RevokePending'
    BY ONLY <2>1, w \in Workers, Zenon DEF RevokePending, Pursues
  <2>3. CleanupPending => CleanupPending'
    BY <1>3, <2>1, Zenon
  <2>4. CASE conn' = conn
    BY ONLY <1>2, <2>1, <2>2, <2>3, <2>4, Zenon
  <2>5. CASE conn'.status \in {"suspended", "deleted"}
    BY ONLY <2>2, <2>5, Zenon DEF Discarding, RevokePending
  <2> QED
    BY ONLY <2>1, <2>4, <2>5, Zenon
<1>6. CASE Access!revoke_leases_for_connection(w)
  <2>1. leased' = FALSE
    BY <1>6, LeasesDoes, Zenon
  <2> QED
    BY ONLY <2>1, Zenon DEF Discarding
<1>7. CASE Access!reconcile(w)
  <2>1. /\ job[w].step = "ask" /\ KeepsJob(w)
        /\ job'[w].step \in {"mark", "reactivate", "revoke"}
        /\ job[w].row.status \notin {"disconnected", "deleted"} => job'[w].step # "mark"
        /\ UNCHANGED <<github, binder, conn, leased, jobs, processed, moves, faulted>>
    BY <1>7, AskDoes, Zenon
  <2>2. /\ CleanupPending => CleanupPending'
        /\ \A j \in jobs : Sole(j) => j \in jobs' /\ Sole(j)'
    BY <1>3, <2>1, Zenon
  <2>3. ASSUME NEW o \in Workers, Pursues(job[o], conn) PROVE Pursues(job'[o], conn')
    <3>1. CASE o = w
      BY ONLY <2>1, <2>3, <3>1, Zenon DEF Pursues, KeepsJob
    <3>2. CASE o # w
      BY ONLY <2>1, <2>3, <3>2, Zenon DEF KeepsJob, Moved
    <3> QED
      BY ONLY <3>1, <3>2, Zenon
  <2>4. RevokePending => RevokePending'
    BY ONLY <2>2, <2>3, Zenon DEF RevokePending
  <2> QED
    BY ONLY <1>2, <2>1, <2>2, <2>4, Zenon
<1>8. CASE Access!reactivate_connection(w)
  <2>1. /\ job[w].step = "reactivate" /\ KeepsJob(w) /\ job'[w].step = "mark"
        /\ \/ conn' = conn /\ (conn.status # "suspended" \/ conn.gen # job[w].row.gen)
           \/ conn'.status = "active"
        /\ UNCHANGED <<github, binder, leased, jobs, processed, moves, faulted>>
    BY <1>8, ReactivateDoes, Zenon
  <2>2. CASE conn'.status = "active"
    BY ONLY <2>2, Zenon DEF Discarding
  <2>3. CASE conn' = conn /\ (conn.status # "suspended" \/ conn.gen # job[w].row.gen)
    <3>1. /\ CleanupPending => CleanupPending'
          /\ \A j \in jobs : Sole(j) => j \in jobs' /\ Sole(j)'
      BY <1>3, <2>1, Zenon
    <3>2. ASSUME conn.status = "suspended", NEW o \in Workers, Pursues(job[o], conn)
          PROVE  Pursues(job'[o], conn')
      <4>1. o # w
        BY ONLY <2>1, <2>3, <3>2, Zenon DEF Pursues
      <4> QED
        BY ONLY <2>1, <2>3, <3>2, <4>1, Zenon DEF KeepsJob, Moved
    <3>3. conn.status = "suspended" /\ RevokePending => RevokePending'
      BY ONLY <3>1, <3>2, Zenon DEF RevokePending
    <3> QED
      BY ONLY <1>2, <2>1, <2>3, <3>1, <3>3, Zenon
  <2> QED
    BY ONLY <2>1, <2>2, <2>3, Zenon
<1>9. CASE Access!mark_processed(w)
  <2>1. /\ job[w].step = "mark" /\ Moved(w) /\ job'[w] = Access!Idle
        /\ \A n : n \in processed' <=> n \in processed \/ (n = job[w].n /\ n # 0)
        /\ UNCHANGED <<github, binder, conn, leased, jobs, moves, faulted>>
    BY <1>9, MarkDoes, Zenon
  <2>2. Access!Idle.n = 0
    BY IdleRow, Zenon
  <2>3. \A o \in Workers : job[o].step # "mark" => job'[o] = job[o]
    BY ONLY <2>1, Zenon DEF Moved
  <2>4. CleanupPending => CleanupPending'
    BY ONLY <2>1, <2>3, Zenon DEF CleanupPending
  <2>5. \A o \in Workers : Pursues(job[o], conn) => Pursues(job'[o], conn')
    BY ONLY <2>1, <2>3, Zenon DEF Pursues
  <2>6. ASSUME NEW j \in jobs, Sole(j) PROVE j \in jobs' /\ Sole(j)'
    <3>1. j \in jobs' /\ \A k \in jobs' : k \in jobs
      BY ONLY <2>1, <2>6, Zenon
    <3>2. j.n \notin processed'
      BY ONLY <2>1, <2>6, w \in Workers, Zenon DEF Sole
    <3>3. \A o \in Workers : job'[o].n = job[o].n \/ job'[o].n # j.n \/ j.n = 0
      BY ONLY <2>1, <2>2, Zenon DEF Moved
    <3> QED
      BY ONLY <2>6, <3>1, <3>2, <3>3, SoleStays, Zenon
  <2>7. RevokePending => RevokePending'
    BY ONLY <2>5, <2>6, Zenon DEF RevokePending
  <2> QED
    BY ONLY <1>2, <2>1, <2>4, <2>7, Zenon
<1>10. CASE Access!WorkerCrash(w) \/ Access!LeaseLost(w)
  <2>1. /\ ~faulted /\ Moved(w) /\ (job'[w] = Access!Idle \/ job'[w] = job[w])
        /\ \E j \in JobRow : jobs' = jobs \cup {j} /\ j.n = job[w].n /\ j.kind = job[w].kind
        /\ UNCHANGED <<github, binder, conn, leased, processed, moves>>
    BY <1>10, FaultDoes, Zenon
  <2>2. PICK j \in JobRow : jobs' = jobs \cup {j} /\ j.n = job[w].n /\ j.kind = job[w].kind
    BY ONLY <2>1, Zenon
  <2>3. Access!Idle.n = 0
    BY IdleRow, Zenon
  <2>4. CASE job'[w] = job[w]
    <3>1. \A o \in Workers : job'[o] = job[o]
      BY ONLY <2>1, <2>4, Zenon DEF Moved
    <3>2. CleanupPending => CleanupPending'
      BY ONLY <2>2, <3>1, Zenon DEF CleanupPending
    <3>3. ASSUME NEW k \in jobs, Sole(k) PROVE k \in jobs' /\ Sole(k)'
      <4>1. k.n # 0 => j.n # k.n
        BY ONLY <2>2, <3>3, w \in Workers, Zenon DEF Sole
      <4>2. k \in jobs' /\ k.n \notin processed'
        BY ONLY <2>1, <2>2, <3>3, Zenon DEF Sole
      <4>3. \A h \in jobs' : h \in jobs \/ h.n # k.n \/ k.n = 0
        BY ONLY <2>2, <4>1, Zenon
      <4> QED
        BY ONLY <3>1, <3>3, <4>2, <4>3, SoleStays, Zenon
    <3>4. \A o \in Workers : Pursues(job[o], conn) => Pursues(job'[o], conn')
      BY ONLY <2>1, <3>1, Zenon
    <3>5. RevokePending => RevokePending'
      BY ONLY <3>3, <3>4, Zenon DEF RevokePending
    <3> QED
      BY ONLY <1>2, <2>1, <3>2, <3>5, Zenon
  <2>5. CASE job'[w] = Access!Idle
    <3>1. InOnePlace
      BY <2>1, Zenon
    <3>2. j \in jobs' /\ Sole(j)'
      <4>1. j.n \notin processed' /\ j \in jobs'
        BY ONLY <2>1, <2>2, <3>1, w \in Workers, Zenon DEF InOnePlace
      <4>2. j.n # 0 => \A o \in Workers : job'[o].n # j.n
        BY ONLY <2>1, <2>2, <2>3, <2>5, <3>1, w \in Workers, Zenon DEF InOnePlace, Moved
      <4>3. j.n # 0 => \A k \in jobs' : k.n = j.n => k = j
        BY ONLY <2>2, <3>1, w \in Workers, Zenon DEF InOnePlace
      <4> QED
        BY ONLY <4>1, <4>2, <4>3, Zenon DEF Sole
    <3>3. RevokePending'
      BY ONLY <3>2, Zenon DEF RevokePending
    <3>4. CleanupPending => CleanupPending'
      <4>1. \A o \in Workers : o # w => job'[o] = job[o]
        BY ONLY <2>1, Zenon DEF Moved
      <4>2. Cleans(job[w]) => Cleans(j)
        BY ONLY <2>2, Zenon DEF Cleans
      <4> QED
        BY ONLY <2>2, <4>1, <4>2, Zenon DEF CleanupPending
    <3> QED
      BY ONLY <1>2, <2>1, <3>3, <3>4, Zenon
  <2> QED
    BY ONLY <2>1, <2>4, <2>5, Zenon
<1> QED
  BY <1>4, <1>5, <1>6, <1>7, <1>8, <1>9, <1>10, Zenon

--------------------------------------------------------------------------
(* The results about ConnectionAccess. *)

\* Every step of ConnectionAccess preserves the invariant.
LEMMA NextAccess == ASSUME MovesBounded, AccessInv, [Access!Next]_(Access!vars) PROVE AccessInv'
<1>1. AccessRows /\ Justified /\ Discarding /\ (~faulted => InOnePlace)
  BY Zenon DEF AccessInv, AccessRows
<1>2. CASE UNCHANGED Access!vars
  <2>1. UNCHANGED <<github, binder, conn, leased, jobs, processed, job, moves, faulted>>
    BY <1>2, Zenon DEF Access!vars
  <2>2. AccessTyped' /\ Numbered'
    BY <1>1, <2>1, Zenon DEF AccessRows, AccessTyped, Numbered
  <2>3. RowsRead'
    BY <1>1, <2>1, Zenon DEF AccessRows, RowsRead
  <2>4. Justified'
    BY <1>1, <2>1, Zenon DEF Justified, Applied, Due
  <2>5. Discarding'
    BY <1>1, <2>1, Zenon DEF Discarding, Sole
  <2>6. ~faulted' => InOnePlace'
    BY <1>1, <2>1, Zenon DEF InOnePlace
  <2> QED
    BY ONLY <2>2, <2>3, <2>4, <2>5, <2>6, Zenon DEF AccessInv
<1>3. ASSUME Access!Next PROVE AccessInv'
  <2>1. AccessRows'
    BY <1>1, <1>3, RowsBySide, RowsByWorker, Zenon DEF Access!Next
  <2>2. Justified'
    BY <1>1, <1>3, JustifiedBySide, JustifiedByWorker, Zenon DEF Access!Next
  <2>3. Discarding'
    BY <1>1, <1>3, DiscardingBySide, DiscardingByWorker, Zenon DEF Access!Next
  <2>4. faulted => faulted'
    BY <1>3, Zenon DEF Access!Next, Access!Observe, Access!VerifyInstallation, Access!bind,
       Access!receive, Access!reconcile_connection, Access!disconnect, Access!RecordLease,
       Access!process, Access!revoke_access, Access!revoke_leases_for_connection,
       Access!reconcile, Access!reactivate_connection, Access!mark_processed,
       Access!WorkerCrash, Access!LeaseLost, Access!Rest
  <2>5. ~faulted' => InOnePlace'
    BY <1>1, <1>3, <2>4, PlacesStep, Zenon
  <2> QED
    BY ONLY <2>1, <2>2, <2>3, <2>5, Zenon DEF AccessInv, AccessRows
<1> QED
  BY <1>2, <1>3, Zenon

\* The invariant holds whatever order deliveries are applied in.
THEOREM AccessInvAlways == ASSUME MovesBounded PROVE Access!Spec => []AccessInv
<1>1. Access!Init => AccessInv
  BY InitAccess, Zenon
<1>2. AccessInv /\ [Access!Next]_(Access!vars) => AccessInv'
  BY NextAccess, Zenon
<1> QED
  BY <1>1, <1>2, PTL DEF Access!Spec

\* The connection row, the leases and the processed deliveries have their types.
THEOREM AccessTypeCorrect == ASSUME MovesBounded PROVE Access!Spec => []Access!TypeOK
<1>1. AccessInv => Access!TypeOK
  BY Zenon DEF AccessInv, AccessTyped, Access!TypeOK
<1> QED
  BY <1>1, AccessInvAlways, PTL

\* Whatever order deliveries are applied in, and however often, an active
\* connection to an installation that is not active is about to lose access,
\* unless it was bound over a row that no revocation changes (process,
\* revoke_access, reactivate_connection, bind).
THEOREM LateActivationIsFenced ==
  ASSUME MovesBounded PROVE Access!Spec => []Access!ActiveIsJustified
<1>1. ASSUME AccessInv PROVE Access!ActiveIsJustified
  <2>1. Justified /\ jobs \subseteq JobRow
    BY <1>1, Zenon DEF AccessInv, AccessTyped
  <2> QED
    BY ONLY <2>1, Zenon DEF Justified, Applied, Due, Access!ActiveIsJustified, Access!Working
<1> QED
  BY <1>1, AccessInvAlways, PTL

\* Once the queue is empty and the workers rest no lease outlives a suspension
\* or a disconnection, even if a worker failed once (revoke_access,
\* revoke_leases_for_connection, disconnect).
THEOREM LeasesFollowRevocation ==
  ASSUME MovesBounded PROVE Access!Spec => []Access!RevocationReachesLeases
<1>1. ASSUME AccessInv PROVE Access!RevocationReachesLeases
  <2>1. Discarding
    BY <1>1, Zenon DEF AccessInv
  <2>2. Access!Idle.step = "idle"
    BY Zenon DEF Access!Idle
  <2> QED
    BY ONLY <2>1, <2>2 DEF Discarding, Pursues, Access!RevocationReachesLeases
<1> QED
  BY <1>1, AccessInvAlways, PTL

\* Only a new binding, under a new generation, activates a disconnected row.
THEOREM DisconnectionIsFinal ==
  ASSUME MovesBounded PROVE Access!Spec => [][Access!DisconnectedStays]_(Access!vars)
<1>1. ASSUME AccessInv, [Access!Next]_(Access!vars) PROVE [Access!DisconnectedStays]_(Access!vars)
  <2>0. AccessRows /\ conn.gen \in Nat
    BY <1>1, AccessNumbers DEF AccessInv, AccessRows
  <2>1. ASSUME conn' = conn PROVE Access!DisconnectedStays
    BY ONLY <2>1 DEF Access!DisconnectedStays
  <2>2. ASSUME Access!bind PROVE Access!DisconnectedStays
    <3>1. \/ conn' = conn \/ conn.status = "none" \/ conn'.gen = conn.gen + 1
      BY <2>0, <2>2, BindDoes
    <3> QED
      BY ONLY <2>0, <3>1 DEF Access!DisconnectedStays
  <2>3. ASSUME Access!disconnect PROVE Access!DisconnectedStays
    <3>1. conn'.status = "disconnected"
      BY <2>0, <2>3, DisconnectDoes
    <3> QED
      BY ONLY <3>1 DEF Access!DisconnectedStays
  <2>4. ASSUME NEW w \in Workers, Access!revoke_access(w) PROVE Access!DisconnectedStays
    <3>1. conn' = conn \/ conn.status \in Access!Revocable
      BY <2>0, <2>4, RevokeDoes
    <3> QED
      BY ONLY <3>1 DEF Access!DisconnectedStays, Access!Revocable
  <2>5. ASSUME NEW w \in Workers, Access!reactivate_connection(w) PROVE Access!DisconnectedStays
    <3>1. conn' = conn \/ conn.status = "suspended"
      BY <2>0, <2>5, ReactivateDoes
    <3> QED
      BY ONLY <3>1 DEF Access!DisconnectedStays
  <2> QED
    BY <1>1, <2>1, <2>2, <2>3, <2>4, <2>5
       DEF Access!Next, Access!Observe, Access!VerifyInstallation, Access!receive,
           Access!reconcile_connection, Access!RecordLease, Access!process,
           Access!revoke_leases_for_connection, Access!reconcile, Access!mark_processed,
           Access!WorkerCrash, Access!LeaseLost
<1> QED
  BY <1>1, AccessInvAlways, PTL DEF Access!Spec
=============================================================================
