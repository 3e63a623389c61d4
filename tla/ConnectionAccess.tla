-------------------------- MODULE ConnectionAccess --------------------------
(***************************************************************************)
(* The access of an organization to one GitHub App installation            *)
(* (connections/*.rs): bindings, webhook deliveries and jobs that leased   *)
(* workers apply at least once and in any order, reconciliation with       *)
(* GitHub, disconnection, and the credential leases that a revocation      *)
(* discards.  Every read, GitHub call and transaction is a step of its     *)
(* own.  Repository lists are left out.                                    *)
(***************************************************************************)
EXTENDS Integers, FiniteSets

CONSTANTS Workers,
          MaxGen,   \* bound: access_generation
          MaxMoves  \* bound: bindings, changes on GitHub and admin requests, together

VARIABLES github,    \* state of the installation, and the number of its deliveries
          binder,    \* the binding service, one attempt after the other
          conn,      \* the github_connections row of the installation
          leased,    \* an unrevoked credential lease is recorded
          jobs,      \* undelivered outbox events
          processed, \* webhook deliveries marked processed
          job,       \* what each worker is doing
          moves,     \* the bound's counter
          faulted    \* a worker crashed or lost its lease: once in a behaviour

vars == <<github, binder, conn, leased, jobs, processed, job, moves, faulted>>

NoConn == [status |-> "none", gen |-> 0, unfenced |-> FALSE]
\* unfenced is history: bound over a row that no revocation could change, and
\* not revoked since.
ConnectionRow == [gen : 0..MaxGen, unfenced : BOOLEAN,
                  status : {"none", "active", "suspended", "deleted", "disconnected"}]

NoBinding == [step |-> "idle", row |-> NoConn]
Idle == [kind |-> "none", n |-> 0, step |-> "idle", row |-> NoConn, to |-> "none",
         then |-> "mark"]

Init == /\ github = [state |-> "active", changes |-> 0]
        /\ binder = NoBinding
        /\ conn = NoConn
        /\ leased = FALSE /\ jobs = {} /\ processed = {}
        /\ job = [w \in Workers |-> Idle]
        /\ moves = 0 /\ faulted = FALSE

Read == [conn EXCEPT !.unfenced = FALSE]

\* The statuses that revoke_access and disconnect change.
Revocable == {"active", "suspended"}

Move == moves < MaxMoves /\ moves' = moves + 1

Job(kind, n) == [kind |-> kind, n |-> n]

--------------------------------------------------------------------------
(* Binding, as ConnectAttempts leaves it: observe the row, ask GitHub, write. *)

Observe ==
    /\ binder.step = "idle"
    /\ binder' = [step |-> "observed", row |-> Read]
    /\ Move
    /\ UNCHANGED <<github, conn, leased, jobs, processed, job, faulted>>

\* The installation and the user's authority, asked of GitHub.
VerifyInstallation ==
    /\ binder.step = "observed"
    /\ binder' = IF github.state = "active" THEN [binder EXCEPT !.step = "verified"] ELSE NoBinding
    /\ UNCHANGED <<github, conn, leased, jobs, processed, job, moves, faulted>>

\* Mutant: the row that is reactivated is not compared with the observed one.
FenceIgnored == TRUE

\* An absent row is inserted; a present one is at the generation observed.
FenceHolds == conn.status = "none" \/ (binder.row.status # "none" /\ binder.row.gen = conn.gen)

bind ==
    /\ binder.step = "verified" /\ conn.gen < MaxGen
    /\ conn' = IF ~FenceHolds THEN conn
               ELSE [status |-> "active", unfenced |-> conn.status \notin Revocable,
                     gen |-> IF conn.status = "none" THEN 0 ELSE conn.gen + 1]
    /\ binder' = NoBinding
    /\ UNCHANGED <<github, leased, jobs, processed, job, moves, faulted>>

--------------------------------------------------------------------------
(* GitHub, webhooks and the admin's requests. *)

GithubMoves == [active |-> {"suspended", "gone", "active"}, suspended |-> {"active", "gone"},
                gone |-> {}]
EventOf(from, to) == IF from = to THEN "removed" ELSE IF to = "gone" THEN "deleted"
                     ELSE IF to = "active" THEN "unsuspend" ELSE "suspend"

\* A change of the installation, and the delivery webhooks.receive commits with
\* its outbox event; a redelivery of the same id changes nothing.
receive(to) ==
    /\ to \in GithubMoves[github.state]
    /\ github' = [state |-> to, changes |-> github.changes + 1]
    /\ jobs' = jobs \cup {Job(EventOf(github.state, to), github.changes + 1)}
    /\ Move
    /\ UNCHANGED <<binder, conn, leased, processed, job, faulted>>

reconcile_connection ==
    /\ conn.status # "none" /\ Job("reconcile", 0) \notin jobs
    /\ jobs' = jobs \cup {Job("reconcile", 0)}
    /\ Move
    /\ UNCHANGED <<github, binder, conn, leased, processed, job, faulted>>

\* Mutant: access is disabled and the recorded leases are forgotten.
DisconnectWithoutCleanup ==
    /\ conn.gen < MaxGen
    /\ conn.status \in Revocable
    /\ conn' = [conn EXCEPT !.status = "disconnected", !.gen = @ + 1, !.unfenced = FALSE]
    /\ Move
    /\ UNCHANGED <<github, binder, leased, jobs, processed, job, faulted>>

disconnect ==
    /\ conn.gen < MaxGen
    /\ conn.status \in Revocable
    /\ conn' = [conn EXCEPT !.status = "disconnected", !.gen = @ + 1, !.unfenced = FALSE]
    /\ jobs' = jobs \cup {Job("cleanup", 0)}
    /\ Move
    /\ UNCHANGED <<github, binder, leased, processed, job, faulted>>

\* The broker records a lease for an active connection (external to this module).
RecordLease ==
    /\ conn.status = "active" /\ ~leased
    /\ leased' = TRUE
    /\ UNCHANGED <<github, binder, conn, jobs, processed, job, moves, faulted>>

--------------------------------------------------------------------------
(* The worker. *)

Step(w, s) == job' = [job EXCEPT ![w].step = s]
Rest == <<github, binder, moves, faulted>>

\* Reads the delivery and the connection row.
process(w) ==
    /\ job[w].step = "idle"
    /\ \E j \in jobs :
         /\ jobs' = jobs \ {j}
         /\ job' = [job EXCEPT ![w] =
              [kind |-> j.kind, n |-> j.n, row |-> Read, to |-> IF j.kind = "deleted" THEN "deleted"
                 ELSE "suspended",
               then |-> IF j.kind = "removed" THEN "ask" ELSE "mark",
               step |-> IF j.n \in processed \/ conn.status = "none" THEN "mark"
                        ELSE CASE j.kind \in {"suspend", "deleted", "removed"} -> "revoke"
                               [] j.kind \in {"unsuspend", "reconcile"} -> "ask"
                               [] j.kind = "cleanup" -> "leases"]]
    /\ UNCHANGED <<conn, leased, processed>> /\ UNCHANGED Rest

\* revoke_access, the first of its two statements; then the leases.
revoke_access(w) ==
    /\ job[w].step = "revoke"
    /\ conn.gen < MaxGen
    /\ conn' = IF conn.status \in Revocable
                 THEN [conn EXCEPT !.status = job[w].to, !.gen = @ + 1, !.unfenced = FALSE]
                 ELSE conn
    /\ Step(w, "leases")
    /\ UNCHANGED <<leased, jobs, processed>> /\ UNCHANGED Rest

revoke_leases_for_connection(w) ==
    /\ job[w].step = "leases"
    /\ leased' = FALSE
    /\ Step(w, job[w].then)
    /\ UNCHANGED <<conn, jobs, processed>> /\ UNCHANGED Rest

\* reconcile: what GitHub says of the installation now.
reconcile(w) ==
    /\ job[w].step = "ask"
    /\ job' = [job EXCEPT ![w] = [@ EXCEPT
         !.step = IF job[w].row.status \in {"disconnected", "deleted"} THEN "mark"
                  ELSE IF github.state = "active" THEN "reactivate" ELSE "revoke",
         !.to = IF github.state = "gone" THEN "deleted" ELSE "suspended",
         !.then = "mark"]]
    /\ UNCHANGED <<conn, leased, jobs, processed>> /\ UNCHANGED Rest

\* Mutant: reactivation looks at the status alone.
ReactivatesBySuspension(w) == conn.status = "suspended"

\* Mutant: reactivation is not conditional at all.
ReactivatesAlways(w) == TRUE

Reactivates(w) == conn.status = "suspended" /\ conn.gen = job[w].row.gen

reactivate_connection(w) ==
    /\ job[w].step = "reactivate"
    /\ conn' = IF Reactivates(w) THEN [conn EXCEPT !.status = "active"] ELSE conn
    /\ Step(w, "mark")
    /\ UNCHANGED <<leased, jobs, processed>> /\ UNCHANGED Rest

mark_processed(w) ==
    /\ job[w].step = "mark"
    /\ processed' = IF job[w].n = 0 THEN processed ELSE processed \cup {job[w].n}
    /\ job' = [job EXCEPT ![w] = Idle]
    /\ UNCHANGED <<conn, leased, jobs>> /\ UNCHANGED Rest

\* The lease of the outbox event is lost: it is due again, and the worker either
\* died or goes on not knowing.
Again(w) == jobs \cup {Job(job[w].kind, job[w].n)}

WorkerCrash(w) ==
    /\ job[w].step # "idle" /\ ~faulted
    /\ jobs' = Again(w) /\ job' = [job EXCEPT ![w] = Idle]
    /\ faulted' = TRUE
    /\ UNCHANGED <<github, binder, conn, leased, processed, moves>>

LeaseLost(w) ==
    /\ job[w].step # "idle" /\ ~faulted
    /\ jobs' = Again(w)
    /\ faulted' = TRUE
    /\ UNCHANGED <<github, binder, conn, leased, processed, job, moves>>

Next == \/ Observe \/ VerifyInstallation \/ bind
        \/ \E to \in {"active", "suspended", "gone"} : receive(to)
        \/ reconcile_connection \/ disconnect \/ RecordLease
        \/ \E w \in Workers : \/ process(w) \/ revoke_access(w)
                              \/ revoke_leases_for_connection(w) \/ reconcile(w)
                              \/ reactivate_connection(w) \/ mark_processed(w)
                              \/ WorkerCrash(w) \/ LeaseLost(w)

Spec == Init /\ [][Next]_vars

TypeOK == /\ conn \in ConnectionRow
          /\ leased \in BOOLEAN
          /\ processed \subseteq 1..MaxMoves

--------------------------------------------------------------------------
(* A worker that will still look at the connection, or revoke it. *)
Working == \E w \in Workers : job[w].step \in {"revoke", "ask", "leases"}

Removal == {"suspend", "deleted"}

(* An active connection to an installation that GitHub suspended or deleted *)
(* is about to lose access: the delivery that says so is still queued or    *)
(* being applied.  Deliveries are applied out of order and twice, and       *)
(* reactivate_connection and bind race with them; the generation they read  *)
(* first keeps a late activation out.  The exception is a connection bound  *)
(* over no row or over a disconnected or deleted one: revoke_access leaves  *)
(* those alone, so bind has no generation to compare.                       *)
ActiveIsJustified ==
    (conn.status = "active" /\ github.state # "active" /\ ~conn.unfenced) =>
        Working \/ \E j \in jobs : j.kind \in Removal

(* When every queued job is done, a suspended or disconnected connection    *)
(* has no unrevoked lease: access stops before the leases are revoked, and  *)
(* one crash in between repeats both (revoke_access_and_leases, disconnect  *)
(* and its cleanup job).  A deletion found by reconcile is left out: its    *)
(* retry reads the deleted row and returns before the leases.               *)
RevocationReachesLeases ==
    (conn.status \in {"suspended", "disconnected"} /\ jobs = {} /\ \A w \in Workers : job[w] = Idle) => ~leased

(* A connection an admin disconnected comes back by a new binding only: no  *)
(* reconciliation that read the row before reactivates it (disconnect,      *)
(* reactivate_connection).                                                  *)
DisconnectedStays ==
    (conn.status = "disconnected" /\ conn'.status = "active") =>
       conn'.gen > conn.gen
=============================================================================
