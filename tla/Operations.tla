----------------------------- MODULE Operations -----------------------------
(***************************************************************************)
(* The manager's durable work queue (openflows-manager/src/operations.rs)  *)
(* and the workers that drain it: organization provisioning, template      *)
(* promotion and the tenant worker.  A claim leases a row to one attempt,  *)
(* named by a fresh lease token; the lease expires unless it is            *)
(* heartbeated, and every later write of the attempt is conditional on the *)
(* token and on the lease being live.  Worker processes of one kind share  *)
(* an owner name, so owner names never tell two attempts apart.            *)
(*                                                                         *)
(* Time is abstracted: a lease is live or expired, and retry_at is unset,  *)
(* in the future or due.  Heartbeats and current_step change neither.      *)
(***************************************************************************)
EXTENDS Integers, FiniteSets, FiniteSetsExt, TLC

CONSTANTS Ops,          \* operations, numbered in the order of created_at
          Queues,       \* what they may be, and who drains them
          Workers,
          Quota,        \* max_concurrent_provisioning_ops of each organization
          MaxAttempts   \* MAX_AUTOMATIC_ATTEMPTS, 8 in the code

TenantKinds == {"tenant.provision", "tenant.delete", "tenant.workspace"}
Kinds == TenantKinds \cup {"org.provision", "template.promote"}
Orgs == DOMAIN Quota

\* Of a queue: the kind and the organization of each operation ("none" if it
\* is never created); the kinds each worker claims; bounds on the faults
\* (crashes and leases lost by a live worker), on the waits for a slot, release
\* or controller, and on the retries users ask for.
IsQueue(q) ==
    /\ q.kind \in [Ops -> Kinds \cup {"none"}] /\ q.org \in [Ops -> Orgs]
    /\ q.serves \in [Workers -> {TenantKinds, {"org.provision"}, {"template.promote"}}]
    /\ {q.faults, q.waits, q.retries} \subseteq Nat

ASSUME OperationsAssumption ==
    /\ Ops \subseteq Nat /\ IsFiniteSet(Ops) /\ IsFiniteSet(Workers)
    /\ \A q \in Queues : IsQueue(q)
    /\ Quota \in [Orgs -> Nat \ {0}]
    /\ MaxAttempts \in Nat \ {0}

VARIABLES queue,        \* the queue at hand; it never changes
          op,           \* rows of the table operations
          worker,       \* what each worker is doing, and the LeaseGuard it holds
          final,        \* the attempt that committed the resource's final state
          latest,       \* the attempt that claimed the row last
          budget        \* faults, waits and retries left

vars == <<queue, op, worker, final, latest, budget>>

Kind == queue.kind
Org == queue.org
Serves == queue.serves

States == {"absent", "queued", "running", "succeeded", "retryable_failed", "failed",
           "cancelled"}

\* Lease tokens are random; one is fresh if nobody can present it any more.
Tokens == 1 .. Cardinality(Workers) + 3

\* A row without lease.  Of the error codes only IMPORT_FAILED is looked at;
\* aged says that updated_at is more than five minutes ago.
Row(state, attempts) ==
    [state |-> state, token |-> 0, live |-> FALSE, retry_at |-> "null",
     attempts |-> attempts, aged |-> FALSE, code |-> "none"]

Idle == [pc |-> "idle", op |-> 0, token |-> 0, scan |-> {}, attempts |-> 0]

Init ==
    /\ queue \in Queues
    /\ op = [o \in Ops |-> Row("absent", 0)]
    /\ worker = [w \in Workers |-> Idle]
    /\ final = [o \in Ops |-> 0]
    /\ latest = [o \in Ops |-> 0]
    /\ budget = [faults |-> queue.faults, waits |-> queue.waits, retries |-> queue.retries]

Spend(what) ==
    /\ budget[what] > 0
    /\ budget' = [budget EXCEPT ![what] = @ - 1]

\* create_in_tx
Create(o) ==
    /\ Kind[o] # "none" /\ op[o].state = "absent"
    /\ \A p \in Ops : p < o => op[p].state # "absent"
    /\ op' = [op EXCEPT ![o] = Row("queued", 0)]
    /\ UNCHANGED <<queue, worker, final, latest, budget>>

-----------------------------------------------------------------------------
(***************************************************************************)
(* Claims                                                                  *)
(***************************************************************************)
\* Mutant: exhausted operations stay eligible.
ClaimableForever(o) ==
    /\ op[o].state \in {"queued", "running", "retryable_failed"}
    /\ ~op[o].live
    /\ op[o].retry_at # "later"

\* Mutant: only queued rows are claimed, as if workers never died.
ClaimableIfQueued(o) ==
    /\ \/ op[o].state = "queued"
       \/ op[o].state = "retryable_failed" /\ op[o].retry_at # "null"
    /\ ~op[o].live
    /\ op[o].retry_at # "later"

Claimable(o) ==
    /\ \/ op[o].state \in {"queued", "running"}
       \/ op[o].state = "retryable_failed" /\ op[o].retry_at # "null"
    /\ ~op[o].live
    /\ op[o].retry_at # "later"

\* Tenant deletion is a finalizer: exhausted, it is eligible again after five
\* minutes while its tenant is still deleting.
Finalizer(o) ==
    /\ Kind[o] = "tenant.delete"
    /\ op[o].state = "retryable_failed" /\ op[o].retry_at = "null"
    /\ op[o].aged /\ final[o] = 0

SlotClaimable(o) == Kind[o] \in TenantKinds /\ (Claimable(o) \/ Finalizer(o))

\* Leases counted against the organization's slots when o is to be claimed.
Active(o) ==
    {p \in Ops \ {o} : /\ Org[p] = Org[o] /\ Kind[p] \in TenantKinds
                       /\ op[p].state = "running" /\ op[p].live}

\* Mutant: the slot is checked before the advisory lock, so not at all here.
SlotFreeUnlocked(o) == TRUE

SlotFree(o) == Cardinality(Active(o)) < Quota[Org[o]]

Fresh(o) ==
    Min(Tokens \ ({op[o].token, final[o], latest[o]}
                    \cup {worker[w].token : w \in {v \in Workers : worker[v].op = o}}))

\* attempt_count of a deletion grows for ever.  Above the limit it is only
\* compared with the limit, and a wait gives back the attempt of its claim, so
\* counting stops one above it.
OneMore(attempts) == IF attempts > MaxAttempts THEN attempts ELSE attempts + 1

\* The UPDATE of every claim: a new lease, one more attempt.
Lease(w, o) ==
    /\ op' = [op EXCEPT ![o].state = "running", ![o].token = Fresh(o), ![o].live = TRUE,
                        ![o].attempts = OneMore(@), ![o].aged = FALSE]
    /\ latest' = [latest EXCEPT ![o] = Fresh(o)]
    /\ worker' = [worker EXCEPT ![w] = [Idle EXCEPT !.pc = "working", !.op = o,
                                                    !.token = Fresh(o)]]
    /\ UNCHANGED <<queue, final, budget>>

\* claim_kind and claim_promote: the oldest eligible row, in one statement.
ClaimKind(w) ==
    LET eligible == {o \in Ops : Kind[o] \in Serves[w] /\ Claimable(o)}
    IN  /\ worker[w].pc = "idle" /\ Serves[w] # TenantKinds
        /\ eligible # {}
        /\ Lease(w, Min(eligible))

\* One candidate per organization: deletions first, then the oldest.
Candidates ==
    {o \in Ops :
        /\ SlotClaimable(o)
        /\ \A p \in Ops \ {o} :
             SlotClaimable(p) /\ Org[p] = Org[o] =>
               \/ Kind[o] = "tenant.delete" /\ Kind[p] # "tenant.delete"
               \/ o < p /\ (Kind[p] = "tenant.delete" => Kind[o] = "tenant.delete")}

\* claim_kinds_with_org_slot reads the candidates without locking them ...
Scan(w) ==
    /\ worker[w].pc = "idle" /\ Serves[w] = TenantKinds
    /\ Candidates # {}
    /\ worker' = [worker EXCEPT ![w] = [Idle EXCEPT !.pc = "scanning", !.scan = Candidates]]
    /\ UNCHANGED <<queue, op, final, latest, budget>>

\* ... and takes the first that is still eligible and has a slot free, both
\* checked again under the organization's advisory lock.
ClaimSlot(w, o) ==
    /\ worker[w].pc = "scanning" /\ o = Min(worker[w].scan)
    /\ SlotClaimable(o) /\ SlotFree(o)
    /\ Lease(w, o)

Skip(w) ==
    /\ worker[w].pc = "scanning"
    /\ LET o == Min(worker[w].scan)
           rest == worker[w].scan \ {o}
       IN  /\ ~(SlotClaimable(o) /\ SlotFree(o))
           /\ worker' = [worker EXCEPT ![w] =
                IF rest = {} THEN Idle ELSE [@ EXCEPT !.scan = rest]]
    /\ UNCHANGED <<queue, op, final, latest, budget>>

-----------------------------------------------------------------------------
(***************************************************************************)
(* An attempt holding a LeaseGuard                                         *)
(***************************************************************************)
Writing(w) == worker[w].pc \in {"working", "waiting", "deleting", "failing"}
Holding(w) == Writing(w) \/ worker[w].pc \in {"cancelling", "checking"}

\* Mutant: the conditional writes compare the owner name but not the token.
HoldsByOwner(w) == Holding(w) /\ op[worker[w].op].live

\* The WHERE clause of every write of a LeaseGuard.
Holds(w) ==
    /\ Holding(w)
    /\ op[worker[w].op].token = worker[w].token
    /\ op[worker[w].op].live

\* set_step, lock_in_tx, complete_in_tx, complete, requeue or fail affects no
\* row: the attempt stops, rolling back the transaction it may be in.
StaleLease(w) ==
    /\ Writing(w) /\ ~Holds(w)
    /\ worker' = [worker EXCEPT ![w] = Idle]
    /\ UNCHANGED <<queue, op, final, latest, budget>>

Unfinished(o) ==
    \/ op[o].state \in {"queued", "running"}
    \/ op[o].state = "retryable_failed" /\ op[o].retry_at # "null"

Creations(o) == {p \in Ops : Org[p] = Org[o] /\ Kind[p] = "tenant.workspace"}

\* Mutant: the row is queued again but keeps its lease.
RequeuedKeepsLease(row, retry_at) == [row EXCEPT !.state = "queued", !.retry_at = retry_at]

\* Release the lease and wait: the attempt does not count.
Requeued(row, retry_at) ==
    [Row("queued", IF row.attempts > 0 THEN row.attempts - 1 ELSE 0)
        EXCEPT !.retry_at = retry_at, !.code = row.code]

\* A tenant deletion checks its lease (set_step) ...
DeleteRecheck(w) ==
    /\ worker[w].pc = "working" /\ Kind[worker[w].op] = "tenant.delete" /\ Holds(w)
    /\ worker' = [worker EXCEPT ![w].pc = "cancelling"]
    /\ UNCHANGED <<queue, op, final, latest, budget>>

\* ... cancels abandoned workspace creations of the tenant, whatever became of
\* the lease by now ...
CancelAbandoned(w) ==
    LET abandoned(p) == /\ p \in Creations(worker[w].op)
                        /\ op[p].state = "retryable_failed" /\ op[p].retry_at = "null"
    IN  /\ worker[w].pc = "cancelling"
        /\ op' = [p \in Ops |-> IF abandoned(p) THEN Row("cancelled", op[p].attempts) ELSE op[p]]
        /\ worker' = [worker EXCEPT ![w].pc = "checking"]
        /\ UNCHANGED <<queue, final, latest, budget>>

\* ... looks for a creation that is unfinished ...
CheckCreations(w) ==
    /\ worker[w].pc = "checking"
    /\ worker' = [worker EXCEPT ![w].pc =
                    IF \E p \in Creations(worker[w].op) : Unfinished(p)
                    THEN "waiting" ELSE "deleting"]
    /\ UNCHANGED <<queue, op, final, latest, budget>>

\* ... and waits for it.
DeleteWaits(w) ==
    /\ worker[w].pc = "waiting" /\ Holds(w)
    /\ op' = [op EXCEPT ![worker[w].op] = Requeued(@, "later")]
    /\ worker' = [worker EXCEPT ![w] = Idle]
    /\ UNCHANGED <<queue, final, latest, budget>>

\* The final transaction: the resource's state and the operation's together
\* (lock_in_tx, complete_in_tx).  Promotion writes the operation alone, after
\* publishing, and leaves retry_at as it is (complete).
Complete(w) ==
    LET o == worker[w].op
    IN  /\ Holds(w)
        /\ worker[w].pc = IF Kind[o] = "tenant.delete" THEN "deleting" ELSE "working"
        /\ op' = [op EXCEPT ![o] = [Row("succeeded", @.attempts) EXCEPT
                    !.retry_at = IF Kind[o] = "template.promote" THEN op[o].retry_at ELSE "null"]]
        /\ final' = [final EXCEPT ![o] = worker[w].token]
        /\ worker' = [worker EXCEPT ![w] = Idle]
        /\ UNCHANGED <<queue, latest, budget>>

\* requeue (due at once) and requeue_after (due later).  Organization
\* provisioning never waits.
Requeue(w) ==
    LET o == worker[w].op
    IN  /\ worker[w].pc = "working" /\ Kind[o] # "org.provision" /\ Holds(w)
        /\ \E retry_at \in {"due", "later"} :
             op' = [op EXCEPT ![o] = Requeued(@, retry_at)]
        /\ worker' = [worker EXCEPT ![w] = Idle]
        /\ Spend("waits")
        /\ UNCHANGED <<queue, final, latest>>

\* fail, first statement: the number of attempts, the maximum if the row is
\* no longer this attempt's.
FailRead(w) ==
    LET o == worker[w].op
    IN  /\ worker[w].pc \in {"working", "cancelling", "checking", "deleting"}
        /\ worker' = [worker EXCEPT ![w].pc = "failing", ![w].attempts =
                        IF op[o].token = worker[w].token THEN op[o].attempts ELSE MaxAttempts]
        /\ UNCHANGED <<queue, op, final, latest, budget>>

\* Mutant: off by one, an exhausted operation is scheduled once more.
RetryAtLate(attempts) == IF attempts <= MaxAttempts THEN "later" ELSE "null"

RetryAt(attempts) == IF attempts < MaxAttempts THEN "later" ELSE "null"

\* fail, second statement: a retryable failure is scheduled again unless it
\* is exhausted; a permanent one is terminal.
FailWrite(w) ==
    LET o == worker[w].op
    IN  /\ worker[w].pc = "failing" /\ Holds(w)
        /\ \E code \in {"IMPORT_FAILED", "none"} :
             /\ code = "IMPORT_FAILED" => Kind[o] = "org.provision"
             /\ \/ op' = [op EXCEPT ![o] = [Row("retryable_failed", @.attempts) EXCEPT
                            !.retry_at = RetryAt(worker[w].attempts), !.code = code]]
                \/ op' = [op EXCEPT ![o] = [Row("failed", @.attempts) EXCEPT !.code = code]]
        /\ worker' = [worker EXCEPT ![w] = Idle]
        /\ UNCHANGED <<queue, final, latest, budget>>

-----------------------------------------------------------------------------
(***************************************************************************)
(* Faults, time and users                                                  *)
(***************************************************************************)
\* The process dies; whatever it leased stays leased until it expires.
Crash(w) ==
    /\ worker[w].pc # "idle"
    /\ worker' = [worker EXCEPT ![w] = Idle]
    /\ Spend("faults")
    /\ UNCHANGED <<queue, op, final, latest>>

\* The lease of a dead attempt runs out, or that of a worker which is paused
\* or cut off from the database for longer than the lease.
Expire(o) ==
    /\ op[o].live
    /\ op' = [op EXCEPT ![o].live = FALSE]
    /\ IF \E w \in Workers : worker[w].op = o /\ Holds(w)
       THEN Spend("faults") ELSE UNCHANGED budget
    /\ UNCHANGED <<queue, worker, final, latest>>

BecomeDue(o) ==
    /\ op[o].retry_at = "later"
    /\ op' = [op EXCEPT ![o].retry_at = "due"]
    /\ UNCHANGED <<queue, worker, final, latest, budget>>

FiveMinutes(o) ==
    /\ Kind[o] = "tenant.delete"
    /\ op[o].state = "retryable_failed" /\ op[o].retry_at = "null" /\ ~op[o].aged
    /\ op' = [op EXCEPT ![o].aged = TRUE]
    /\ UNCHANGED <<queue, worker, final, latest, budget>>

\* retry_in_tx
Retry(o) ==
    /\ \/ op[o].state = "retryable_failed"
       \/ op[o].state = "failed" /\ Kind[o] = "org.provision" /\ op[o].code = "IMPORT_FAILED"
       \/ op[o].state = "failed" /\ Kind[o] = "template.promote"
    /\ ~op[o].live
    /\ op' = [op EXCEPT ![o] = Row("queued", 0)]
    /\ Spend("retries")
    /\ UNCHANGED <<queue, worker, final, latest>>

WorkerStep(w) ==
    \/ ClaimKind(w) \/ Scan(w) \/ Skip(w)
    \/ \E o \in Ops : ClaimSlot(w, o)
    \/ StaleLease(w) \/ DeleteRecheck(w) \/ CancelAbandoned(w) \/ CheckCreations(w)
    \/ DeleteWaits(w) \/ Complete(w) \/ Requeue(w) \/ FailRead(w) \/ FailWrite(w) \/ Crash(w)

Next ==
    \/ \E w \in Workers : WorkerStep(w)
    \/ \E o \in Ops : Create(o) \/ Expire(o) \/ BecomeDue(o) \/ FiveMinutes(o) \/ Retry(o)

Spec == Init /\ [][Next]_vars

ScanSees(w, o) == Scan(w) /\ o \in Candidates /\ SlotFree(o)

\* Workers poll and finish what they start, or fail; clocks advance.  The
\* delay of requeue_after (5 s) exceeds the poll interval (2 s), so a worker
\* scans while the waiting row is not due: scanning for and claiming any other
\* row is strongly fair.
FairSpec ==
    /\ Spec
    /\ \A w \in Workers :
        /\ WF_vars(StaleLease(w)) /\ WF_vars(Skip(w)) /\ WF_vars(FailWrite(w))
        /\ SF_vars(ClaimKind(w))
        /\ \A o \in Ops : SF_vars(ScanSees(w, o)) /\ SF_vars(ClaimSlot(w, o))
        /\ WF_vars(DeleteRecheck(w)) /\ WF_vars(CancelAbandoned(w))
        /\ WF_vars(CheckCreations(w)) /\ WF_vars(DeleteWaits(w))
        /\ WF_vars(Complete(w) \/ FailRead(w))
    /\ \A o \in Ops : WF_vars(Expire(o)) /\ WF_vars(BecomeDue(o)) /\ WF_vars(FiveMinutes(o))

-----------------------------------------------------------------------------
\* Type invariant.  A row carries a lease token exactly while it is running,
\* so the writes of complete and fail, which do not look at the state, cannot
\* touch a row that is queued or finished.
TypeOK ==
    /\ \A o \in Ops :
        /\ op[o].state \in States
        /\ op[o].retry_at \in {"null", "later", "due"}
        /\ op[o].attempts \in Nat
        /\ op[o].token \in Tokens \cup {0}
        /\ op[o].token # 0 <=> op[o].state = "running"
        /\ op[o].live => op[o].token # 0
    /\ \A w \in Workers : Holding(w) <=> worker[w].op \in Ops /\ worker[w].token \in Tokens

\* Fencing: the final state of a resource is committed by the attempt that
\* claimed the operation last, and nobody claims it afterwards.  An attempt
\* that lost its lease, however late it wakes up, changes nothing.
FinalByLatestAttempt ==
    \A o \in Ops :
        /\ final[o] # 0 => final[o] = latest[o] /\ op[o].state = "succeeded"
        /\ op[o].state = "succeeded" => final[o] # 0

\* Concurrent scans, expiries and reclaims never give an organization more
\* live tenant leases than its provisioning slots.
QuotaHeld ==
    \A o \in Ops :
        Cardinality({p \in Ops : /\ Org[p] = Org[o] /\ Kind[p] \in TenantKinds
                                 /\ op[p].state = "running" /\ op[p].live}) <= Quota[Org[o]]

\* What leaves the queue stays out: a finished operation, or one whose
\* automatic attempts are exhausted, changes only by a user's retry, which
\* starts from zero attempts, by tenant deletion, or as a finalizer.
ParkedStaysParked ==
    [][ \A o \in Ops :
          (/\ \/ op[o].state \in {"succeeded", "failed", "cancelled"}
              \/ op[o].state = "retryable_failed" /\ op[o].retry_at = "null"
           /\ op'[o].state # op[o].state) =>
             \/ op'[o] = Row("queued", 0) /\ op[o].state \in {"failed", "retryable_failed"}
             \/ op'[o].state = "cancelled" /\ Kind[o] = "tenant.workspace"
             \/ Finalizer(o) ]_vars

\* A failure reported after the last automatic attempt is not scheduled again.
ExhaustedIsParked ==
    \A o \in Ops :
        (op[o].state = "retryable_failed" /\ op[o].attempts >= MaxAttempts)
            => op[o].retry_at = "null"

Settled(o) ==
    \/ op[o].state \in {"succeeded", "failed", "cancelled"}
    \/ op[o].state = "retryable_failed" /\ op[o].retry_at = "null" /\ ~Finalizer(o)

\* Every operation is driven to an outcome: whichever worker dies or loses
\* its lease, another picks the row up, and no wait for a creation in
\* progress keeps a deletion from finishing.
EventuallySettled ==
    \A o \in Ops : op[o].state = "queued" ~> Settled(o)

-----------------------------------------------------------------------------
\* provisioning/tenant_worker.rs, delete: "Deletion must not wait behind
\* provisioning capacity."  An eligible deletion always finds a slot.
DeletionNeverWaitsForSlot ==
    \A o \in Ops :
        (Kind[o] = "tenant.delete" /\ op[o].state # "absent" /\ SlotClaimable(o)) => SlotFree(o)

-----------------------------------------------------------------------------
(* Small queues for TLC: a tenant that is given a workspace and deleted;    *)
(* the same beside the provisioning of another organization's tenant, by    *)
(* interchangeable tenant workers; and the kinds claimed without a slot.    *)

CONSTANTS w1, w2, w3

OneSlot == [g \in {"a", "b"} |-> 1]

TenantWorkers == [w \in Workers |-> IF w = w3 THEN {"template.promote"} ELSE TenantKinds]
PlatformWorkers ==
    [w \in Workers |-> IF w = w3 THEN {"template.promote"} ELSE {"org.provision"}]

InOrder(first, second, third) == [o \in Ops |-> <<first, second, third>>[o]]

Teardown(faults, waits, retries) ==
    [kind |-> InOrder("tenant.workspace", "tenant.delete", "none"), org |-> [o \in Ops |-> "a"],
     serves |-> TenantWorkers, faults |-> faults, waits |-> waits, retries |-> retries]
Neighbour ==
    [kind |-> InOrder("tenant.workspace", "tenant.provision", "tenant.delete"),
     org |-> [o \in Ops |-> IF o = 2 THEN "b" ELSE "a"],
     serves |-> TenantWorkers, faults |-> 1, waits |-> 0, retries |-> 0]
Platform ==
    [kind |-> InOrder("org.provision", "template.promote", "none"), org |-> [o \in Ops |-> "a"],
     serves |-> PlatformWorkers, faults |-> 2, waits |-> 1, retries |-> 1]

AllQueues == {Teardown(2, 1, 1), Neighbour, Platform}
OneFault == {Teardown(1, 0, 0)}

Symmetry == Permutations({w1, w2})
=============================================================================
