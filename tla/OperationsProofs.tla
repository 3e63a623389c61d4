-------------------------- MODULE OperationsProofs --------------------------
(***************************************************************************)
(* The durable queue, for every set of operations and workers, every quota *)
(* and every number of crashes, lost leases, waits and retries: the last   *)
(* attempt commits, slots are respected, and what is parked stays parked.  *)
(* Then the credentials a workspace runs with (RuntimeAccess): revoked     *)
(* completely, minted once, and never taken from under an exchange.        *)
(***************************************************************************)
EXTENDS Operations, FiniteSetTheorems, WellFoundedInduction, TLAPS

Places == {"idle", "scanning", "working", "waiting", "deleting", "failing", "cancelling",
           "checking"}
Holders == Places \ {"idle", "scanning"}

Rows ==
    [state : States, token : Tokens \cup {0}, live : BOOLEAN,
     retry_at : {"null", "later", "due"}, attempts : Nat, aged : BOOLEAN,
     code : {"none", "IMPORT_FAILED"}]

Locals ==
    [pc : Places, op : Ops \cup {0}, token : Tokens \cup {0}, scan : SUBSET Ops,
     attempts : Nat]

\* A row r whose final state attempt f committed and attempt l claimed last.
RowOK(r, f, l) ==
    /\ r.token # 0 <=> r.state = "running"
    /\ r.live => r.token # 0
    /\ r.token # 0 => r.token = l
    /\ f # 0 => f = l /\ r.state = "succeeded"
    /\ r.state = "succeeded" => f # 0
    /\ (r.state = "retryable_failed" /\ r.attempts >= MaxAttempts) => r.retry_at = "null"

\* A worker k: a LeaseGuard names its row, and an attempt that reports a
\* failure knows how many there were as long as the row is its own.
GuardOK(k, rows) ==
    /\ k.pc \in Holders => k.op \in Ops /\ k.token \in Tokens
    /\ k.pc \notin Holders => k.token = 0
    /\ (k.pc = "failing" /\ rows[k.op].token = k.token) => k.attempts = rows[k.op].attempts

\* The slots organization g uses.
Busy(q, rows, g) ==
    {p \in Ops : /\ q.org[p] = g /\ q.kind[p] \in TenantKinds
                 /\ rows[p].state = "running" /\ rows[p].live}

\* The inductive invariant.
QueueInv ==
    /\ queue \in Queues
    /\ op \in [Ops -> Rows] /\ worker \in [Workers -> Locals]
    /\ final \in [Ops -> Tokens \cup {0}] /\ latest \in [Ops -> Tokens \cup {0}]
    /\ \A o \in Ops : RowOK(op[o], final[o], latest[o])
    /\ \A w \in Workers : GuardOK(worker[w], op)
    /\ \A g \in Orgs : Cardinality(Busy(queue, op, g)) <= Quota[g]

-----------------------------------------------------------------------------
\* The least of some natural numbers is one of them.
LEMMA LeastIsMember == ASSUME NEW S, S \subseteq Nat, S # {} PROVE Min(S) \in S
<1>1. PICK x \in S : \A y \in S : ~(<<y, x>> \in OpToRel(<, Nat))
  BY WFMin, NatLessThanWellFounded, Zenon
<1>2. \A y \in S : ~(y < x)
  BY <1>1, Zenon DEF OpToRel
<1>3. \A y \in S : x <= y
  BY <1>2
<1> QED
  BY <1>3, Zenon DEF Min

\* There are more tokens than can be in use for one operation.
LEMMA TokensFinite ==
  /\ IsFiniteSet(Tokens) /\ Cardinality(Tokens) = Cardinality(Workers) + 3
  /\ Cardinality(Workers) \in Nat /\ Tokens \subseteq Nat /\ 0 \notin Tokens
<1>1. Cardinality(Workers) \in Nat
  BY OperationsAssumption, FS_CardinalityType, Zenon
<1> DEFINE n == Cardinality(Workers) + 3
<1>2. n \in Nat /\ Tokens = 1..n
  BY <1>1 DEF Tokens
<1> HIDE DEF n
<1>3. IsFiniteSet(1..n) /\ Cardinality(1..n) = n
  BY <1>2, FS_Interval
<1> QED
  BY <1>1, <1>2, <1>3 DEF n

\* One more element, one more at most.
LEMMA AddOne ==
  ASSUME NEW S, IsFiniteSet(S), NEW n \in Nat, Cardinality(S) <= n, NEW x
  PROVE  IsFiniteSet(S \cup {x}) /\ Cardinality(S \cup {x}) <= n + 1
<1> DEFINE T == S \cup {x}
<1>1. Cardinality(S) \in Nat
  BY FS_CardinalityType, Zenon
<1>2. IsFiniteSet(T) /\ (Cardinality(T) = Cardinality(S) \/ Cardinality(T) = Cardinality(S) + 1)
  BY FS_AddElement, Zenon
<1> HIDE DEF T
<1>3. Cardinality(T) <= n + 1
  BY <1>1, <1>2
<1> QED
  BY <1>2, <1>3, Zenon DEF T

\* A claim by a worker without a lease finds a token that nobody can present.
LEMMA FreshToken ==
  ASSUME QueueInv, NEW w \in Workers, worker[w].pc \notin Holders, NEW o \in Ops
  PROVE  /\ Fresh(o) \in Tokens
         /\ \A v \in Workers : worker[v].op = o => worker[v].token # Fresh(o)
<1> DEFINE U == {op[o].token, final[o], latest[o]}
                  \cup {worker[v].token : v \in {x \in Workers : worker[x].op = o}}
           I == {worker[v].token : v \in Workers \ {w}}
           f == [v \in Workers \ {w} |-> worker[v].token]
           V == I \cup {op[o].token} \cup {final[o]} \cup {latest[o]}
<1>1. worker[w].token = 0
  BY Zenon DEF QueueInv, GuardOK
<1>2. IsFiniteSet(Workers \ {w}) /\ Cardinality(Workers \ {w}) = Cardinality(Workers) - 1
  BY OperationsAssumption, FS_RemoveElement, Zenon
<1>3. IsFiniteSet(V) /\ Cardinality(V) <= Cardinality(Workers) + 2
  <2>1. f \in Surjection(Workers \ {w}, I)
    BY Zenon DEF Surjection
  <2>2. IsFiniteSet(I) /\ Cardinality(I) <= Cardinality(Workers \ {w})
    BY <1>2, <2>1, FS_Surjection, Zenon
  <2> DEFINE n == Cardinality(Workers) - 1
             J == I \cup {op[o].token}
             K == J \cup {final[o]}
  <2>3. n \in Nat /\ n + 1 \in Nat /\ n + 1 + 1 \in Nat /\ Cardinality(I) <= n
    <3>1. n \in Nat
      BY <1>2, FS_CardinalityType, Zenon
    <3> QED
      BY <1>2, <2>2, <3>1
  <2> HIDE DEF I, n
  <2>4. IsFiniteSet(J) /\ Cardinality(J) <= n + 1
    BY <2>2, <2>3, AddOne, Zenon
  <2> HIDE DEF J
  <2>5. IsFiniteSet(K) /\ Cardinality(K) <= n + 1 + 1
    BY <2>3, <2>4, AddOne, Zenon
  <2> HIDE DEF K
  <2>6. IsFiniteSet(K \cup {latest[o]}) /\ Cardinality(K \cup {latest[o]}) <= n + 1 + 1 + 1
    BY <2>3, <2>5, AddOne, Zenon
  <2>7. n + 1 + 1 + 1 = Cardinality(Workers) + 2
    BY TokensFinite DEF n
  <2> QED
    BY <2>6, <2>7, Zenon DEF K, J
<1>4. U \cap Tokens \subseteq V
  <2> SUFFICES ASSUME NEW t \in U, t \in Tokens PROVE t \in V
    BY Zenon
  <2>1. CASE t \in {op[o].token, final[o], latest[o]}
    BY <2>1, Zenon
  <2>2. CASE t \notin {op[o].token, final[o], latest[o]}
    <3>1. PICK v \in Workers : t = worker[v].token
      BY <2>2, Zenon
    <3>2. v # w
      BY <1>1, <3>1, TokensFinite, Zenon
    <3> QED
      BY <3>1, <3>2, Zenon
  <2> QED
    BY <2>1, <2>2, Zenon
<1>5. Tokens \ U # {}
  <2> SUFFICES ASSUME Tokens \subseteq U PROVE FALSE
    BY Zenon
  <2> HIDE DEF U, V
  <2>1. Tokens \in SUBSET V
    BY <1>4, Zenon
  <2>2. Cardinality(Tokens) <= Cardinality(V) /\ Cardinality(V) \in Nat
    BY <1>3, <2>1, FS_Subset, FS_CardinalityType, Zenon
  <2> QED
    BY <1>3, <2>2, TokensFinite
<1>6. Fresh(o) = Min(Tokens \ U)
  BY Zenon DEF Fresh
<1>7. Fresh(o) \in Tokens \ U
  <2> HIDE DEF U
  <2> QED
    BY <1>5, <1>6, TokensFinite, LeastIsMember, Zenon
<1> QED
  BY <1>7, Zenon

-----------------------------------------------------------------------------
\* What an idle worker and a row without lease look like.
LEMMA IdleIsLocal ==
  /\ Idle \in Locals /\ Idle.pc = "idle" /\ Idle.token = 0
  /\ \A rows : GuardOK(Idle, rows)
  BY Zenon DEF Idle, Locals, Places, Holders, GuardOK

\* Row gives back the lease.
LEMMA RowFields ==
  ASSUME NEW state \in States, NEW attempts \in Nat
  PROVE  /\ Row(state, attempts) \in Rows
         /\ Row(state, attempts).state = state /\ Row(state, attempts).token = 0
         /\ Row(state, attempts).live = FALSE /\ Row(state, attempts).retry_at = "null"
         /\ Row(state, attempts).attempts = attempts
  BY Zenon DEF Row, Rows

\* The slots in use can be counted.
LEMMA BusyFinite ==
  ASSUME NEW q, NEW rows, NEW g
  PROVE  IsFiniteSet(Busy(q, rows, g)) /\ Cardinality(Busy(q, rows, g)) \in Nat
<1>1. Busy(q, rows, g) \in SUBSET Ops
  BY Zenon DEF Busy
<1> QED
  BY <1>1, OperationsAssumption, FS_Subset, FS_CardinalityType, Zenon

\* Fewer leases, fewer slots in use.
LEMMA BusyShrinks ==
  ASSUME NEW q, NEW rows, NEW new, NEW g \in Orgs, Cardinality(Busy(q, rows, g)) <= Quota[g],
         \A p \in Ops : new[p].live /\ new[p].state = "running"
                          => rows[p].live /\ rows[p].state = "running"
  PROVE  Cardinality(Busy(q, new, g)) <= Quota[g]
<1>1. Busy(q, new, g) \in SUBSET Busy(q, rows, g)
  BY Zenon DEF Busy
<1>2. Cardinality(Busy(q, new, g)) <= Cardinality(Busy(q, rows, g))
  BY <1>1, BusyFinite, FS_Subset, Zenon
<1>3. Quota[g] \in Nat
  BY OperationsAssumption, Zenon
<1> QED
  BY <1>2, <1>3, BusyFinite

\* A step of one worker that leaves the table alone.
LEMMA LocalStep ==
  ASSUME QueueInv, UNCHANGED <<queue, op, final, latest>>, NEW w \in Workers,
         NEW k \in Locals, worker' = [worker EXCEPT ![w] = k], GuardOK(k, op)
  PROVE  QueueInv'
<1>1. worker' \in [Workers -> Locals]
  BY Zenon DEF QueueInv
<1>2. \A v \in Workers : GuardOK(worker'[v], op)
  BY Zenon DEF QueueInv
<1> QED
  BY <1>1, <1>2, Zenon DEF QueueInv

\* An attempt that reports a failure has a lease on an operation, and knows the
\* number of attempts of its row.
LEMMA FailingGuard ==
  ASSUME NEW k, NEW rows, GuardOK(k, rows), k.pc = "failing"
  PROVE  /\ k.op \in Ops /\ k.token \in Tokens
         /\ rows[k.op].token = k.token => k.attempts = rows[k.op].attempts
  BY Zenon DEF GuardOK, Holders, Places

\* A step that rewrites one row without taking a lease: whoever held it lost
\* it, or the row keeps its lease and its number of attempts.
LEMMA RowStep ==
  ASSUME QueueInv, UNCHANGED <<queue, latest>>, NEW o \in Ops, NEW r \in Rows,
         op' = [op EXCEPT ![o] = r],
         final' \in [Ops -> Tokens \cup {0}], \A p \in Ops \ {o} : final'[p] = final[p],
         RowOK(r, final'[o], latest[o]),
         r.live => op[o].live /\ r.state = op[o].state,
         r.token = 0 \/ (r.token = op[o].token /\ r.attempts = op[o].attempts),
         worker' \in [Workers -> Locals],
         \A w \in Workers : worker'[w] = worker[w] \/ worker'[w] = Idle
  PROVE  QueueInv'
<1>1. op' \in [Ops -> Rows] /\ op'[o] = r /\ \A p \in Ops \ {o} : op'[p] = op[p]
  BY Zenon DEF QueueInv
<1>2. \A p \in Ops : RowOK(op'[p], final'[p], latest[p])
  BY <1>1, Zenon DEF QueueInv
<1>3. ASSUME NEW w \in Workers PROVE GuardOK(worker'[w], op')
  <2>1. CASE worker'[w] = Idle
    BY <2>1, IdleIsLocal, Zenon
  <2>2. CASE worker'[w] = worker[w]
    <3>1. GuardOK(worker[w], op)
      BY Zenon DEF QueueInv
    <3>2. (worker[w].pc = "failing" /\ op'[worker[w].op].token = worker[w].token)
             => worker[w].attempts = op'[worker[w].op].attempts
      <4>1. r.token = 0 \/ (r.token = op[o].token /\ r.attempts = op[o].attempts)
        BY Zenon
      <4>2. 0 \notin Tokens
        BY TokensFinite, Zenon
      <4> QED
        BY ONLY <1>1, <3>1, <4>1, <4>2, FailingGuard
    <3> QED
      BY <2>2, <3>1, <3>2, Zenon DEF GuardOK
  <2> QED
    BY <2>1, <2>2, Zenon
<1>4. ASSUME NEW g \in Orgs PROVE Cardinality(Busy(queue, op', g)) <= Quota[g]
  <2>1. \A p \in Ops : op'[p].live /\ op'[p].state = "running"
                         => op[p].live /\ op[p].state = "running"
    BY <1>1, Zenon
  <2> QED
    BY <2>1, BusyShrinks, Zenon DEF QueueInv
<1> QED
  BY <1>1, <1>2, <1>3, <1>4, Zenon DEF QueueInv

\* The UPDATE of a claim, field by field.
LEMMA LeaseFields ==
  ASSUME QueueInv, NEW w \in Workers, NEW o \in Ops, Fresh(o) \in Tokens, Lease(w, o)
  PROVE  /\ op' \in [Ops -> Rows] /\ \A p \in Ops \ {o} : op'[p] = op[p]
         /\ op'[o].state = "running" /\ op'[o].token = Fresh(o) /\ op'[o].live = TRUE
         /\ latest' \in [Ops -> Tokens \cup {0}] /\ latest'[o] = Fresh(o)
         /\ \A p \in Ops \ {o} : latest'[p] = latest[p]
         /\ worker' \in [Workers -> Locals] /\ \A v \in Workers \ {w} : worker'[v] = worker[v]
         /\ worker'[w].pc = "working" /\ worker'[w].op = o /\ worker'[w].token = Fresh(o)
<1> DEFINE t == Fresh(o)
           r == [op[o] EXCEPT !.state = "running", !.token = t, !.live = TRUE,
                              !.attempts = OneMore(@), !.aged = FALSE]
           k == [Idle EXCEPT !.pc = "working", !.op = o, !.token = t]
<1>1. op \in [Ops -> Rows] /\ latest \in [Ops -> Tokens \cup {0}] /\ worker \in [Workers -> Locals]
      /\ op[o] \in Rows /\ t \in Tokens
  BY Zenon DEF QueueInv
<1>2. OneMore(op[o].attempts) \in Nat
  BY <1>1, OperationsAssumption DEF OneMore, Rows
<1>3. op' = [op EXCEPT ![o] = r]
  BY <1>1, Zenon DEF Lease
<1>4. latest' = [latest EXCEPT ![o] = t] /\ worker' = [worker EXCEPT ![w] = k]
  BY Zenon DEF Lease
<1> HIDE DEF t
<1>5. r \in Rows /\ r.state = "running" /\ r.token = t /\ r.live = TRUE
  BY <1>1, <1>2, Zenon DEF Rows, States
<1>6. k \in Locals /\ k.pc = "working" /\ k.op = o /\ k.token = t
  BY <1>1, Zenon DEF Locals, Idle, Places
<1> HIDE DEF r, k
<1>7. op' \in [Ops -> Rows] /\ op'[o] = r /\ \A p \in Ops \ {o} : op'[p] = op[p]
  BY <1>1, <1>3, <1>5, Zenon
<1>8. latest' \in [Ops -> Tokens \cup {0}] /\ latest'[o] = t
      /\ \A p \in Ops \ {o} : latest'[p] = latest[p]
  BY <1>1, <1>4, Zenon
<1>9. worker' \in [Workers -> Locals] /\ worker'[w] = k
      /\ \A v \in Workers \ {w} : worker'[v] = worker[v]
  BY <1>1, <1>4, <1>6, Zenon
<1> QED
  BY <1>5, <1>6, <1>7, <1>8, <1>9 DEF t

\* A claim of a row that is not finished, within the slots of its tenant.
LEMMA LeaseStep ==
  ASSUME QueueInv, NEW w \in Workers, worker[w].pc \notin Holders, NEW o \in Ops,
         op[o].state # "succeeded", Kind[o] \in TenantKinds => SlotFree(o), Lease(w, o)
  PROVE  QueueInv'
<1>1. /\ Fresh(o) \in Tokens
      /\ \A v \in Workers : worker[v].op = o => worker[v].token # Fresh(o)
  BY FreshToken, Zenon
<1>2. /\ op' \in [Ops -> Rows] /\ \A p \in Ops \ {o} : op'[p] = op[p]
      /\ op'[o].state = "running" /\ op'[o].token = Fresh(o) /\ op'[o].live = TRUE
      /\ latest' \in [Ops -> Tokens \cup {0}] /\ latest'[o] = Fresh(o)
      /\ \A p \in Ops \ {o} : latest'[p] = latest[p]
      /\ worker' \in [Workers -> Locals] /\ \A v \in Workers \ {w} : worker'[v] = worker[v]
      /\ worker'[w].pc = "working" /\ worker'[w].op = o /\ worker'[w].token = Fresh(o)
  BY <1>1, LeaseFields, Zenon
<1>3. queue' = queue /\ final' = final
  BY Zenon DEF Lease
<1>4. final[o] = 0
  BY Zenon DEF QueueInv, RowOK
<1>5. ASSUME NEW p \in Ops PROVE RowOK(op'[p], final'[p], latest'[p])
  <2>1. CASE p = o
    BY <1>1, <1>2, <1>3, <1>4, <2>1, TokensFinite DEF RowOK
  <2>2. CASE p # o
    BY <1>2, <1>3, <2>2, Zenon DEF QueueInv
  <2> QED
    BY <2>1, <2>2, Zenon
<1>6. ASSUME NEW v \in Workers PROVE GuardOK(worker'[v], op')
  <2>1. CASE v = w
    BY <1>1, <1>2, <2>1, Zenon DEF GuardOK, Holders, Places
  <2>2. CASE v # w
    <3>1. GuardOK(worker[v], op) /\ worker'[v] = worker[v]
      BY <1>2, <2>2, Zenon DEF QueueInv
    <3>2. (worker[v].pc = "failing" /\ op'[worker[v].op].token = worker[v].token)
             => worker[v].attempts = op'[worker[v].op].attempts
      <4>1. /\ op'[o].token = Fresh(o) /\ \A p \in Ops \ {o} : op'[p] = op[p]
            /\ worker[v].op = o => worker[v].token # Fresh(o)
        BY <1>1, <1>2, Zenon
      <4> QED
        BY ONLY <3>1, <4>1, FailingGuard
    <3> QED
      BY <3>1, <3>2, Zenon DEF GuardOK
  <2> QED
    BY <2>1, <2>2, Zenon
<1>7. ASSUME NEW g \in Orgs PROVE Cardinality(Busy(queue, op', g)) <= Quota[g]
  <2>1. Cardinality(Busy(queue, op, g)) <= Quota[g] /\ Quota[g] \in Nat
    BY OperationsAssumption, Zenon DEF QueueInv
  <2>2. CASE Kind[o] \notin TenantKinds \/ Org[o] # g
    <3>1. Busy(queue, op', g) = Busy(queue, op, g)
      <4>1. queue.kind[o] \notin TenantKinds \/ queue.org[o] # g
        BY <2>2, Zenon DEF Kind, Org
      <4>2. \A p \in Ops \ {o} : op'[p] = op[p]
        BY <1>2, Zenon
      <4> QED
        BY ONLY <4>1, <4>2, Zenon DEF Busy
    <3> QED
      BY <2>1, <3>1, Zenon
  <2>3. CASE Kind[o] \in TenantKinds /\ Org[o] = g
    <3>1. Busy(queue, op', g) \in SUBSET (Active(o) \cup {o})
      BY <1>2, <2>3 DEF Busy, Active, Kind, Org
    <3>2. IsFiniteSet(Active(o)) /\ Cardinality(Active(o)) \in Nat
      <4>1. Active(o) \in SUBSET Ops
        BY Zenon DEF Active
      <4> QED
        BY <4>1, OperationsAssumption, FS_Subset, FS_CardinalityType, Zenon
    <3>3. Cardinality(Active(o)) < Quota[g]
      BY <2>3, Zenon DEF SlotFree
    <3>4. /\ IsFiniteSet(Active(o) \cup {o})
          /\ Cardinality(Active(o) \cup {o}) <= Cardinality(Active(o)) + 1
      <4>1. Cardinality(Active(o)) <= Cardinality(Active(o))
        BY <3>2
      <4> QED
        BY <3>2, <4>1, AddOne, Zenon
    <3>5. Cardinality(Busy(queue, op', g)) <= Cardinality(Active(o) \cup {o})
      BY <3>1, <3>4, FS_Subset, Zenon
    <3>6. Cardinality(Active(o) \cup {o}) \in Nat /\ Cardinality(Busy(queue, op', g)) \in Nat
      BY <3>4, BusyFinite, FS_CardinalityType, Zenon
    <3> QED
      BY ONLY <2>1, <3>2, <3>3, <3>4, <3>5, <3>6
  <2> QED
    BY <2>2, <2>3, Zenon
<1> QED
  BY <1>2, <1>3, <1>5, <1>6, <1>7 DEF QueueInv

\* claim_kind, claim_promote and claim_kinds_with_org_slot.
LEMMA ClaimStep ==
  ASSUME QueueInv, NEW w \in Workers, ClaimKind(w) \/ \E o \in Ops : ClaimSlot(w, o)
  PROVE  QueueInv'
<1>1. CASE ClaimKind(w)
  <2> DEFINE eligible == {o \in Ops : Kind[o] \in Serves[w] /\ Claimable(o)}
             o == Min(eligible)
  <2>1. eligible \subseteq Nat /\ eligible # {} /\ worker[w].pc = "idle" /\ Lease(w, o)
    BY <1>1, OperationsAssumption, Zenon DEF ClaimKind
  <2>2. o \in eligible
    BY <2>1, LeastIsMember, Zenon
  <2>3. Serves[w] \in {{"org.provision"}, {"template.promote"}}
    BY <1>1, OperationsAssumption DEF QueueInv, IsQueue, Serves, ClaimKind
  <2>4. o \in Ops /\ Kind[o] \notin TenantKinds /\ op[o].state # "succeeded"
    BY <2>2, <2>3, Zenon DEF Claimable, TenantKinds
  <2> HIDE DEF o
  <2> QED
    BY <2>1, <2>4, LeaseStep, Zenon DEF Holders
<1>2. ASSUME NEW o \in Ops, ClaimSlot(w, o) PROVE QueueInv'
  <2>1. op[o].state # "succeeded" /\ worker[w].pc = "scanning" /\ SlotFree(o) /\ Lease(w, o)
    BY <1>2, Zenon DEF ClaimSlot, SlotClaimable, Claimable, Finalizer
  <2> QED
    BY <2>1, LeaseStep, Zenon DEF Holders
<1> QED
  BY <1>1, <1>2, Zenon

-----------------------------------------------------------------------------
\* Steps that change nothing but the worker.
LEMMA WorkerOnlyStep ==
  ASSUME QueueInv, NEW w \in Workers,
         \/ Scan(w) \/ Skip(w) \/ StaleLease(w) \/ DeleteRecheck(w) \/ CheckCreations(w)
         \/ FailRead(w) \/ Crash(w)
  PROVE  QueueInv'
<1>1. worker[w] \in Locals /\ op \in [Ops -> Rows] /\ GuardOK(worker[w], op)
  BY Zenon DEF QueueInv
<1>2. UNCHANGED <<queue, op, final, latest>>
  BY Zenon DEF Scan, Skip, StaleLease, DeleteRecheck, CheckCreations, FailRead, Crash
<1>3. CASE worker' = [worker EXCEPT ![w] = Idle]
  BY <1>2, <1>3, IdleIsLocal, LocalStep, Zenon
<1>4. CASE Scan(w)
  <2> DEFINE k == [Idle EXCEPT !.pc = "scanning", !.scan = Candidates]
  <2>1. Candidates \in SUBSET Ops
    BY Zenon DEF Candidates
  <2>2. k \in Locals /\ k.pc = "scanning" /\ k.token = 0
    BY <2>1, Zenon DEF Idle, Locals, Places
  <2>3. worker' = [worker EXCEPT ![w] = k]
    BY <1>4, Zenon DEF Scan
  <2> HIDE DEF k
  <2>4. GuardOK(k, op)
    BY <2>2, Zenon DEF GuardOK, Holders
  <2> QED
    BY <1>2, <2>2, <2>3, <2>4, LocalStep
<1>5. CASE Skip(w)
  <2> DEFINE rest == worker[w].scan \ {Min(worker[w].scan)}
             k == [worker[w] EXCEPT !.scan = rest]
  <2>1. worker[w].pc = "scanning"
        /\ worker' = [worker EXCEPT ![w] = IF rest = {} THEN Idle ELSE k]
    BY <1>5, Zenon DEF Skip
  <2>2. CASE rest = {}
    BY <1>3, <2>1, <2>2, Zenon
  <2>3. CASE rest # {}
    <3>1. worker' = [worker EXCEPT ![w] = k]
      BY <2>1, <2>3, Zenon
    <3>2. rest \in SUBSET Ops
      BY <1>1, Zenon DEF Locals
    <3> HIDE DEF rest
    <3>3. k \in Locals /\ k.pc = "scanning" /\ k.token = worker[w].token
      BY <1>1, <2>1, <3>2, Zenon DEF Locals
    <3> HIDE DEF k
    <3>4. GuardOK(k, op)
      BY <1>1, <2>1, <3>3, Zenon DEF GuardOK, Holders
    <3> QED
      BY <1>2, <3>1, <3>3, <3>4, LocalStep
  <2> QED
    BY <2>2, <2>3, Zenon
<1>6. CASE DeleteRecheck(w) \/ CheckCreations(w)
  <2>1. PICK pc \in {"cancelling", "waiting", "deleting"} : worker' = [worker EXCEPT ![w].pc = pc]
    BY <1>6, Zenon DEF DeleteRecheck, CheckCreations
  <2> DEFINE k == [worker[w] EXCEPT !.pc = pc]
  <2>2. worker[w].pc \in Holders
    BY <1>6, Zenon DEF DeleteRecheck, CheckCreations, Holders, Places
  <2>3. k \in Locals /\ k.pc = pc /\ k.op = worker[w].op /\ k.token = worker[w].token
    BY <1>1, Zenon DEF Locals, Places
  <2>4. worker' = [worker EXCEPT ![w] = k]
    BY <2>1, Zenon DEF QueueInv
  <2> HIDE DEF k
  <2>5. GuardOK(k, op)
    BY <1>1, <2>2, <2>3, Zenon DEF GuardOK, Holders, Places
  <2> QED
    BY <1>2, <2>3, <2>4, <2>5, LocalStep
<1>7. CASE FailRead(w)
  <2> DEFINE n == IF op[worker[w].op].token = worker[w].token
                  THEN op[worker[w].op].attempts ELSE MaxAttempts
             k == [worker[w] EXCEPT !.pc = "failing", !.attempts = n]
  <2>1. worker[w].pc \in Holders /\ worker[w].op \in Ops
    BY <1>1, <1>7, Zenon DEF FailRead, Holders, Places, GuardOK
  <2>2. n \in Nat
    BY <1>1, <2>1, OperationsAssumption, Zenon DEF Rows
  <2>3. op[worker[w].op].token = worker[w].token => n = op[worker[w].op].attempts
    BY Zenon
  <2>4. worker' = [worker EXCEPT ![w] = k]
    BY <1>7, Zenon DEF FailRead, QueueInv
  <2> HIDE DEF n
  <2>5. /\ k \in Locals /\ k.pc = "failing" /\ k.op = worker[w].op
        /\ k.token = worker[w].token /\ k.attempts = n
    BY <1>1, <2>2, Zenon DEF Locals, Places
  <2> HIDE DEF k
  <2>6. GuardOK(k, op)
    BY <1>1, <2>1, <2>3, <2>5 DEF GuardOK, Holders, Places
  <2> QED
    BY <1>2, <2>4, <2>5, <2>6, LocalStep
<1>8. CASE StaleLease(w) \/ Crash(w)
  BY <1>3, <1>8, Zenon DEF StaleLease, Crash
<1> QED
  BY <1>4, <1>5, <1>6, <1>7, <1>8

\* A write conditional on the lease finds the row running, claimed last by
\* this attempt and not finished.
LEMMA HolderOwns ==
  ASSUME QueueInv, NEW w \in Workers, Holds(w)
  PROVE  LET o == worker[w].op IN
         /\ o \in Ops /\ op[o] \in Rows /\ op[o].state = "running" /\ final[o] = 0
         /\ worker[w].token \in Tokens /\ latest[o] = worker[w].token
<1>1. worker[w].pc \in Holders
  BY Zenon DEF Holds, Holding, Writing, Holders, Places
<1>2. worker[w].op \in Ops /\ worker[w].token \in Tokens
  BY <1>1, Zenon DEF QueueInv, GuardOK
<1>3. RowOK(op[worker[w].op], final[worker[w].op], latest[worker[w].op])
      /\ op[worker[w].op] \in Rows
  BY <1>2, Zenon DEF QueueInv
<1> QED
  BY <1>2, <1>3, TokensFinite, Zenon DEF RowOK, Holds

\* requeue gives the attempt back.
LEMMA RequeuedFields ==
  ASSUME NEW r \in Rows, NEW retry_at \in {"later", "due"}
  PROVE  LET n == Requeued(r, retry_at)
         IN  n \in Rows /\ n.state = "queued" /\ n.token = 0 /\ n.live = FALSE
<1> DEFINE a == IF r.attempts > 0 THEN r.attempts - 1 ELSE 0
<1>1. a \in Nat /\ r.code \in {"none", "IMPORT_FAILED"}
  BY DEF Rows
<1>2. Requeued(r, retry_at) = [Row("queued", a) EXCEPT !.retry_at = retry_at, !.code = r.code]
  BY Zenon DEF Requeued
<1> HIDE DEF a
<1> QED
  BY <1>1, <1>2, Zenon DEF Row, Rows, States

\* complete, requeue and fail: the attempt that holds the lease ends.
LEMMA EndStep ==
  ASSUME QueueInv, NEW w \in Workers,
         DeleteWaits(w) \/ Complete(w) \/ Requeue(w) \/ FailWrite(w)
  PROVE  QueueInv'
<1> DEFINE o == worker[w].op
<1>1. Holds(w)
  BY Zenon DEF DeleteWaits, Complete, Requeue, FailWrite
<1>2. /\ o \in Ops /\ op[o] \in Rows /\ op[o].state = "running" /\ final[o] = 0
      /\ worker[w].token \in Tokens /\ latest[o] = worker[w].token
  BY <1>1, HolderOwns, Zenon
<1>3. /\ worker' \in [Workers -> Locals]
      /\ \A v \in Workers : worker'[v] = worker[v] \/ worker'[v] = Idle
  BY IdleIsLocal DEF QueueInv, DeleteWaits, Complete, Requeue, FailWrite
<1>4. UNCHANGED <<queue, latest>>
  BY Zenon DEF DeleteWaits, Complete, Requeue, FailWrite
<1>5. CASE DeleteWaits(w) \/ Requeue(w)
  <2>1. PICK at \in {"later", "due"} : op' = [op EXCEPT ![o] = Requeued(op[o], at)]
    BY <1>5, Zenon DEF DeleteWaits, Requeue
  <2> DEFINE r == Requeued(op[o], at)
  <2>2. r \in Rows /\ r.state = "queued" /\ r.token = 0 /\ r.live = FALSE
    BY <1>2, RequeuedFields, Zenon
  <2>3. final' = final /\ op' = [op EXCEPT ![o] = r]
    BY <1>5, <2>1, Zenon DEF DeleteWaits, Requeue
  <2> HIDE DEF r
  <2>4. RowOK(r, final[o], latest[o])
    BY <1>2, <2>2, Zenon DEF RowOK
  <2> HIDE DEF o
  <2> QED
    BY <1>2, <1>3, <1>4, <2>2, <2>3, <2>4, RowStep, Zenon DEF QueueInv
<1>6. CASE Complete(w)
  <2> DEFINE at == IF Kind[o] = "template.promote" THEN op[o].retry_at ELSE "null"
             r == [Row("succeeded", op[o].attempts) EXCEPT !.retry_at = at]
  <2>1. op' = [op EXCEPT ![o] = r] /\ final' = [final EXCEPT ![o] = worker[w].token]
    BY <1>6, Zenon DEF Complete
  <2>2. at \in {"null", "later", "due"} /\ op[o].attempts \in Nat
    BY <1>2, Zenon DEF Rows
  <2> HIDE DEF at
  <2>3. r \in Rows /\ r.state = "succeeded" /\ r.token = 0 /\ r.live = FALSE
    BY <2>2, Zenon DEF Row, Rows, States
  <2> HIDE DEF r, o
  <2>4. /\ final' \in [Ops -> Tokens \cup {0}] /\ final'[o] = worker[w].token
        /\ \A p \in Ops \ {o} : final'[p] = final[p]
    BY <1>2, <2>1, Zenon DEF QueueInv
  <2>5. RowOK(r, final'[o], latest[o])
    BY <1>2, <2>3, <2>4, TokensFinite, Zenon DEF RowOK
  <2> QED
    BY <1>2, <1>3, <1>4, <2>1, <2>3, <2>4, <2>5, RowStep
<1>7. CASE FailWrite(w)
  <2>1. worker[w].attempts = op[o].attempts /\ op[o].attempts \in Nat
    BY <1>1, <1>2, <1>7, Zenon DEF QueueInv, GuardOK, FailWrite, Holds, Rows
  <2>2. PICK code \in {"IMPORT_FAILED", "none"} :
          \/ op' = [op EXCEPT ![o] = [Row("retryable_failed", @.attempts) EXCEPT
                       !.retry_at = RetryAt(worker[w].attempts), !.code = code]]
          \/ op' = [op EXCEPT ![o] = [Row("failed", @.attempts) EXCEPT !.code = code]]
    BY <1>7, Zenon DEF FailWrite
  <2> DEFINE at == RetryAt(worker[w].attempts)
             n == op[o].attempts
             r == [Row("retryable_failed", n) EXCEPT !.retry_at = at, !.code = code]
             q == [Row("failed", n) EXCEPT !.code = code]
  <2>3. at \in {"null", "later"} /\ (n >= MaxAttempts => at = "null") /\ n \in Nat
    <3>1. MaxAttempts \in Nat \ {0}
      BY OperationsAssumption, Zenon
    <3> QED
      BY ONLY <2>1, <3>1 DEF RetryAt
  <2>4. op' = [op EXCEPT ![o] = r] \/ op' = [op EXCEPT ![o] = q]
    BY <2>2, Zenon
  <2> HIDE DEF at, n
  <2>5. /\ r \in Rows /\ r.state = "retryable_failed" /\ r.token = 0 /\ r.live = FALSE
        /\ r.attempts = n /\ r.retry_at = at
    BY <2>3, Zenon DEF Row, Rows, States
  <2>6. q \in Rows /\ q.state = "failed" /\ q.token = 0 /\ q.live = FALSE
    BY <2>3, Zenon DEF Row, Rows, States
  <2> HIDE DEF r, q, o
  <2>7. final' = final /\ final \in [Ops -> Tokens \cup {0}]
    BY <1>7, Zenon DEF FailWrite, QueueInv
  <2>8. RowOK(r, final[o], latest[o]) /\ RowOK(q, final[o], latest[o])
    BY <1>2, <2>3, <2>5, <2>6, Zenon DEF RowOK
  <2> QED
    BY <1>2, <1>3, <1>4, <2>4, <2>5, <2>6, <2>7, <2>8, RowStep
<1> QED
  BY <1>5, <1>6, <1>7, Zenon

\* Tenant deletion cancels workspace creations nobody will take up again.
LEMMA CancelStep ==
  ASSUME QueueInv, NEW w \in Workers, CancelAbandoned(w)
  PROVE  QueueInv'
<1> DEFINE k == [worker[w] EXCEPT !.pc = "checking"]
<1>1. /\ UNCHANGED <<queue, final, latest>> /\ worker[w].pc = "cancelling"
      /\ worker' = [worker EXCEPT ![w].pc = "checking"]
  BY Zenon DEF CancelAbandoned
<1>2. ASSUME NEW p \in Ops
      PROVE  \/ op'[p] = op[p]
             \/ op'[p] = Row("cancelled", op[p].attempts) /\ op[p].state = "retryable_failed"
  BY Zenon DEF CancelAbandoned
<1>3. ASSUME NEW p \in Ops
      PROVE  /\ op'[p] \in Rows /\ RowOK(op'[p], final[p], latest[p])
             /\ op'[p].token = op[p].token /\ op'[p].attempts = op[p].attempts
             /\ op'[p].live => op[p].live /\ op'[p].state = op[p].state
  <2>1. op[p] \in Rows /\ RowOK(op[p], final[p], latest[p]) /\ op[p].attempts \in Nat
    BY Zenon DEF QueueInv, Rows
  <2>2. CASE op'[p] = op[p]
    BY <2>1, <2>2, Zenon
  <2>3. CASE op'[p] = Row("cancelled", op[p].attempts) /\ op[p].state = "retryable_failed"
    <3> DEFINE n == op[p].attempts
               r == Row("cancelled", n)
    <3>1. /\ r \in Rows /\ r.state = "cancelled" /\ r.token = 0 /\ r.live = FALSE
          /\ r.attempts = n
      <4>1. n \in Nat
        BY <2>1, Zenon
      <4> HIDE DEF n
      <4> QED
        BY <4>1, Zenon DEF Row, Rows, States
    <3> HIDE DEF r
    <3>2. op'[p] = r
      BY <2>3, Zenon DEF r
    <3> QED
      BY <2>1, <2>3, <3>1, <3>2 DEF RowOK
  <2> QED
    BY <1>2, <2>2, <2>3, Zenon
<1>4. op' \in [Ops -> Rows]
  <2>1. op' = [p \in Ops |-> op'[p]]
    BY Zenon DEF CancelAbandoned
  <2> QED
    BY <1>3, <2>1, Zenon
<1>5. worker[w] \in Locals /\ worker \in [Workers -> Locals] /\ GuardOK(worker[w], op)
  BY Zenon DEF QueueInv
<1>6. k \in Locals /\ k.pc = "checking" /\ k.op = worker[w].op /\ k.token = worker[w].token
  BY <1>5, Zenon DEF Locals, Places
<1>7. worker' = [worker EXCEPT ![w] = k]
  BY <1>1, <1>5, Zenon
<1> HIDE DEF k
<1>8. ASSUME NEW v \in Workers PROVE GuardOK(worker'[v], op')
  <2>1. CASE v = w
    BY <1>1, <1>5, <1>6, <1>7, <2>1 DEF GuardOK, Holders, Places
  <2>2. CASE v # w
    <3>1. GuardOK(worker[v], op) /\ worker'[v] = worker[v]
      BY <1>5, <1>7, <2>2, Zenon DEF QueueInv
    <3>2. (worker[v].pc = "failing" /\ op'[worker[v].op].token = worker[v].token)
             => worker[v].attempts = op'[worker[v].op].attempts
      BY <1>3, <3>1, Zenon DEF GuardOK, Holders, Places
    <3> QED
      BY <3>1, <3>2, Zenon DEF GuardOK
  <2> QED
    BY <2>1, <2>2, Zenon
<1>9. ASSUME NEW g \in Orgs PROVE Cardinality(Busy(queue, op', g)) <= Quota[g]
  <2>1. \A p \in Ops : op'[p].live /\ op'[p].state = "running"
                         => op[p].live /\ op[p].state = "running"
    BY <1>3, Zenon
  <2> QED
    BY <2>1, BusyShrinks, Zenon DEF QueueInv
<1>10. worker' \in [Workers -> Locals]
  BY <1>5, <1>6, <1>7, Zenon
<1> QED
  BY <1>1, <1>3, <1>4, <1>8, <1>9, <1>10 DEF QueueInv

\* create_in_tx, time and retry_in_tx.
LEMMA TableStep ==
  ASSUME QueueInv, NEW o \in Ops,
         Create(o) \/ Expire(o) \/ BecomeDue(o) \/ FiveMinutes(o) \/ Retry(o)
  PROVE  QueueInv'
<1>1. UNCHANGED <<queue, worker, final, latest>>
  BY Zenon DEF Create, Expire, BecomeDue, FiveMinutes, Retry
<1>2. /\ op \in [Ops -> Rows] /\ op[o] \in Rows /\ RowOK(op[o], final[o], latest[o])
      /\ final \in [Ops -> Tokens \cup {0}] /\ worker \in [Workers -> Locals]
  BY Zenon DEF QueueInv
<1>3. CASE Create(o) \/ Retry(o)
  <2> DEFINE r == Row("queued", 0)
  <2>1. op' = [op EXCEPT ![o] = r] /\ op[o].state # "succeeded"
    BY <1>3, Zenon DEF Create, Retry
  <2>2. r \in Rows /\ r.state = "queued" /\ r.token = 0 /\ r.live = FALSE
    BY Zenon DEF Row, Rows, States
  <2> HIDE DEF r
  <2>3. RowOK(r, final[o], latest[o])
    BY <1>2, <2>1, <2>2, Zenon DEF RowOK
  <2> QED
    BY <1>1, <1>2, <2>1, <2>2, <2>3, RowStep
<1>4. CASE Expire(o)
  <2> DEFINE r == [op[o] EXCEPT !.live = FALSE]
  <2>1. op' = [op EXCEPT ![o] = r]
    BY <1>2, <1>4, Zenon DEF Expire
  <2>2. /\ r \in Rows /\ r.live = FALSE /\ r.state = op[o].state /\ r.token = op[o].token
        /\ r.attempts = op[o].attempts /\ r.retry_at = op[o].retry_at
    BY <1>2, Zenon DEF Rows
  <2> HIDE DEF r
  <2>3. RowOK(r, final[o], latest[o])
    BY <1>2, <2>2, Zenon DEF RowOK
  <2> QED
    BY <1>1, <1>2, <2>1, <2>2, <2>3, RowStep
<1>5. CASE BecomeDue(o)
  <2> DEFINE r == [op[o] EXCEPT !.retry_at = "due"]
  <2>1. op' = [op EXCEPT ![o] = r] /\ op[o].retry_at = "later"
    BY <1>2, <1>5, Zenon DEF BecomeDue
  <2>2. /\ r \in Rows /\ r.live = op[o].live /\ r.state = op[o].state
        /\ r.token = op[o].token /\ r.attempts = op[o].attempts /\ r.retry_at = "due"
    BY <1>2, Zenon DEF Rows
  <2> HIDE DEF r
  <2>3. RowOK(r, final[o], latest[o])
    BY <1>2, <2>1, <2>2, Zenon DEF RowOK
  <2> QED
    BY <1>1, <1>2, <2>1, <2>2, <2>3, RowStep
<1>6. CASE FiveMinutes(o)
  <2> DEFINE r == [op[o] EXCEPT !.aged = TRUE]
  <2>1. op' = [op EXCEPT ![o] = r]
    BY <1>2, <1>6, Zenon DEF FiveMinutes
  <2>2. /\ r \in Rows /\ r.live = op[o].live /\ r.state = op[o].state
        /\ r.token = op[o].token /\ r.attempts = op[o].attempts /\ r.retry_at = op[o].retry_at
    BY <1>2, Zenon DEF Rows
  <2> HIDE DEF r
  <2>3. RowOK(r, final[o], latest[o])
    BY <1>2, <2>2, Zenon DEF RowOK
  <2> QED
    BY <1>1, <1>2, <2>1, <2>2, <2>3, RowStep
<1> QED
  BY <1>3, <1>4, <1>5, <1>6, Zenon

-----------------------------------------------------------------------------
\* Nothing is leased in an empty table.
LEMMA InitQueue == Init => QueueInv
<1> SUFFICES ASSUME Init PROVE QueueInv
  BY Zenon
<1> DEFINE r == Row("absent", 0)
<1>1. r \in Rows /\ r.state = "absent" /\ r.token = 0 /\ r.live = FALSE
  BY Zenon DEF Row, Rows, States
<1>2. op = [o \in Ops |-> r]
  BY Zenon DEF Init
<1> HIDE DEF r
<1>3. op \in [Ops -> Rows] /\ \A o \in Ops : op[o] = r
  BY <1>1, <1>2, Zenon
<1>4. /\ queue \in Queues /\ worker \in [Workers -> Locals]
      /\ final \in [Ops -> Tokens \cup {0}] /\ latest \in [Ops -> Tokens \cup {0}]
      /\ \A w \in Workers : GuardOK(worker[w], op)
      /\ \A o \in Ops : final[o] = 0 /\ latest[o] = 0
  BY IdleIsLocal, Zenon DEF Init
<1>5. \A o \in Ops : RowOK(op[o], final[o], latest[o])
  BY <1>1, <1>3, <1>4, Zenon DEF RowOK
<1>6. ASSUME NEW g \in Orgs PROVE Cardinality(Busy(queue, op, g)) <= Quota[g]
  <2>1. Busy(queue, op, g) = {}
    BY <1>1, <1>3, Zenon DEF Busy
  <2>2. Quota[g] \in Nat
    BY OperationsAssumption, Zenon
  <2> QED
    BY <2>1, <2>2, FS_EmptySet
<1> QED
  BY <1>3, <1>4, <1>5, <1>6 DEF QueueInv

\* Every step of a worker, of the clock and of a user keeps the invariant.
LEMMA NextQueue == QueueInv /\ [Next]_vars => QueueInv'
<1> SUFFICES ASSUME QueueInv, [Next]_vars PROVE QueueInv'
  BY Zenon
<1>1. CASE UNCHANGED vars
  BY <1>1, Zenon DEF vars, QueueInv
<1>2. ASSUME NEW w \in Workers, WorkerStep(w) PROVE QueueInv'
  <2>1. CASE ClaimKind(w) \/ \E o \in Ops : ClaimSlot(w, o)
    BY <2>1, ClaimStep, Zenon
  <2>2. CASE \/ Scan(w) \/ Skip(w) \/ StaleLease(w) \/ DeleteRecheck(w) \/ CheckCreations(w)
             \/ FailRead(w) \/ Crash(w)
    BY <2>2, WorkerOnlyStep, Zenon
  <2>3. CASE DeleteWaits(w) \/ Complete(w) \/ Requeue(w) \/ FailWrite(w)
    BY <2>3, EndStep, Zenon
  <2>4. CASE CancelAbandoned(w)
    BY <2>4, CancelStep, Zenon
  <2> QED
    BY <1>2, <2>1, <2>2, <2>3, <2>4, Zenon DEF WorkerStep
<1>3. ASSUME NEW o \in Ops, Create(o) \/ Expire(o) \/ BecomeDue(o) \/ FiveMinutes(o) \/ Retry(o)
      PROVE  QueueInv'
  BY <1>3, TableStep, Zenon
<1> QED
  BY <1>1, <1>2, <1>3, Zenon DEF Next

\* The inductive invariant holds in every reachable state of the queue.
THEOREM QueueInvAlways == Spec => []QueueInv
  BY InitQueue, NextQueue, PTL DEF Spec

\* A row carries a lease exactly while it is running, and a worker that acts
\* for an attempt names an operation and a token: the writes of complete and
\* fail, which do not look at the state, never touch a row at rest.
THEOREM QueueTypes == Spec => []TypeOK
<1>1. QueueInv => TypeOK
  <2> SUFFICES ASSUME QueueInv PROVE TypeOK
    BY Zenon
  <2>1. ASSUME NEW o \in Ops
        PROVE  /\ op[o].state \in States /\ op[o].retry_at \in {"null", "later", "due"}
               /\ op[o].attempts \in Nat /\ op[o].token \in Tokens \cup {0}
    BY Zenon DEF QueueInv, Rows
  <2>2. ASSUME NEW o \in Ops
        PROVE  (op[o].token # 0 <=> op[o].state = "running") /\ (op[o].live => op[o].token # 0)
    BY Zenon DEF QueueInv, RowOK
  <2>3. ASSUME NEW w \in Workers
        PROVE  Holding(w) <=> worker[w].op \in Ops /\ worker[w].token \in Tokens
    <3>1. GuardOK(worker[w], op) /\ worker[w].pc \in Places
      BY Zenon DEF QueueInv, Locals
    <3>2. Holding(w) <=> worker[w].pc \in Holders
      BY <3>1, Zenon DEF Holding, Writing, Holders, Places
    <3> QED
      BY <3>1, <3>2, TokensFinite, Zenon DEF GuardOK
  <2> QED
    BY <2>1, <2>2, <2>3, Zenon DEF TypeOK
<1> QED
  BY <1>1, QueueInvAlways, PTL

\* Fencing: the attempt that claimed an operation last is the one that commits
\* its final state, and an operation with a final state stays finished.
THEOREM LatestAttemptCommits == Spec => []FinalByLatestAttempt
<1>1. QueueInv => FinalByLatestAttempt
  BY Zenon DEF QueueInv, RowOK, FinalByLatestAttempt
<1> QED
  BY <1>1, QueueInvAlways, PTL

\* An organization never holds more live tenant leases than it has slots.
THEOREM SlotsAreRespected == Spec => []QuotaHeld
<1>1. QueueInv => QuotaHeld
  <2> SUFFICES ASSUME QueueInv, NEW o \in Ops
               PROVE  Cardinality({p \in Ops : /\ Org[p] = Org[o] /\ Kind[p] \in TenantKinds
                                               /\ op[p].state = "running" /\ op[p].live})
                        <= Quota[Org[o]]
    BY Zenon DEF QuotaHeld
  <2>1. Org[o] \in Orgs
    <3>1. IsQueue(queue)
      BY OperationsAssumption, Zenon DEF QueueInv
    <3> QED
      BY ONLY <3>1, Zenon DEF IsQueue, Org
  <2>2. Busy(queue, op, Org[o]) = {p \in Ops : /\ Org[p] = Org[o] /\ Kind[p] \in TenantKinds
                                               /\ op[p].state = "running" /\ op[p].live}
    BY Zenon DEF Busy, Org, Kind
  <2> QED
    BY <2>1, <2>2, Zenon DEF QueueInv
<1> QED
  BY <1>1, QueueInvAlways, PTL

\* A failure after the last automatic attempt is not scheduled again, however
\* the two statements of fail interleave with other attempts.
THEOREM ExhaustedRest == Spec => []ExhaustedIsParked
<1>1. QueueInv => ExhaustedIsParked
  BY Zenon DEF QueueInv, RowOK, ExhaustedIsParked
<1> QED
  BY <1>1, QueueInvAlways, PTL

\* Operations out of the queue, and the ways back into it.
Parked(o) ==
    \/ op[o].state \in {"succeeded", "failed", "cancelled"}
    \/ op[o].state = "retryable_failed" /\ op[o].retry_at = "null"

Allowed(o) ==
    \/ op'[o] = Row("queued", 0) /\ op[o].state \in {"failed", "retryable_failed"}
    \/ op'[o].state = "cancelled" /\ Kind[o] = "tenant.workspace"
    \/ Finalizer(o)

\* Every step leaves a parked operation alone, or is one of the ways back.
LEMMA ParkedStep ==
  ASSUME QueueInv, Next, NEW o \in Ops, Parked(o), op'[o].state # op[o].state
  PROVE  Allowed(o)
<1> USE DEF Parked, Allowed
<1>1. op \in [Ops -> Rows]
  BY Zenon DEF QueueInv
<1>2. op[o].state # "running"
  BY Zenon
<1>3. ASSUME NEW w \in Workers, WorkerStep(w) PROVE Allowed(o)
  <2>1. CASE ClaimKind(w)
    <3> DEFINE eligible == {p \in Ops : Kind[p] \in Serves[w] /\ Claimable(p)}
               q == Min(eligible)
    <3>1. eligible \subseteq Nat /\ eligible # {} /\ Lease(w, q)
      BY <2>1, OperationsAssumption, Zenon DEF ClaimKind
    <3>2. q \in eligible
      BY <3>1, LeastIsMember, Zenon
    <3>3. q \in Ops /\ Claimable(q)
      BY <3>2, Zenon
    <3> HIDE DEF q
    <3>4. o = q
      BY <1>1, <3>1, <3>3, Zenon DEF Lease
    <3> QED
      BY <3>3, <3>4, Zenon DEF Claimable
  <2>2. ASSUME NEW q \in Ops, ClaimSlot(w, q) PROVE Allowed(o)
    <3>1. o = q
      BY <1>1, <2>2, Zenon DEF ClaimSlot, Lease
    <3> QED
      BY <2>2, <3>1, Zenon DEF ClaimSlot, SlotClaimable, Claimable
  <2>3. CASE \/ Scan(w) \/ Skip(w) \/ StaleLease(w) \/ DeleteRecheck(w) \/ CheckCreations(w)
             \/ FailRead(w) \/ Crash(w)
    BY <2>3, Zenon DEF Scan, Skip, StaleLease, DeleteRecheck, CheckCreations, FailRead, Crash
  <2>4. CASE DeleteWaits(w) \/ Complete(w) \/ Requeue(w) \/ FailWrite(w)
    <3>1. Holds(w)
      BY <2>4, Zenon DEF DeleteWaits, Complete, Requeue, FailWrite
    <3>2. worker[w].op \in Ops /\ op[worker[w].op].state = "running"
      BY <3>1, HolderOwns, Zenon
    <3>3. op'[o] = op[o]
      BY <1>1, <1>2, <2>4, <3>2, Zenon DEF DeleteWaits, Complete, Requeue, FailWrite
    <3> QED
      BY <3>3, Zenon
  <2>5. CASE CancelAbandoned(w)
    <3>1. o \in Creations(worker[w].op) /\ op'[o] = Row("cancelled", op[o].attempts)
      BY <2>5, Zenon DEF CancelAbandoned
    <3> QED
      BY ONLY <3>1 DEF Creations, Row
  <2> QED
    BY <1>3, <2>1, <2>2, <2>3, <2>4, <2>5 DEF WorkerStep
<1>4. ASSUME NEW p \in Ops,
             Create(p) \/ Expire(p) \/ BecomeDue(p) \/ FiveMinutes(p) \/ Retry(p)
      PROVE  Allowed(o)
  <2>1. CASE Create(p)
    BY <1>1, <2>1, Zenon DEF Create
  <2>2. CASE Expire(p) \/ BecomeDue(p) \/ FiveMinutes(p)
    BY <1>1, <2>2 DEF Expire, BecomeDue, FiveMinutes, Rows
  <2>3. CASE Retry(p)
    BY <1>1, <2>3, Zenon DEF Retry
  <2> QED
    BY <1>4, <2>1, <2>2, <2>3, Zenon
<1> QED
  BY <1>3, <1>4, Zenon DEF Next

\* What leaves the queue stays out of it, unless a user asks for a retry, a
\* deletion cancels it, or it is a deletion itself.
THEOREM ParkedStay == Spec => ParkedStaysParked
<1>1. QueueInv /\ [Next]_vars =>
        [ \A o \in Ops :
            (/\ \/ op[o].state \in {"succeeded", "failed", "cancelled"}
                \/ op[o].state = "retryable_failed" /\ op[o].retry_at = "null"
             /\ op'[o].state # op[o].state) =>
               \/ op'[o] = Row("queued", 0) /\ op[o].state \in {"failed", "retryable_failed"}
               \/ op'[o].state = "cancelled" /\ Kind[o] = "tenant.workspace"
               \/ Finalizer(o) ]_vars
  BY ParkedStep, Zenon DEF Parked, Allowed
<1> QED
  BY <1>1, QueueInvAlways, PTL DEF Spec, ParkedStaysParked

-----------------------------------------------------------------------------
(* Runtime credentials. *)

CONSTANTS Bootstraps, Sessions, GitTokens, Exchanges, Clients, MaxGen
VARIABLES boot, ws, session, refresher, revoker, torn, token, lease, exch, cache

Runtime == INSTANCE RuntimeAccess WITH Tokens <- GitTokens

\* The values that stand for no request, no token and the first generation are
\* none of the others.
RuntimeNamed == "none" \notin Exchanges /\ Runtime!NoToken \notin GitTokens /\ MaxGen \in Nat \ {0}

Exchange == [step : {"idle", "scoped", "token"}, by : {1} \cup Sessions, gen : Runtime!Gens,
             connGen : 1..2, token : {Runtime!NoToken} \cup GitTokens, existing : BOOLEAN]

RuntimeTyped ==
    /\ boot \in [Bootstraps -> {"none", "live", "consumed", "revoked"}]
    /\ ws \in Runtime!RuntimeScope
    /\ session \in [Sessions -> Runtime!RuntimeCredential]
    /\ refresher \in [Clients -> {0} \cup Sessions]
    /\ revoker \in {"idle", "bumped", "credentials"} /\ torn \in BOOLEAN
    /\ token \in [GitTokens -> {"none", "minted", "delivered", "revoked"}]
    /\ lease \in [GitTokens -> Runtime!CredentialLease]
    /\ exch \in [Exchanges -> Exchange]
    /\ cache \in [holder : {"none"} \cup Exchanges, entry : Runtime!BrokerKey]

\* Whatever is unrevoked is of the current generation, unless a revoke has not
\* come to it, or died before it.
GenerationsCurrent ==
    /\ ~torn /\ revoker # "bumped" =>
          \A s \in Sessions : session[s].st = "live" => session[s].gen = ws.gen
    /\ ~torn /\ revoker = "idle" =>
          \A t \in GitTokens : lease[t].st = "live" => lease[t].gen = ws.gen

\* The secret a session was minted from is spent, and of that session alone.
OriginsSpent ==
    /\ \A s \in Sessions : session[s].st = "none" <=> session[s].from = <<"none", 0>>
    /\ \A s \in Sessions, b \in Bootstraps :
          session[s].from = <<"bootstrap", b>> => boot[b] = "consumed"
    /\ \A s \in Sessions, q \in Sessions :
          session[s].from = <<"refresh", q>> => session[q].st = "revoked"
    /\ \A r, s \in Sessions :
          r # s /\ session[r].st # "none" => session[r].from # session[s].from

\* The request that holds the shard has a token that is delivered when it comes
\* from the cache, and its own when it does not.
ExchangeSound(e) ==
    /\ exch[e].step = "token" <=> cache.holder = e
    /\ exch[e].step # "idle" => exch[e].by \in Sessions
    /\ exch[e].step = "scoped" => ~exch[e].existing
    /\ exch[e].step = "token" =>
          /\ exch[e].token \in GitTokens
          /\ token[exch[e].token] = IF exch[e].existing THEN "delivered" ELSE "minted"

ShardSound ==
    /\ \A e \in Exchanges : ExchangeSound(e)
    /\ cache.entry.token # Runtime!NoToken => token[cache.entry.token] = "delivered"

RuntimeInv == RuntimeTyped /\ GenerationsCurrent /\ OriginsSpent /\ ShardSound

\* At the start there are no sessions, tokens or requests.
LEMMA InitRuntime == ASSUME RuntimeNamed, Runtime!Init PROVE RuntimeInv
<1>1. /\ boot = [b \in Bootstraps |-> "none"]
      /\ ws = [gen |-> 1, connGen |-> 1, connected |-> TRUE, running |-> TRUE, registered |-> FALSE]
      /\ session = [s \in Sessions |-> Runtime!NoSession]
      /\ refresher = [c \in Clients |-> 0]
      /\ revoker = "idle" /\ torn = FALSE
  BY Zenon DEF Runtime!Init
<1>2. /\ token = [t \in GitTokens |-> "none"]
      /\ lease = [t \in GitTokens |-> Runtime!NoLease]
      /\ exch = [e \in Exchanges |-> Runtime!NoExchange]
      /\ cache = [holder |-> "none", entry |-> Runtime!NoEntry]
  BY Zenon DEF Runtime!Init
<1>3. 1 \in Runtime!Gens
  BY DEF RuntimeNamed, Runtime!Gens
<1>4. /\ Runtime!NoSession \in Runtime!RuntimeCredential
      /\ Runtime!NoSession.st = "none" /\ Runtime!NoSession.from = <<"none", 0>>
  BY ONLY <1>3, Zenon DEF Runtime!NoSession, Runtime!RuntimeCredential, Runtime!Origins
<1>5. Runtime!NoLease \in Runtime!CredentialLease /\ Runtime!NoLease.st = "none"
  BY ONLY <1>3 DEF Runtime!NoLease, Runtime!CredentialLease
<1>6. Runtime!NoExchange \in Exchange /\ Runtime!NoExchange.step = "idle"
  BY ONLY <1>3 DEF Runtime!NoExchange, Exchange
<1>7. Runtime!NoEntry \in Runtime!BrokerKey /\ Runtime!NoEntry.token = Runtime!NoToken
  BY ONLY <1>3 DEF Runtime!NoEntry, Runtime!BrokerKey, Runtime!NoToken
<1>8. ws \in Runtime!RuntimeScope
  BY ONLY <1>1, <1>3 DEF Runtime!RuntimeScope
<1>9. cache \in [holder : {"none"} \cup Exchanges, entry : Runtime!BrokerKey]
  BY ONLY <1>2, <1>7, Zenon
<1>10. RuntimeTyped
  BY ONLY <1>1, <1>2, <1>4, <1>5, <1>6, <1>8, <1>9, Zenon DEF RuntimeTyped
<1>11. GenerationsCurrent
  BY ONLY <1>1, <1>2, <1>4, <1>5, Zenon DEF GenerationsCurrent
<1>12. OriginsSpent
  BY ONLY <1>1, <1>4 DEF OriginsSpent
<1>13. "none" \notin Exchanges
  BY Zenon DEF RuntimeNamed
<1>14. ShardSound
  BY ONLY <1>2, <1>6, <1>7, <1>13, Zenon DEF ShardSound, ExchangeSound
<1> QED
  BY ONLY <1>10, <1>11, <1>12, <1>14, Zenon DEF RuntimeInv

\* Facts about the values the steps write.
LEMMA RevokedSessions ==
  ASSUME NEW rows \in [Sessions -> Runtime!RuntimeCredential]
  PROVE  /\ Runtime!Revoked(rows) \in [Sessions -> Runtime!RuntimeCredential]
         /\ \A i \in Sessions : /\ Runtime!Revoked(rows)[i].st # "live"
                                /\ rows[i].st # "live" => Runtime!Revoked(rows)[i] = rows[i]
                                /\ rows[i].st = "live" => Runtime!Revoked(rows)[i].st = "revoked"
                                /\ Runtime!Revoked(rows)[i].from = rows[i].from
<1>1. Runtime!Revoked(rows) = [i \in Sessions |->
         IF rows[i].st = "live" THEN [rows[i] EXCEPT !.st = "revoked"] ELSE rows[i]]
  BY Zenon DEF Runtime!Revoked
<1>2. ASSUME NEW r \in Runtime!RuntimeCredential
      PROVE  /\ [r EXCEPT !.st = "revoked"] \in Runtime!RuntimeCredential
             /\ [r EXCEPT !.st = "revoked"].st = "revoked"
             /\ [r EXCEPT !.st = "revoked"].from = r.from
  BY Zenon DEF Runtime!RuntimeCredential
<1> QED
  BY ONLY <1>1, <1>2, rows \in [Sessions -> Runtime!RuntimeCredential]

\* Revoking leases leaves none live.
LEMMA RevokedLeases ==
  ASSUME NEW rows \in [GitTokens -> Runtime!CredentialLease]
  PROVE  /\ Runtime!Revoked(rows) \in [GitTokens -> Runtime!CredentialLease]
         /\ \A i \in GitTokens : Runtime!Revoked(rows)[i].st # "live"
<1>1. Runtime!Revoked(rows) = [i \in GitTokens |->
         IF rows[i].st = "live" THEN [rows[i] EXCEPT !.st = "revoked"] ELSE rows[i]]
  BY DEF Runtime!Revoked
<1>2. ASSUME NEW r \in Runtime!CredentialLease
      PROVE  /\ [r EXCEPT !.st = "revoked"] \in Runtime!CredentialLease
             /\ [r EXCEPT !.st = "revoked"].st = "revoked"
  BY Zenon DEF Runtime!CredentialLease
<1> QED
  BY ONLY <1>1, <1>2, rows \in [GitTokens -> Runtime!CredentialLease], Zenon

\* A step of the broker leaves the sessions alone, and records a lease of the
\* current generation only.
LEMMA BrokerStep ==
  ASSUME RuntimeInv, UNCHANGED <<boot, ws, session, refresher, revoker, torn>>,
         token' \in [GitTokens -> {"none", "minted", "delivered", "revoked"}],
         lease' \in [GitTokens -> Runtime!CredentialLease],
         \A t \in GitTokens : lease'[t] = lease[t] \/ lease'[t].gen = ws.gen,
         exch' \in [Exchanges -> Exchange],
         cache' \in [holder : {"none"} \cup Exchanges, entry : Runtime!BrokerKey],
         ShardSound'
  PROVE  RuntimeInv'
<1>1. RuntimeTyped'
  BY Zenon DEF RuntimeInv, RuntimeTyped
<1>2. GenerationsCurrent'
  BY Zenon DEF RuntimeInv, GenerationsCurrent
<1>3. OriginsSpent'
  BY DEF RuntimeInv, OriginsSpent
<1> QED
  BY ONLY <1>1, <1>2, <1>3, ShardSound', Zenon DEF RuntimeInv

\* A step outside the broker.
LEMMA ScopeStep ==
  ASSUME RuntimeInv, UNCHANGED <<token, exch, cache>>,
         boot' \in [Bootstraps -> {"none", "live", "consumed", "revoked"}],
         ws' \in Runtime!RuntimeScope,
         session' \in [Sessions -> Runtime!RuntimeCredential],
         refresher' \in [Clients -> {0} \cup Sessions],
         revoker' \in {"idle", "bumped", "credentials"}, torn' \in BOOLEAN,
         lease' \in [GitTokens -> Runtime!CredentialLease],
         GenerationsCurrent', OriginsSpent'
  PROVE  RuntimeInv'
<1>1. RuntimeTyped'
  BY Zenon DEF RuntimeInv, RuntimeTyped
<1>2. ShardSound'
  BY Zenon DEF RuntimeInv, ShardSound, ExchangeSound
<1> QED
  BY ONLY <1>1, <1>2, GenerationsCurrent', OriginsSpent', Zenon DEF RuntimeInv

\* A session minted at the current generation from a secret that no session was
\* minted from, and that is spent by the step.
LEMMA SessionMinted ==
  ASSUME RuntimeTyped, OriginsSpent, NEW rows \in [Sessions -> Runtime!RuntimeCredential],
         NEW s \in Sessions, NEW row \in Runtime!RuntimeCredential,
         session[s].st = "none", row.st = "live", row.from # <<"none", 0>>,
         session' = [rows EXCEPT ![s] = row],
         \A q \in Sessions : rows[q] = session[q] \/
            (session[q].st = "live" /\ rows[q].st = "revoked" /\ rows[q].from = session[q].from),
         \A q \in Sessions : session[q].from # row.from,
         \A b \in Bootstraps : (boot[b] = "consumed" \/ row.from = <<"bootstrap", b>>) =>
            boot'[b] = "consumed",
         \A q \in Sessions : row.from = <<"refresh", q>> => q # s /\ rows[q].st = "revoked"
  PROVE  OriginsSpent'
<1>1. /\ session' \in [Sessions -> Runtime!RuntimeCredential] /\ session'[s] = row
      /\ \A q \in Sessions \ {s} : session'[q] = rows[q]
  BY Zenon
<1>2. \A q \in Sessions \ {s} : /\ session'[q].from = session[q].from
                                /\ session'[q].st = "none" <=> session[q].st = "none"
                                /\ session[q].st = "revoked" => session'[q].st = "revoked"
  BY <1>1, Zenon
<1>3. /\ \A q \in Sessions : session[q].st = "none" <=> session[q].from = <<"none", 0>>
      /\ \A q \in Sessions, b \in Bootstraps :
            session[q].from = <<"bootstrap", b>> => boot[b] = "consumed"
      /\ \A q \in Sessions, p \in Sessions :
            session[q].from = <<"refresh", p>> => session[p].st = "revoked"
      /\ \A q, r \in Sessions :
            q # r /\ session[q].st # "none" => session[q].from # session[r].from
  BY Zenon DEF OriginsSpent
<1>4. \A q \in Sessions : session'[q].st = "none" <=> session'[q].from = <<"none", 0>>
  BY <1>1, <1>2, <1>3
<1>5. ASSUME NEW q \in Sessions, NEW b \in Bootstraps, session'[q].from = <<"bootstrap", b>>
      PROVE  boot'[b] = "consumed"
  BY <1>1, <1>2, <1>3, <1>5
<1>6. ASSUME NEW q \in Sessions, NEW p \in Sessions, session'[q].from = <<"refresh", p>>
      PROVE  session'[p].st = "revoked"
  <2>1. CASE q = s
    BY <1>1, <1>6, <2>1
  <2>2. CASE q # s
    BY <1>2, <1>3, <1>6, <2>2
  <2> QED
    BY <2>1, <2>2, Zenon
<1>7. ASSUME NEW q \in Sessions, NEW r \in Sessions, q # r, session'[q].st # "none"
      PROVE  session'[q].from # session'[r].from
  BY <1>1, <1>2, <1>3, <1>7
<1> QED
  BY ONLY <1>4, <1>5, <1>6, <1>7, Zenon DEF OriginsSpent


\* Bootstraps are issued and become sessions.
LEMMA BootstrapStep ==
  ASSUME RuntimeInv, \/ Runtime!insert_bootstrap
                     \/ \E b \in Bootstraps : Runtime!consume_bootstrap_and_insert_session(b)
  PROVE  RuntimeInv'
<1>0. RuntimeTyped /\ GenerationsCurrent /\ OriginsSpent
  BY Zenon DEF RuntimeInv
<1>1. CASE Runtime!insert_bootstrap
  <2>1. /\ \E b \in Bootstraps : /\ boot[b] = "none"
           /\ boot' = [c \in Bootstraps |-> IF c = b THEN "live"
                         ELSE IF boot[c] = "live" THEN "revoked" ELSE boot[c]]
        /\ UNCHANGED <<ws, session, refresher, revoker, torn, token, lease, exch, cache>>
    BY <1>1, Zenon DEF Runtime!insert_bootstrap, Runtime!Unissued
  <2>2. /\ boot' \in [Bootstraps -> {"none", "live", "consumed", "revoked"}]
        /\ \A b \in Bootstraps : boot[b] = "consumed" => boot'[b] = "consumed"
    BY ONLY <1>0, <2>1, Zenon DEF RuntimeTyped
  <2>3. OriginsSpent'
    BY ONLY <1>0, <2>1, <2>2 DEF OriginsSpent
  <2>4. GenerationsCurrent'
    BY ONLY <1>0, <2>1, Zenon DEF GenerationsCurrent
  <2> QED
    BY <1>0, <2>1, <2>2, <2>3, <2>4, ScopeStep, Zenon DEF RuntimeTyped
<1>2. ASSUME NEW b \in Bootstraps, Runtime!consume_bootstrap_and_insert_session(b) PROVE RuntimeInv'
  <2>1. PICK s \in Runtime!Free(session, Sessions) :
           session' = [session EXCEPT ![s] =
                         [st |-> "live", gen |-> ws.gen, from |-> <<"bootstrap", b>>]]
    BY <1>2, Zenon DEF Runtime!consume_bootstrap_and_insert_session
  <2> DEFINE row == [st |-> "live", gen |-> ws.gen, from |-> <<"bootstrap", b>>]
  <2>2. /\ boot[b] = "live" /\ boot' = [boot EXCEPT ![b] = "consumed"]
        /\ ws' = [ws EXCEPT !.registered = TRUE]
        /\ UNCHANGED <<refresher, revoker, torn, token, lease, exch, cache>>
    BY <1>2, Zenon DEF Runtime!consume_bootstrap_and_insert_session
  <2>3. s \in Sessions /\ session[s].st = "none"
    BY <2>1, Zenon DEF Runtime!Free
  <2>4. ws.gen \in Runtime!Gens /\ ws' \in Runtime!RuntimeScope /\ ws'.gen = ws.gen
    BY ONLY <1>0, <2>2, Zenon DEF RuntimeTyped, Runtime!RuntimeScope
  <2>5. /\ row \in Runtime!RuntimeCredential /\ row.st = "live" /\ row.gen = ws.gen
        /\ row.from = <<"bootstrap", b>> /\ row.from # <<"none", 0>>
        /\ \A q : row.from # <<"refresh", q>>
    <3>1. <<"bootstrap", b>> \in Runtime!Origins
      BY Zenon DEF Runtime!Origins
    <3> QED
      BY ONLY <2>4, <3>1, Zenon DEF Runtime!RuntimeCredential
  <2> HIDE DEF row
  <2>6. session' = [session EXCEPT ![s] = row]
    BY <2>1, Zenon DEF row
  <2>7. \A q \in Sessions : session[q].from # row.from
    BY ONLY <1>0, <2>2, <2>5, b \in Bootstraps, Zenon DEF OriginsSpent
  <2>8. /\ session \in [Sessions -> Runtime!RuntimeCredential]
        /\ boot' \in [Bootstraps -> {"none", "live", "consumed", "revoked"}]
        /\ \A d \in Bootstraps :
              boot[d] = "consumed" \/ row.from = <<"bootstrap", d>> => boot'[d] = "consumed"
    BY ONLY <1>0, <2>2, <2>5, b \in Bootstraps DEF RuntimeTyped
  <2>9. OriginsSpent'
    <3>1. /\ \A q \in Sessions : session[q] = session[q] \/
               (/\ session[q].st = "live" /\ session[q].st = "revoked"
                /\ session[q].from = session[q].from)
          /\ \A q \in Sessions : row.from = <<"refresh", q>> => q # s /\ session[q].st = "revoked"
      BY ONLY <2>5, Zenon
    <3> QED
      BY ONLY <1>0, <2>3, <2>5, <2>6, <2>7, <2>8, <3>1, SessionMinted, Zenon
  <2>10. session' \in [Sessions -> Runtime!RuntimeCredential]
    BY ONLY <2>5, <2>6, <2>8, Zenon
  <2>11. GenerationsCurrent'
    BY ONLY <1>0, <2>2, <2>3, <2>4, <2>5, <2>6, <2>8, Zenon DEF GenerationsCurrent
  <2>12. /\ refresher' \in [Clients -> {0} \cup Sessions]
         /\ revoker' \in {"idle", "bumped", "credentials"} /\ torn' \in BOOLEAN
         /\ lease' \in [GitTokens -> Runtime!CredentialLease]
    BY ONLY <1>0, <2>2, Zenon DEF RuntimeTyped
  <2> QED
    BY ONLY RuntimeInv, <2>2, <2>4, <2>8, <2>9, <2>10, <2>11, <2>12, ScopeStep, Zenon
<1> QED
  BY <1>1, <1>2, Zenon

\* A refresh authenticates and rotates.
LEMMA RefreshStep ==
  ASSUME RuntimeNamed, RuntimeInv, NEW c \in Clients,
         (\E s \in Sessions : Runtime!refresh_session(c, s)) \/ Runtime!rotate_credential_pair(c)
  PROVE  RuntimeInv'
<1>0. RuntimeTyped /\ GenerationsCurrent /\ OriginsSpent
  BY Zenon DEF RuntimeInv
<1>1. ASSUME UNCHANGED <<boot, ws, session, revoker, torn, token, lease, exch, cache>>,
             refresher' \in [Clients -> {0} \cup Sessions]
      PROVE  RuntimeInv'
  <2>1. GenerationsCurrent'
    BY ONLY <1>0, <1>1, Zenon DEF GenerationsCurrent
  <2>2. OriginsSpent'
    BY ONLY <1>0, <1>1 DEF OriginsSpent
  <2> QED
    BY <1>0, <1>1, <2>1, <2>2, ScopeStep, Zenon DEF RuntimeTyped
<1>2. ASSUME NEW s \in Sessions, Runtime!refresh_session(c, s) PROVE RuntimeInv'
  BY <1>0, <1>1, <1>2, Zenon DEF Runtime!refresh_session, RuntimeTyped
<1>3. CASE Runtime!rotate_credential_pair(c) /\ ~Runtime!Presented(refresher[c])
  BY <1>0, <1>1, <1>3, Zenon DEF Runtime!rotate_credential_pair, RuntimeTyped
<1>4. CASE Runtime!rotate_credential_pair(c) /\ Runtime!Presented(refresher[c])
  <2> DEFINE q == refresher[c]
             row == [st |-> "live", gen |-> ws.gen + 1, from |-> <<"refresh", q>>]
             rows == Runtime!Revoked(session)
  <2>1. /\ q # 0 /\ ws.gen < MaxGen /\ session[q].st = "live"
        /\ refresher' = [refresher EXCEPT ![c] = 0]
        /\ ws' = [ws EXCEPT !.gen = @ + 1] /\ lease' = Runtime!Revoked(lease) /\ torn' = FALSE
        /\ UNCHANGED <<boot, revoker, token, exch, cache>>
    BY <1>4, Zenon DEF Runtime!rotate_credential_pair, Runtime!Presented
  <2>2. PICK s \in Runtime!Free(session, Sessions) : session' = [rows EXCEPT ![s] = row]
    BY <1>4, Zenon DEF Runtime!rotate_credential_pair
  <2>3. s \in Sessions /\ session[s].st = "none"
    BY <2>2, Zenon DEF Runtime!Free
  <2>4. /\ session \in [Sessions -> Runtime!RuntimeCredential] /\ q \in Sessions
        /\ lease \in [GitTokens -> Runtime!CredentialLease]
        /\ refresher' \in [Clients -> {0} \cup Sessions] /\ torn' \in BOOLEAN
        /\ boot' \in [Bootstraps -> {"none", "live", "consumed", "revoked"}]
        /\ revoker' \in {"idle", "bumped", "credentials"}
    BY <1>0, <2>1, Zenon DEF RuntimeTyped
  <2>5. ws.gen + 1 \in Runtime!Gens /\ ws' \in Runtime!RuntimeScope /\ ws'.gen = ws.gen + 1
    <3>1. ws \in Runtime!RuntimeScope /\ MaxGen \in Nat
      BY <1>0, Zenon DEF RuntimeTyped, RuntimeNamed
    <3>2. ws.gen + 1 \in Runtime!Gens
      BY ONLY <2>1, <3>1 DEF Runtime!RuntimeScope, Runtime!Gens
    <3> QED
      BY ONLY <2>1, <3>1, <3>2, Zenon DEF Runtime!RuntimeScope
  <2>6. /\ row \in Runtime!RuntimeCredential /\ row.st = "live" /\ row.gen = ws.gen + 1
        /\ row.from = <<"refresh", q>> /\ row.from # <<"none", 0>>
        /\ \A b : row.from # <<"bootstrap", b>>
    <3>1. <<"refresh", q>> \in Runtime!Origins
      BY <2>4, Zenon DEF Runtime!Origins
    <3> QED
      BY ONLY <2>5, <3>1, Zenon DEF Runtime!RuntimeCredential
  <2>7. /\ rows \in [Sessions -> Runtime!RuntimeCredential]
        /\ \A p \in Sessions : rows[p] = session[p] \/
             (session[p].st = "live" /\ rows[p].st = "revoked" /\ rows[p].from = session[p].from)
        /\ \A p \in Sessions : rows[p].st # "live"
        /\ rows[q].st = "revoked"
    BY ONLY <2>1, <2>4, RevokedSessions
  <2> HIDE DEF row, rows, q
  <2>8. \A p \in Sessions : session[p].from # row.from
    BY ONLY <1>0, <2>1, <2>4, <2>6 DEF OriginsSpent
  <2>9. /\ \A b \in Bootstraps : (boot[b] = "consumed" \/ row.from = <<"bootstrap", b>>) =>
            boot'[b] = "consumed"
        /\ \A p \in Sessions : row.from = <<"refresh", p>> => p # s /\ rows[p].st = "revoked"
    BY ONLY <2>1, <2>3, <2>4, <2>6, <2>7
  <2>10. OriginsSpent'
    BY ONLY <1>0, <2>2, <2>3, <2>6, <2>7, <2>8, <2>9, SessionMinted
  <2>11. /\ lease' \in [GitTokens -> Runtime!CredentialLease]
         /\ \A t \in GitTokens : lease'[t].st # "live"
    BY ONLY <2>1, <2>4, RevokedLeases, Zenon
  <2>12. /\ session' \in [Sessions -> Runtime!RuntimeCredential]
         /\ \A p \in Sessions : session'[p].st = "live" => session'[p].gen = ws.gen + 1
    BY ONLY <2>2, <2>3, <2>6, <2>7, Zenon
  <2>13. GenerationsCurrent'
    BY ONLY <2>5, <2>11, <2>12, Zenon DEF GenerationsCurrent
  <2> QED
    BY ONLY RuntimeInv, <2>1, <2>4, <2>5, <2>10, <2>11, <2>12, <2>13, ScopeStep, Zenon
<1> QED
  BY <1>2, <1>3, <1>4, Zenon

\* The statements of a revoke, its death, and the suspension of the connection.
LEMMA RevokeStep ==
  ASSUME RuntimeNamed, RuntimeInv,
         \/ Runtime!bump_workspace_generation \/ Runtime!revoke_workspace_credentials
         \/ Runtime!revoke_leases_for_workspace \/ Runtime!RevokeDies
         \/ Runtime!ConnectionSuspended
  PROVE  RuntimeInv'
<1>0. RuntimeTyped /\ GenerationsCurrent /\ OriginsSpent
  BY Zenon DEF RuntimeInv
<1>1. CASE Runtime!bump_workspace_generation
  <2>1. /\ ws.gen < MaxGen /\ revoker' = "bumped"
        /\ \E stop \in BOOLEAN : ws' = [ws EXCEPT !.gen = @ + 1, !.running = @ /\ ~stop]
        /\ UNCHANGED <<boot, session, refresher, torn, token, lease, exch, cache>>
    BY <1>1, Zenon DEF Runtime!bump_workspace_generation
  <2>2. ws' \in Runtime!RuntimeScope
    <3>1. ws \in Runtime!RuntimeScope /\ MaxGen \in Nat
      BY <1>0, Zenon DEF RuntimeTyped, RuntimeNamed
    <3>2. ws.gen + 1 \in Runtime!Gens
      BY ONLY <2>1, <3>1 DEF Runtime!RuntimeScope, Runtime!Gens
    <3>3. PICK stop \in BOOLEAN : ws' = [ws EXCEPT !.gen = @ + 1, !.running = @ /\ ~stop]
      BY <2>1, Zenon
    <3> DEFINE n == ws.gen + 1
    <3> DEFINE running == ws.running /\ ~stop
    <3>4. running \in BOOLEAN
      BY Zenon
    <3>5. ws' = [ws EXCEPT !.gen = n, !.running = running]
      BY ONLY <3>1, <3>3, Zenon DEF Runtime!RuntimeScope
    <3> HIDE DEF n, running
    <3>6. n \in Runtime!Gens
      BY <3>2, Zenon DEF n
    <3> QED
      BY ONLY <3>1, <3>4, <3>5, <3>6, Zenon DEF Runtime!RuntimeScope
  <2>3. GenerationsCurrent'
    BY ONLY <2>1, Zenon DEF GenerationsCurrent
  <2>4. OriginsSpent'
    BY ONLY <1>0, <2>1 DEF OriginsSpent
  <2> QED
    BY <1>0, <2>1, <2>2, <2>3, <2>4, ScopeStep, Zenon DEF RuntimeTyped
<1>2. CASE Runtime!revoke_workspace_credentials
  <2>1. /\ revoker' = "credentials" /\ session' = Runtime!Revoked(session)
        /\ UNCHANGED <<boot, ws, refresher, torn, token, lease, exch, cache>>
    BY <1>2, Zenon DEF Runtime!revoke_workspace_credentials
  <2>2. session \in [Sessions -> Runtime!RuntimeCredential]
    BY <1>0, Zenon DEF RuntimeTyped
  <2>3. /\ session' \in [Sessions -> Runtime!RuntimeCredential]
        /\ \A i \in Sessions : /\ session'[i].st # "live"
                               /\ session[i].st # "live" => session'[i] = session[i]
                               /\ session[i].st = "live" => session'[i].st = "revoked"
                               /\ session'[i].from = session[i].from
    BY ONLY <2>1, <2>2, RevokedSessions, Zenon
  <2>4. GenerationsCurrent'
    BY ONLY <2>1, <2>3, Zenon DEF GenerationsCurrent
  <2>5. OriginsSpent'
    BY ONLY <1>0, <2>1, <2>3 DEF OriginsSpent
  <2> QED
    BY <1>0, <2>1, <2>3, <2>4, <2>5, ScopeStep, Zenon DEF RuntimeTyped
<1>3. CASE Runtime!revoke_leases_for_workspace
  <2>1. /\ revoker = "credentials" /\ revoker' = "idle" /\ lease' = Runtime!Revoked(lease)
        /\ UNCHANGED <<boot, ws, session, refresher, torn, token, exch, cache>>
    BY <1>3, Zenon DEF Runtime!revoke_leases_for_workspace
  <2>2. lease \in [GitTokens -> Runtime!CredentialLease]
    BY <1>0, Zenon DEF RuntimeTyped
  <2>3. /\ lease' \in [GitTokens -> Runtime!CredentialLease]
        /\ \A t \in GitTokens : lease'[t].st # "live"
    BY ONLY <2>1, <2>2, RevokedLeases, Zenon
  <2>4. GenerationsCurrent'
    BY ONLY <1>0, <2>1, <2>3, Zenon DEF GenerationsCurrent
  <2>5. OriginsSpent'
    BY ONLY <1>0, <2>1, Zenon DEF OriginsSpent
  <2> QED
    BY <1>0, <2>1, <2>3, <2>4, <2>5, ScopeStep, Zenon DEF RuntimeTyped
<1>4. CASE Runtime!RevokeDies
  <2>1. /\ revoker' = "idle" /\ torn' = TRUE
        /\ UNCHANGED <<boot, ws, session, refresher, token, lease, exch, cache>>
    BY <1>4, Zenon DEF Runtime!RevokeDies
  <2>2. GenerationsCurrent'
    BY ONLY <2>1, Zenon DEF GenerationsCurrent
  <2>3. OriginsSpent'
    BY ONLY <1>0, <2>1 DEF OriginsSpent
  <2> QED
    BY <1>0, <2>1, <2>2, <2>3, ScopeStep, Zenon DEF RuntimeTyped
<1>5. CASE Runtime!ConnectionSuspended
  <2>1. /\ ws' = [ws EXCEPT !.connected = FALSE, !.connGen = 2]
        /\ UNCHANGED <<boot, session, refresher, revoker, torn, token, lease, exch, cache>>
    BY <1>5, Zenon DEF Runtime!ConnectionSuspended
  <2>2. ws \in Runtime!RuntimeScope
    BY <1>0, Zenon DEF RuntimeTyped
  <2>3. ws' \in Runtime!RuntimeScope /\ ws'.gen = ws.gen
    <3> DEFINE u == [ws EXCEPT !.connected = FALSE]
    <3>1. u \in Runtime!RuntimeScope /\ u.gen = ws.gen
      BY ONLY <2>2, Zenon DEF Runtime!RuntimeScope
    <3>2. ws' = [u EXCEPT !.connGen = 2]
      BY <2>1, Zenon
    <3> HIDE DEF u
    <3>3. 2 \in 1..2
      OBVIOUS
    <3> QED
      BY ONLY <3>1, <3>2, <3>3, Zenon DEF Runtime!RuntimeScope
  <2>4. GenerationsCurrent'
    BY ONLY <1>0, <2>1, <2>3, Zenon DEF GenerationsCurrent
  <2>5. OriginsSpent'
    BY ONLY <1>0, <2>1 DEF OriginsSpent
  <2> QED
    BY <1>0, <2>1, <2>3, <2>4, <2>5, ScopeStep, Zenon DEF RuntimeTyped
<1> QED
  BY <1>1, <1>2, <1>3, <1>4, <1>5, Zenon


\* What the steps of the broker write in the request.
LEMMA ExchangeRows ==
  ASSUME RuntimeNamed
  PROVE  /\ Runtime!NoExchange \in Exchange /\ Runtime!NoExchange.step = "idle"
         /\ Runtime!NoEntry \in Runtime!BrokerKey /\ Runtime!NoEntry.token = Runtime!NoToken
         /\ \A x \in Exchange, t \in GitTokens :
              /\ [x EXCEPT !.step = "token", !.token = t] \in Exchange
              /\ [x EXCEPT !.step = "token", !.token = t, !.existing = TRUE] \in Exchange
<1>1. 1 \in Runtime!Gens /\ 1 \in 1..2
  BY DEF RuntimeNamed, Runtime!Gens
<1>2. Runtime!NoExchange \in Exchange /\ Runtime!NoExchange.step = "idle"
  BY ONLY <1>1, Zenon DEF Runtime!NoExchange, Exchange
<1>3. Runtime!NoEntry \in Runtime!BrokerKey /\ Runtime!NoEntry.token = Runtime!NoToken
  BY ONLY <1>1, Zenon DEF Runtime!NoEntry, Runtime!BrokerKey, Runtime!NoToken
<1>4. ASSUME NEW x \in Exchange, NEW t \in GitTokens
      PROVE  /\ [x EXCEPT !.step = "token", !.token = t] \in Exchange
             /\ [x EXCEPT !.step = "token", !.token = t, !.existing = TRUE] \in Exchange
  <2> DEFINE u == [x EXCEPT !.step = "token"]
             v == [u EXCEPT !.token = t]
  <2>1. u \in Exchange
    BY ONLY <1>4, Zenon DEF Exchange
  <2> HIDE DEF u
  <2>2. v \in Exchange
    BY ONLY <1>4, <2>1, Zenon DEF Exchange
  <2> HIDE DEF v
  <2>3. [v EXCEPT !.existing = TRUE] \in Exchange
    BY ONLY <2>2, Zenon DEF Exchange
  <2> QED
    BY <2>2, <2>3, Zenon DEF u, v
<1> QED
  BY <1>2, <1>3, <1>4, Zenon

\* A request is authenticated and captures the generations.
LEMMA ValidateStep ==
  ASSUME RuntimeInv, NEW e \in Exchanges, NEW s \in Sessions,
         Runtime!validate_resource_state(e, s)
  PROVE  RuntimeInv'
<1> DEFINE x == [step |-> "scoped", by |-> s, gen |-> ws.gen, connGen |-> ws.connGen,
                 token |-> Runtime!NoToken, existing |-> FALSE]
<1>1. /\ exch[e].step = "idle" /\ exch' = [exch EXCEPT ![e] = x]
      /\ UNCHANGED <<boot, ws, session, refresher, revoker, torn, token, lease, cache>>
  BY Zenon DEF Runtime!validate_resource_state
<1>2. RuntimeTyped /\ ShardSound
  BY Zenon DEF RuntimeInv
<1>3. x \in Exchange /\ x.step = "scoped" /\ x.by = s /\ x.existing = FALSE
  <2>1. ws.gen \in Runtime!Gens /\ ws.connGen \in 1..2
    BY <1>2, Zenon DEF RuntimeTyped, Runtime!RuntimeScope
  <2> QED
    BY ONLY <2>1, s \in Sessions, Zenon DEF Exchange
<1> HIDE DEF x
<1>4. /\ exch \in [Exchanges -> Exchange] /\ exch' \in [Exchanges -> Exchange]
      /\ exch'[e] = x /\ \A f \in Exchanges \ {e} : exch'[f] = exch[f]
  BY <1>1, <1>2, <1>3, Zenon DEF RuntimeTyped
<1>5. ShardSound'
  BY ONLY <1>1, <1>2, <1>3, <1>4, s \in Sessions DEF ShardSound, ExchangeSound
<1> QED
  BY <1>1, <1>2, <1>4, <1>5, BrokerStep, Zenon DEF RuntimeTyped

\* A request takes the shard with the cached token or with a new one, or fails
\* at GitHub.
LEMMA TakeStep ==
  ASSUME RuntimeNamed, RuntimeInv, NEW e \in Exchanges, Runtime!exchange(e)
  PROVE  RuntimeInv'
<1>1. RuntimeTyped /\ ShardSound /\ "none" \notin Exchanges
  BY Zenon DEF RuntimeInv, RuntimeNamed
<1>2. /\ exch[e].step = "scoped" /\ cache.holder = "none"
      /\ UNCHANGED <<boot, ws, session, refresher, revoker, torn, lease>>
  BY Zenon DEF Runtime!exchange
<1>3. /\ exch \in [Exchanges -> Exchange] /\ lease \in [GitTokens -> Runtime!CredentialLease]
      /\ token \in [GitTokens -> {"none", "minted", "delivered", "revoked"}]
      /\ cache \in [holder : {"none"} \cup Exchanges, entry : Runtime!BrokerKey]
      /\ cache.entry \in Runtime!BrokerKey /\ cache.entry.token \in {Runtime!NoToken} \cup GitTokens
  BY <1>1, Zenon DEF RuntimeTyped, Runtime!BrokerKey
<1>4. /\ exch[e].by \in Sessions /\ ~exch[e].existing
      /\ \A f \in Exchanges : exch[f].step # "token"
  BY ONLY <1>1, <1>2, e \in Exchanges DEF ShardSound, ExchangeSound
<1>5. [cache EXCEPT !.holder = e] \in [holder : {"none"} \cup Exchanges, entry : Runtime!BrokerKey]
      /\ [cache EXCEPT !.holder = e].holder = e
      /\ [cache EXCEPT !.holder = e].entry = cache.entry
  BY ONLY <1>3, e \in Exchanges, Zenon
<1>6. CASE /\ Runtime!SameKey(e) /\ cache' = [cache EXCEPT !.holder = e] /\ token' = token
           /\ exch' = [exch EXCEPT ![e].step = "token", ![e].token = cache.entry.token,
                                   ![e].existing = TRUE]
  <2> DEFINE t == cache.entry.token
             x == [exch[e] EXCEPT !.step = "token", !.token = t, !.existing = TRUE]
  <2>1. t \in GitTokens /\ token[t] = "delivered"
    BY <1>1, <1>3, <1>6, Zenon DEF Runtime!SameKey, ShardSound
  <2>2. exch' = [exch EXCEPT ![e] = x]
    BY <1>3, <1>6, Zenon
  <2>3. /\ x \in Exchange /\ x.step = "token" /\ x.token = t /\ x.existing = TRUE
        /\ x.by = exch[e].by
    <3>1. exch[e] \in Exchange
      BY <1>3, Zenon
    <3>2. x \in Exchange
      BY <2>1, <3>1, ExchangeRows, Zenon
    <3> HIDE DEF t
    <3>3. x.step = "token" /\ x.token = t /\ x.existing = TRUE /\ x.by = exch[e].by
      BY ONLY <3>1, Zenon DEF Exchange
    <3> QED
      BY <3>2, <3>3, Zenon
  <2> HIDE DEF t, x
  <2>4. /\ exch' \in [Exchanges -> Exchange]
        /\ exch'[e] = x /\ \A f \in Exchanges \ {e} : exch'[f] = exch[f]
    BY ONLY <1>3, <2>2, <2>3, e \in Exchanges, Zenon
  <2>5. ShardSound'
    BY ONLY <1>1, <1>2, <1>4, <1>5, <1>6, <2>1, <2>3, <2>4 DEF ShardSound, ExchangeSound
  <2>6. cache' \in [holder : {"none"} \cup Exchanges, entry : Runtime!BrokerKey]
    BY ONLY <1>5, <1>6, Zenon
  <2> QED
    BY ONLY RuntimeInv, <1>2, <1>3, <1>6, <2>4, <2>5, <2>6, BrokerStep, Zenon
<1>7. ASSUME NEW t \in GitTokens, token[t] = "none", cache' = [cache EXCEPT !.holder = e],
             token' = [token EXCEPT ![t] = "minted"],
             exch' = [exch EXCEPT ![e].step = "token", ![e].token = t]
      PROVE  RuntimeInv'
  <2> DEFINE x == [exch[e] EXCEPT !.step = "token", !.token = t]
  <2>1. exch' = [exch EXCEPT ![e] = x]
    BY <1>3, <1>7, Zenon
  <2>2. /\ x \in Exchange /\ x.step = "token" /\ x.token = t /\ x.existing = exch[e].existing
        /\ x.by = exch[e].by
    <3>1. exch[e] \in Exchange
      BY <1>3, Zenon
    <3>2. x \in Exchange
      BY <3>1, <1>7, ExchangeRows, Zenon
    <3>3. x.step = "token" /\ x.token = t /\ x.existing = exch[e].existing /\ x.by = exch[e].by
      BY ONLY <3>1, Zenon DEF Exchange
    <3> QED
      BY <3>2, <3>3, Zenon
  <2> HIDE DEF x
  <2>3. /\ exch' \in [Exchanges -> Exchange]
        /\ exch'[e] = x /\ \A f \in Exchanges \ {e} : exch'[f] = exch[f]
    BY ONLY <1>3, <2>1, <2>2, e \in Exchanges, Zenon
  <2>4. /\ token' \in [GitTokens -> {"none", "minted", "delivered", "revoked"}]
        /\ token'[t] = "minted"
        /\ cache.entry.token # Runtime!NoToken => token'[cache.entry.token] = "delivered"
    BY ONLY <1>1, <1>3, <1>7, Zenon DEF ShardSound
  <2>5. ShardSound'
    <3>1. cache'.holder = e /\ cache'.entry = cache.entry /\ e # "none"
      BY ONLY <1>1, <1>5, <1>7, e \in Exchanges, Zenon
    <3>2. ExchangeSound(e)'
      BY ONLY <1>4, <1>7, <2>2, <2>3, <2>4, <3>1 DEF ExchangeSound
    <3>3. \A f \in Exchanges \ {e} : ExchangeSound(f)'
      BY ONLY <1>1, <1>4, <2>3, <3>1 DEF ShardSound, ExchangeSound
    <3> QED
      BY ONLY <2>4, <3>1, <3>2, <3>3, Zenon DEF ShardSound
  <2>6. cache' \in [holder : {"none"} \cup Exchanges, entry : Runtime!BrokerKey]
    BY ONLY <1>5, <1>7, Zenon
  <2> QED
    BY ONLY RuntimeInv, <1>2, <1>3, <2>3, <2>4, <2>5, <2>6, BrokerStep, Zenon
<1>8. CASE exch' = [exch EXCEPT ![e] = Runtime!NoExchange] /\ UNCHANGED <<cache, token>>
  <2>1. Runtime!NoExchange \in Exchange /\ Runtime!NoExchange.step = "idle"
    BY ExchangeRows, Zenon
  <2>2. /\ exch' \in [Exchanges -> Exchange]
        /\ exch'[e] = Runtime!NoExchange /\ \A f \in Exchanges \ {e} : exch'[f] = exch[f]
    BY ONLY <1>3, <1>8, <2>1, e \in Exchanges, Zenon
  <2>3. ShardSound'
    BY ONLY <1>1, <1>2, <1>8, <2>1, <2>2, e \in Exchanges DEF ShardSound, ExchangeSound
  <2> QED
    BY ONLY RuntimeInv, <1>2, <1>3, <1>8, <2>2, <2>3, BrokerStep, Zenon
<1> QED
  BY <1>6, <1>7, <1>8, Zenon DEF Runtime!exchange

\* The lease of an authorized request is of the current generation.
LEMMA LeaseRecorded ==
  ASSUME RuntimeInv, NEW e \in Exchanges, exch[e].step = "token",
         \/ lease' = lease
         \/ /\ Runtime!Authorized(e)
            /\ lease' = [lease EXCEPT ![exch[e].token] =
                           [st |-> "live", gen |-> exch[e].gen, connGen |-> exch[e].connGen]]
  PROVE  /\ lease' \in [GitTokens -> Runtime!CredentialLease]
         /\ \A t \in GitTokens : lease'[t] = lease[t] \/ lease'[t].gen = ws.gen
<1> DEFINE row == [st |-> "live", gen |-> exch[e].gen, connGen |-> exch[e].connGen]
<1>1. /\ lease \in [GitTokens -> Runtime!CredentialLease] /\ exch[e] \in Exchange
  BY Zenon DEF RuntimeInv, RuntimeTyped
<1>2. row \in Runtime!CredentialLease /\ row.gen = exch[e].gen
  BY ONLY <1>1, Zenon DEF Exchange, Runtime!CredentialLease
<1> HIDE DEF row
<1>3. CASE lease' = lease
  BY ONLY <1>1, <1>3, Zenon
<1>4. CASE Runtime!Authorized(e) /\ lease' = [lease EXCEPT ![exch[e].token] = row]
  <2>1. ws.gen = exch[e].gen
    BY <1>4, Zenon DEF Runtime!Authorized
  <2> QED
    BY ONLY <1>1, <1>2, <1>4, <2>1, Zenon
<1> QED
  BY <1>3, <1>4, Zenon DEF row

\* The request that has the shard ends, with a lease or with a failure.
LEMMA ExchangeEnds ==
  ASSUME RuntimeNamed, RuntimeInv, NEW e \in Exchanges,
         Runtime!record_authorized_lease(e) \/ Runtime!exchange_fails(e)
  PROVE  RuntimeInv' /\ \A t \in GitTokens : token[t] = "delivered" => token'[t] = "delivered"
<1>1. RuntimeTyped /\ ShardSound /\ "none" \notin Exchanges
  BY Zenon DEF RuntimeInv, RuntimeNamed
<1>2. /\ exch[e].step = "token" /\ exch' = [exch EXCEPT ![e] = Runtime!NoExchange]
      /\ UNCHANGED <<boot, ws, session, refresher, revoker, torn>>
  BY Zenon DEF Runtime!record_authorized_lease, Runtime!exchange_fails
<1>3. /\ exch \in [Exchanges -> Exchange] /\ exch[e] \in Exchange
      /\ token \in [GitTokens -> {"none", "minted", "delivered", "revoked"}]
  BY <1>1, Zenon DEF RuntimeTyped
<1>4. Runtime!NoExchange \in Exchange /\ Runtime!NoExchange.step = "idle"
      /\ Runtime!NoEntry \in Runtime!BrokerKey /\ Runtime!NoEntry.token = Runtime!NoToken
  BY ExchangeRows, Zenon
<1>5. /\ exch' \in [Exchanges -> Exchange]
      /\ exch'[e] = Runtime!NoExchange /\ \A f \in Exchanges \ {e} : exch'[f] = exch[f]
  BY ONLY <1>2, <1>3, <1>4, e \in Exchanges, Zenon
<1>6. /\ exch[e].token \in GitTokens /\ exch[e].by \in Sessions
      /\ token[exch[e].token] = IF exch[e].existing THEN "delivered" ELSE "minted"
      /\ \A f \in Exchanges \ {e} : exch[f].step # "token"
  BY ONLY <1>1, <1>2, e \in Exchanges DEF ShardSound, ExchangeSound
<1>7. /\ lease' \in [GitTokens -> Runtime!CredentialLease]
      /\ \A t \in GitTokens : lease'[t] = lease[t] \/ lease'[t].gen = ws.gen
  <2>1. \/ lease' = lease
        \/ /\ Runtime!Authorized(e)
           /\ lease' = [lease EXCEPT ![exch[e].token] =
                          [st |-> "live", gen |-> exch[e].gen, connGen |-> exch[e].connGen]]
    BY Zenon DEF Runtime!record_authorized_lease, Runtime!exchange_fails
  <2> QED
    BY <1>2, <2>1, LeaseRecorded, Zenon
<1>8. ASSUME NEW entry \in Runtime!BrokerKey, cache' = [holder |-> "none", entry |-> entry],
             token' \in [GitTokens -> {"none", "minted", "delivered", "revoked"}],
             entry.token # Runtime!NoToken => token'[entry.token] = "delivered"
      PROVE  RuntimeInv'
  <2>1. /\ cache' \in [holder : {"none"} \cup Exchanges, entry : Runtime!BrokerKey]
        /\ cache'.holder = "none" /\ cache'.entry = entry
    BY ONLY <1>8, Zenon
  <2>2. ShardSound'
    <3>1. ASSUME NEW f \in Exchanges PROVE ExchangeSound(f)'
      <4>1. CASE f = e
        BY ONLY <1>1, <1>4, <1>5, <2>1, <3>1, <4>1, Zenon DEF ExchangeSound
      <4>2. CASE f # e
        <5>1. ExchangeSound(f) /\ exch'[f] = exch[f] /\ exch[f].step # "token" /\ f # "none"
          BY <1>1, <1>5, <1>6, <3>1, <4>2, Zenon DEF ShardSound
        <5> QED
          BY ONLY <2>1, <5>1, Zenon DEF ExchangeSound
      <4> QED
        BY <4>1, <4>2, Zenon
    <3> QED
      BY ONLY <1>8, <2>1, <3>1, Zenon DEF ShardSound
  <2> QED
    BY ONLY RuntimeInv, <1>2, <1>5, <1>7, <1>8, <2>1, <2>2, BrokerStep, Zenon
<1>9. CASE Runtime!record_authorized_lease(e)
  <2>1. /\ token' = [token EXCEPT ![exch[e].token] = "delivered"]
        /\ cache' = [holder |-> "none", entry |-> Runtime!Entry(e)]
    BY <1>9, Zenon DEF Runtime!record_authorized_lease
  <2>2. Runtime!Entry(e) \in Runtime!BrokerKey /\ Runtime!Entry(e).token = exch[e].token
    BY ONLY <1>3, <1>6, Zenon DEF Runtime!Entry, Runtime!BrokerKey, Exchange
  <2>3. /\ token' \in [GitTokens -> {"none", "minted", "delivered", "revoked"}]
        /\ token'[exch[e].token] = "delivered"
        /\ \A t \in GitTokens : token[t] = "delivered" => token'[t] = "delivered"
    BY ONLY <1>3, <1>6, <2>1, Zenon
  <2> QED
    BY ONLY <1>8, <2>1, <2>2, <2>3, Zenon
<1>10. CASE Runtime!exchange_fails(e)
  <2>1. /\ cache' = [holder |-> "none", entry |-> Runtime!NoEntry]
        /\ token' = IF ~exch[e].existing THEN [token EXCEPT ![exch[e].token] = "revoked"] ELSE token
    BY <1>10, Zenon DEF Runtime!exchange_fails, Runtime!ClearedEntry, Runtime!MintedHere
  <2>2. /\ token' \in [GitTokens -> {"none", "minted", "delivered", "revoked"}]
        /\ \A t \in GitTokens : token[t] = "delivered" => token'[t] = "delivered"
    BY ONLY <1>3, <1>6, <2>1, Zenon
  <2> QED
    BY ONLY <1>4, <1>8, <2>1, <2>2, Zenon
<1> QED
  BY <1>9, <1>10, Zenon

\* Every step of RuntimeAccess preserves the invariant.
LEMMA NextRuntime ==
  ASSUME RuntimeNamed, RuntimeInv, [Runtime!Next]_(Runtime!vars) PROVE RuntimeInv'
<1>1. CASE UNCHANGED Runtime!vars
  <2>1. UNCHANGED <<boot, ws, session, refresher, revoker, torn, token, lease, exch, cache>>
    BY <1>1, Zenon DEF Runtime!vars
  <2>2. RuntimeTyped /\ GenerationsCurrent /\ OriginsSpent /\ ShardSound
    BY Zenon DEF RuntimeInv
  <2>3. RuntimeTyped' /\ GenerationsCurrent'
    BY ONLY <2>1, <2>2, Zenon DEF RuntimeTyped, GenerationsCurrent
  <2>4. OriginsSpent'
    BY ONLY <2>1, <2>2 DEF OriginsSpent
  <2>5. ShardSound'
    BY ONLY <2>1, <2>2, Zenon DEF ShardSound, ExchangeSound
  <2> QED
    BY ONLY <2>3, <2>4, <2>5, Zenon DEF RuntimeInv
<1> QED
  BY <1>1, BootstrapStep, RefreshStep, RevokeStep, ValidateStep, TakeStep, ExchangeEnds, Zenon
     DEF Runtime!Next

\* The invariant holds whatever requests, refreshes and revocations race.
THEOREM RuntimeInvAlways == ASSUME RuntimeNamed PROVE Runtime!Spec => []RuntimeInv
<1>1. Runtime!Init => RuntimeInv
  BY InitRuntime, Zenon
<1>2. RuntimeInv /\ [Runtime!Next]_(Runtime!vars) => RuntimeInv'
  BY NextRuntime, Zenon
<1> QED
  BY <1>1, <1>2, PTL DEF Runtime!Spec

\* The credentials, leases, requests and the shard have their types.
THEOREM RuntimeTypeCorrect == ASSUME RuntimeNamed PROVE Runtime!Spec => []Runtime!TypeOK
<1>1. RuntimeInv => Runtime!TypeOK
  BY Zenon DEF RuntimeInv, RuntimeTyped, ShardSound, ExchangeSound, Runtime!TypeOK
<1> QED
  BY <1>1, RuntimeInvAlways, PTL

\* Once a revoke or a refresh is over, no credential and no lease of an earlier
\* generation is unrevoked, whatever exchanges and refreshes were authenticated
\* before it (revoke, rotate_credential_pair, record_authorized_lease).
THEOREM RevocationIsComplete ==
  ASSUME RuntimeNamed PROVE Runtime!Spec => []Runtime!RevocationReachesAll
<1>1. RuntimeInv => Runtime!RevocationReachesAll
  BY Zenon DEF RuntimeInv, GenerationsCurrent, Runtime!RevocationReachesAll
<1> QED
  BY <1>1, RuntimeInvAlways, PTL

\* A bootstrap and a refresh credential mint one session each, however many
\* requests present them (consume_bootstrap_and_insert_session,
\* rotate_credential_pair).
THEOREM SecretsMintOnce == ASSUME RuntimeNamed PROVE Runtime!Spec => []Runtime!OneSessionPerSecret
<1>1. RuntimeInv => Runtime!OneSessionPerSecret
  BY Zenon DEF RuntimeInv, OriginsSpent, Runtime!OneSessionPerSecret
<1> QED
  BY <1>1, RuntimeInvAlways, PTL

\* The broker never serves a token that it has revoked at GitHub (exchange).
THEOREM CacheIsUsable ==
  ASSUME RuntimeNamed PROVE Runtime!Spec => []Runtime!CacheHoldsNoRevokedToken
<1>1. RuntimeInv => Runtime!CacheHoldsNoRevokedToken
  BY Zenon DEF RuntimeInv, ShardSound, ExchangeSound, Runtime!CacheHoldsNoRevokedToken
<1> QED
  BY <1>1, RuntimeInvAlways, PTL

\* No failing request revokes a token that another caller was given (exchange:
\* only a token minted by the request is revoked).
THEOREM DeliveredTokensSurvive ==
  ASSUME RuntimeNamed PROVE Runtime!Spec => [][Runtime!DeliveredTokensStayUsable]_(Runtime!vars)
<1>1. ASSUME RuntimeInv, [Runtime!Next]_(Runtime!vars)
      PROVE  [Runtime!DeliveredTokensStayUsable]_(Runtime!vars)
  <2>0. token \in [GitTokens -> {"none", "minted", "delivered", "revoked"}]
    BY <1>1, Zenon DEF RuntimeInv, RuntimeTyped
  <2>1. ASSUME token' = token PROVE Runtime!DeliveredTokensStayUsable
    BY <2>1, Zenon DEF Runtime!DeliveredTokensStayUsable
  <2>2. ASSUME NEW e \in Exchanges, Runtime!exchange(e) PROVE Runtime!DeliveredTokensStayUsable
    <3>1. \/ token' = token
          \/ \E t \in GitTokens : token[t] = "none" /\ token' = [token EXCEPT ![t] = "minted"]
      BY <2>2, Zenon DEF Runtime!exchange
    <3> QED
      BY ONLY <2>0, <3>1, Zenon DEF Runtime!DeliveredTokensStayUsable
  <2>3. ASSUME NEW e \in Exchanges,
               Runtime!record_authorized_lease(e) \/ Runtime!exchange_fails(e)
        PROVE  Runtime!DeliveredTokensStayUsable
    BY <1>1, <2>3, ExchangeEnds, Zenon DEF Runtime!DeliveredTokensStayUsable
  <2> QED
    BY <1>1, <2>1, <2>2, <2>3, Zenon
       DEF Runtime!Next, Runtime!insert_bootstrap, Runtime!consume_bootstrap_and_insert_session,
           Runtime!refresh_session, Runtime!rotate_credential_pair,
           Runtime!bump_workspace_generation, Runtime!revoke_workspace_credentials,
           Runtime!revoke_leases_for_workspace, Runtime!RevokeDies, Runtime!ConnectionSuspended,
           Runtime!validate_resource_state
<1> QED
  BY <1>1, RuntimeInvAlways, PTL DEF Runtime!Spec
=============================================================================
