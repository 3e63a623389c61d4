------------------------------ MODULE A2ARelay ------------------------------
(***************************************************************************)
(* Delegated verification for one FORGE/SENTINEL pair: SENTINEL's `verify  *)
(* request`, the in-memory relay of NEXUS with its audit trail in Redis,   *)
(* and FORGE's `verify serve` executor, while the workers go on changing   *)
(* the ticket and the checkout.                                            *)
(*                                                                         *)
(* A command stands for the body of a VerifyRequest: it is the key under   *)
(* which the relay deduplicates, and does not name the candidate commit.   *)
(* Output, artifacts and progress streaming are left out; a result keeps   *)
(* its exit code (zero, nonzero or none) and its head.                     *)
(***************************************************************************)
EXTENDS LifecycleReducer, FiniteSets, TLC

CONSTANTS Tasks,        \* task ids, each used once
          Commands,     \* bodies of verify requests
          Sentinels,    \* concurrent `verify request` invocations
          Executors,    \* concurrent `verify serve` loops of the pair
          FirstHead,    \* the candidate in testing at the start
          RedisFails,   \* a write of the audit trail may fail unnoticed
          MaxVersion,   \* bound on the versions at which FORGE moves, SENTINEL asks
          MaxCancels,   \* bound on the tasks that are cancelled
          MaxFaults     \* bound on crashes, restarts and lost replies

Results == [exit : {"zero", "nonzero", "none"}, head : Option(Heads)]

\* TaskEntry
Entries ==
    [command : Commands, result : Option(Results),
     state : {"pending", "running", "completed", "cancelled"}]

ASSUME RelayAssumption ==
    /\ FirstHead \in Heads /\ RedisFails \in BOOLEAN
    /\ None \notin Tasks \cup Commands /\ None \notin Results /\ None \notin Entries

VARIABLES ticket,       \* the ticket record
          checkout,     \* head of FORGE's checkout, None while it is dirty
          tasks,        \* A2ARelay.tasks
          idempotency,  \* A2ARelay.idempotency
          cancels,      \* tasks/cancel handlers, between their awaits
          request,      \* audit:a2a:{task}:request
          result,       \* audit:a2a:{task}:result
          sentinel,     \* locals of verify_request
          exec,         \* locals of verify_serve
          issued,       \* task ids handed out
          passed,       \* what really ran: <<task, head>> that ended with exit 0
          faults        \* crashes, restarts and lost replies so far

relay == <<tasks, idempotency, cancels>>
audit == <<request, result>>
vars == <<ticket, checkout, tasks, idempotency, cancels, request, result,
          sentinel, exec, issued, passed, faults>>

\* Timed out, cancelled, or never started.
NoEvidence == [exit |-> "none", head |-> None]

InTesting ==
    [Default EXCEPT !.version = 4, !.phase = "testing", !.plan = "text",
                    !.revision = 1, !.review_round = 2, !.head = FirstHead,
                    !.plan_decision = UnboundVerdict("sentinel", 1, None)]

SentinelIdle == [pc |-> "idle", version |-> 0, head |-> None, command |-> None, task |-> None]
ExecIdle == [pc |-> "idle", task |-> None, command |-> None, head |-> None, result |-> None]

Init ==
    /\ ticket = InTesting /\ checkout = FirstHead
    /\ tasks = [t \in Tasks |-> None] /\ idempotency = [c \in Commands |-> None]
    /\ cancels = [t \in Tasks |-> "none"]
    /\ request = [t \in Tasks |-> None] /\ result = [t \in Tasks |-> None]
    /\ sentinel = [s \in Sentinels |-> SentinelIdle]
    /\ exec = [e \in Executors |-> ExecIdle]
    /\ issued = {} /\ passed = {} /\ faults = 0

Fault == faults < MaxFaults /\ faults' = faults + 1

\* SharedStore::set returns nothing: a failed write goes unnoticed.
Mirror(key, t, value) ==
    key' \in {[key EXCEPT ![t] = value]} \cup (IF RedisFails THEN {key} ELSE {})

Live(t) == tasks[t] # None /\ tasks[t].state \in {"pending", "running"}

\* get_task: a result in the audit trail outranks the state of a live task
\* and stands in for a task the relay has forgotten.
GetTask(t) ==
    LET audited(c) == [command |-> c, state |-> "completed", result |-> result[t]]
    IN  CASE tasks[t] # None /\ (tasks[t].result # None \/ result[t] = None) -> tasks[t]
          [] tasks[t] # None /\ tasks[t].result = None /\ result[t] # None ->
                audited(tasks[t].command)
          [] tasks[t] = None /\ request[t] # None /\ result[t] # None -> audited(request[t])
          [] tasks[t] = None /\ (request[t] = None \/ result[t] = None) -> None

(***************************************************************************)
(* SENTINEL: verify_request                                                *)
(***************************************************************************)
Request(s) ==
    /\ sentinel[s].pc = "idle"
    /\ ticket.phase = "testing" /\ ticket.head # None
    /\ ticket.version <= MaxVersion
    /\ \E c \in Commands :
         sentinel' = [sentinel EXCEPT ![s] =
             [pc |-> "submit", version |-> ticket.version, head |-> ticket.head,
              command |-> c, task |-> None]]
    /\ UNCHANGED <<ticket, checkout, relay, audit, exec, issued, passed, faults>>

\* Mutant: a retry always gets a task of its own.
ReusesNever(c) == FALSE

\* check_or_create_task: an identical request joins the task that is live.
Reuses(c) == idempotency[c] # None /\ Live(idempotency[c])

Created(c, t) ==
    /\ t \in Tasks \ issued
    /\ issued' = issued \cup {t}
    /\ tasks' = [tasks EXCEPT ![t] = [command |-> c, state |-> "pending", result |-> None]]
    /\ idempotency' = [idempotency EXCEPT ![c] = t]
    /\ Mirror(request, t, c)

Submit(s) ==
    /\ sentinel[s].pc = "submit"
    /\ LET c == sentinel[s].command
       IN  \E t \in Tasks :
             /\ IF Reuses(c)
                THEN t = idempotency[c] /\ UNCHANGED <<tasks, idempotency, request, issued>>
                ELSE Created(c, t)
             /\ \/ /\ sentinel' = [sentinel EXCEPT ![s].pc = "poll", ![s].task = t]
                   /\ UNCHANGED faults
                \/ Fault /\ sentinel' = [sentinel EXCEPT ![s] = SentinelIdle]
    /\ UNCHANGED <<ticket, checkout, cancels, result, exec, passed>>

\* Mutant: the head of the result is not compared with the candidate.
SatisfiesAnyHead(s, r) == r.exit = "zero"

Satisfies(s, r) == r.exit = "zero" /\ r.head = sentinel[s].head

Poll(s) ==
    /\ sentinel[s].pc = "poll"
    /\ LET entry == GetTask(sentinel[s].task)
       IN  /\ entry # None /\ entry.state = "completed"
           /\ sentinel' = [sentinel EXCEPT ![s] =
                 IF Satisfies(s, entry.result) THEN [@ EXCEPT !.pc = "record"]
                 ELSE SentinelIdle]
    /\ UNCHANGED <<ticket, checkout, relay, audit, exec, issued, passed, faults>>

\* The deadline passes, the relay does not know the task, or the call is killed.
GiveUp(s) ==
    /\ sentinel[s].pc # "idle"
    /\ sentinel' = [sentinel EXCEPT ![s] = SentinelIdle]
    /\ UNCHANGED <<ticket, checkout, relay, audit, exec, issued, passed, faults>>

RecordVerified(s) ==
    /\ sentinel[s].pc = "record"
    /\ LET ev == VerifiedEvent(sentinel[s].head, sentinel[s].task)
       IN  ticket' = IF ticket.version = sentinel[s].version /\ Accepts(ticket, "sentinel", ev)
                     THEN Apply(ticket, "sentinel", ev) ELSE ticket
    /\ sentinel' = [sentinel EXCEPT ![s] = SentinelIdle]
    /\ UNCHANGED <<checkout, relay, audit, exec, issued, passed, faults>>

(***************************************************************************)
(* FORGE: verify_serve, execute_verify_task                                *)
(***************************************************************************)
\* Mutant: the claimed task stays pending until it is completed.
ClaimLeavesPending(e) ==
    /\ exec[e].pc = "idle"
    /\ \E t \in {u \in Tasks : tasks[u] # None /\ tasks[u].state = "pending"} :
         exec' = [exec EXCEPT ![e] = [ExecIdle EXCEPT
                     !.pc = "claimed", !.task = t, !.command = tasks[t].command]]
    /\ UNCHANGED <<ticket, checkout, relay, audit, sentinel, issued, passed, faults>>

\* claim_next_task; when the reply is lost the task stays running.
Claim(e) ==
    /\ exec[e].pc = "idle"
    /\ \E t \in {u \in Tasks : tasks[u] # None /\ tasks[u].state = "pending"} :
         /\ tasks' = [tasks EXCEPT ![t].state = "running"]
         /\ \/ /\ exec' = [exec EXCEPT ![e] = [ExecIdle EXCEPT
                              !.pc = "claimed", !.task = t, !.command = tasks[t].command]]
               /\ UNCHANGED faults
            \/ Fault /\ UNCHANGED exec
    /\ UNCHANGED <<ticket, checkout, idempotency, cancels, audit, sentinel, issued, passed>>

\* Sandbox::create: a clone of the clean checkout.
Start(e) ==
    /\ exec[e].pc = "claimed" /\ checkout # None
    /\ exec' = [exec EXCEPT ![e].pc = "running", ![e].head = checkout]
    /\ UNCHANGED <<ticket, checkout, relay, audit, sentinel, issued, passed, faults>>

\* The command ends.  The result names the head if the sources in the clone
\* are unchanged and FORGE's checkout is still clean at that head.  The
\* executor writes the audit trail itself before it reports.
Finish(e) ==
    /\ exec[e].pc = "running"
    /\ \E exit \in {"zero", "nonzero"},
          head \in {None} \cup (IF checkout = exec[e].head THEN {checkout} ELSE {}) :
         LET r == [exit |-> exit, head |-> head]
         IN  /\ exec' = [exec EXCEPT ![e].pc = "complete", ![e].result = r]
             /\ Mirror(result, exec[e].task, r)
             /\ passed' = IF exit = "zero" THEN passed \cup {<<exec[e].task, exec[e].head>>}
                          ELSE passed
    /\ UNCHANGED <<ticket, checkout, relay, request, sentinel, issued, faults>>

\* No clean checkout, no process, a timeout or a cancellation.
NoResult(e) ==
    /\ exec[e].pc \in {"claimed", "running"}
    /\ exec' = [exec EXCEPT ![e].pc = "complete", ![e].result = NoEvidence]
    /\ UNCHANGED <<ticket, checkout, relay, audit, sentinel, issued, passed, faults>>

\* Mutant: the state is published without the mirror.
CompleteUnmirrored(e) ==
    /\ exec[e].pc = "complete"
    /\ exec' = [exec EXCEPT ![e].pc = "publish"]
    /\ UNCHANGED <<ticket, checkout, relay, audit, sentinel, issued, passed, faults>>

\* tasks/complete up to the mirror.  A task neither in memory nor in the audit
\* trail is refused; the executor does not retry.
Complete(e) ==
    /\ exec[e].pc = "complete"
    /\ LET t == exec[e].task
       IN  \/ /\ tasks[t] # None \/ request[t] # None
              /\ exec' = [exec EXCEPT ![e].pc = "publish"]
              /\ Mirror(result, t, exec[e].result)
           \/ /\ tasks[t] = None /\ request[t] = None
              /\ exec' = [exec EXCEPT ![e] = ExecIdle]
              /\ UNCHANGED result
    /\ UNCHANGED <<ticket, checkout, relay, request, sentinel, issued, passed, faults>>

\* The rest of complete_task, whatever state the task is in by now.
Publish(e) ==
    /\ exec[e].pc = "publish"
    /\ tasks' = [tasks EXCEPT ![exec[e].task] =
                    [command |-> exec[e].command, state |-> "completed",
                     result |-> exec[e].result]]
    /\ exec' = [exec EXCEPT ![e] = ExecIdle]
    /\ UNCHANGED <<ticket, checkout, idempotency, cancels, audit, sentinel, issued, passed, faults>>

ExecutorCrash(e) ==
    /\ exec[e].pc # "idle" /\ Fault
    /\ exec' = [exec EXCEPT ![e] = ExecIdle]
    /\ UNCHANGED <<ticket, checkout, relay, audit, sentinel, issued, passed>>

(***************************************************************************)
(* The relay: tasks/cancel, eviction, restart                              *)
(***************************************************************************)
CancelCheck(t) ==
    /\ cancels[t] = "none" /\ Cardinality({u \in Tasks : cancels[u] # "none"}) < MaxCancels
    /\ GetTask(t) # None /\ GetTask(t).state \in {"pending", "running"}
    /\ cancels' = [cancels EXCEPT ![t] = "mirror"]
    /\ UNCHANGED <<ticket, checkout, tasks, idempotency, audit, sentinel, exec, issued, passed, faults>>

CancelMirror(t) ==
    /\ cancels[t] = "mirror"
    /\ IF tasks[t] # None
       THEN Mirror(result, t, NoEvidence) /\ cancels' = [cancels EXCEPT ![t] = "publish"]
       ELSE UNCHANGED result /\ cancels' = [cancels EXCEPT ![t] = "done"]
    /\ UNCHANGED <<ticket, checkout, tasks, idempotency, request, sentinel, exec, issued, passed, faults>>

CancelPublish(t) ==
    /\ cancels[t] = "publish"
    /\ tasks' = [tasks EXCEPT ![t] =
                    IF @ = None THEN None
                    ELSE [@ EXCEPT !.state = "cancelled", !.result = NoEvidence]]
    /\ cancels' = [cancels EXCEPT ![t] = "done"]
    /\ UNCHANGED <<ticket, checkout, idempotency, audit, sentinel, exec, issued, passed, faults>>

\* Mutant: the task is dropped and its key is kept.
EvictKeepsKey(c) ==
    /\ idempotency[c] # None /\ tasks[idempotency[c]] # None /\ ~Live(idempotency[c])
    /\ tasks' = [tasks EXCEPT ![idempotency[c]] = None]
    /\ UNCHANGED <<ticket, checkout, idempotency, cancels, audit, sentinel, exec, issued,
                   passed, faults>>

\* cleanup_idempotency: a key whose task is not live, and the task, are dropped.
Evict(c) ==
    /\ idempotency[c] # None /\ ~Live(idempotency[c])
    /\ tasks' = [tasks EXCEPT ![idempotency[c]] = None]
    /\ idempotency' = [idempotency EXCEPT ![c] = None]
    /\ UNCHANGED <<ticket, checkout, cancels, audit, sentinel, exec, issued, passed, faults>>

\* The controller restarts: what the relay held in memory is gone, and so are
\* the calls it was serving.
Restart ==
    /\ Fault
    /\ tasks' = [t \in Tasks |-> None] /\ idempotency' = [c \in Commands |-> None]
    /\ cancels' = [t \in Tasks |-> IF cancels[t] = "none" THEN "none" ELSE "done"]
    /\ exec' = [e \in Executors |-> IF exec[e].pc = "publish" THEN ExecIdle ELSE exec[e]]
    /\ UNCHANGED <<ticket, checkout, audit, sentinel, issued, passed>>

(***************************************************************************)
(* FORGE works on.                                                         *)
(***************************************************************************)
Edit ==
    /\ checkout' \in Option(Heads) \ {checkout}
    /\ UNCHANGED <<ticket, relay, audit, sentinel, exec, issued, passed, faults>>

\* `status set`: rework, and a new candidate from a clean checkout.  (Verdicts
\* are left out: none of them touches the evidence of a candidate it keeps.)
Moves == {MoveEvent("building", None)} \cup {MoveEvent("testing", h) : h \in {checkout} \ {None}}

SetStatus ==
    /\ ticket.version < MaxVersion
    /\ \E ev \in Moves : Accepts(ticket, "forge", ev) /\ ticket' = Apply(ticket, "forge", ev)
    /\ UNCHANGED <<checkout, relay, audit, sentinel, exec, issued, passed, faults>>

Executor(e) == Claim(e) \/ Start(e) \/ Finish(e) \/ NoResult(e) \/ Complete(e) \/ Publish(e)

Next ==
    \/ \E s \in Sentinels :
          Request(s) \/ Submit(s) \/ Poll(s) \/ GiveUp(s) \/ RecordVerified(s)
    \/ \E e \in Executors : Executor(e) \/ ExecutorCrash(e)
    \/ \E t \in Tasks : CancelCheck(t) \/ CancelMirror(t) \/ CancelPublish(t)
    \/ \E c \in Commands : Evict(c)
    \/ Restart \/ Edit \/ SetStatus

Spec == Init /\ [][Next]_vars

\* Task ids, invocations of SENTINEL and executor loops are alike.
Symmetry ==
    Permutations(Tasks) \cup Permutations(Sentinels) \cup Permutations(Executors)

-----------------------------------------------------------------------------
\* Type invariant of the relay, the audit trail and the two clients; a
\* deduplication key maps to a task the relay still holds.
TypeOK ==
    /\ \A t \in Tasks :
        /\ tasks[t] \in Option(Entries)
        /\ request[t] \in Option(Commands) /\ result[t] \in Option(Results)
        /\ cancels[t] \in {"none", "mirror", "publish", "done"}
    /\ \A c \in Commands : idempotency[c] # None =>
          /\ idempotency[c] \in issued
          /\ tasks[idempotency[c]] # None /\ tasks[idempotency[c]].command = c
    /\ \A s \in Sentinels : sentinel[s].pc \in {"submit", "poll", "record"} =>
          sentinel[s].head \in Heads /\ sentinel[s].command \in Commands
    /\ \A e \in Executors : exec[e].pc # "idle" =>
          exec[e].task \in issued /\ exec[e].command \in Commands
    /\ ticket.verification_task \in Option(issued) /\ passed \subseteq issued \X Heads

\* The gate evidence is real: a ticket that says its candidate was verified by
\* a task names a task that ran to exit 0 on exactly that commit, whatever
\* was deduplicated, cancelled, lost, replayed from the audit trail or
\* reported late while the candidate changed.
EvidenceIsReal ==
    ticket.verified_head # None => <<ticket.verification_task, ticket.verified_head>> \in passed

\* However often an identical request is repeated, and whatever is evicted or
\* cancelled meanwhile, at most one task for it is pending or running.
OneLiveTask ==
    \A t, u \in Tasks :
        (Live(t) /\ Live(u) /\ tasks[t].command = tasks[u].command) => t = u

\* A task is never in the hands of two executors.
OneExecutorPerTask ==
    \A e, f \in Executors :
        (e # f /\ exec[e].task # None) => exec[e].task # exec[f].task

\* SENTINEL never sees a completed task whose result is not in the audit
\* trail (complete_task mirrors before it publishes).
CompletedIsDurable ==
    \A t \in Tasks : (tasks[t] # None /\ tasks[t].state = "completed") => result[t] # None

\* routing.rs calls audit:a2a:{task}:result an "immutable result artifact".
ImmutableResult ==
    [][ \A t \in Tasks : result[t] # None => result'[t] = result[t] ]_vars
=============================================================================
