---------------------------- MODULE TenantWorkspaces ----------------------------
(***************************************************************************)
(* One tenant of the manager, its Nexus and one worker workspace: the      *)
(* requests of users and of the Nexus (tenants/service.rs,                 *)
(* runtime/workspaces.rs) and the tenant worker that carries them out in   *)
(* Coder (provisioning/tenant_worker.rs).                                  *)
(*                                                                         *)
(* The lease discipline is that of module Operations.  Here an attempt is  *)
(* live while it holds its operation's lease, at most slots are, a stale   *)
(* one goes on until it meets a fenced write, and Coder is called between  *)
(* transactions.  Workspace      *)
(* names are deterministic, so a row has at most one workspace in Coder.   *)
(***************************************************************************)
EXTENDS Naturals, FiniteSets

CONSTANTS Attempts,   \* attempts that may be in flight at once
          MaxTries,   \* automatic attempts of an operation (8 in the code)
          MaxWorkers, \* max_workers_per_tenant
          MaxRequests,\* bound on the requests of users and of the Nexus
          MaxFaults   \* bound on crashes, lost leases and failed calls

VARIABLES tenantRow, wsRow, upstream, work, run, capacity, lostWork, mischief

vars == <<tenantRow, wsRow, upstream, work, run, capacity, lostWork, mischief>>

Rows == {"nexus", "worker"}
Kinds == {"provision", "create", "wstop", "wdelete", "start", "stop", "delete"}

Desired == {"none", "provisioning", "running", "paused", "stopped", "deleting", "deleted"}

(* att: coder_workspace_id is set; boot: a bootstrap is unused; sess: a refresh session is   *)
(* live; beat: the last heartbeat since the bootstrap was issued.                            *)
Workspace == [des : Desired, att : BOOLEAN, boot : BOOLEAN, sess : BOOLEAN,
              beat : {"none", "old", "fresh"}]
NoRow == [des |-> "none", att |-> FALSE, boot |-> FALSE, sess |-> FALSE, beat |-> "none"]
NewRow == [NoRow EXCEPT !.des = "provisioning"]

(* later: not due yet; dead: retryable but exhausted; closed: succeeded, failed, cancelled.  *)
Operation == [st : {"none", "queued", "later", "dead", "closed"}, tries : 0..MaxTries]

Idle == [k |-> "none", pc |-> "idle", live |-> FALSE, todo |-> {}]

(* slots: the organization's max_concurrent_provisioning_ops, 1 by default. *)
Init == /\ tenantRow \in [des : {"provisioning"}, obs : {"provisioning"}, slots : 1..2]
        /\ wsRow = [r \in Rows |-> NoRow]
        /\ upstream = [r \in Rows |-> [up |-> FALSE, on |-> FALSE]]
        /\ work = [k \in Kinds |-> [st |-> IF k = "provision" THEN "queued" ELSE "none",
                                    tries |-> 0]]
        /\ run = [a \in Attempts |-> Idle]
        /\ capacity = 0
        /\ lostWork = FALSE
        /\ mischief = 0

Settled(state) == [tenantRow EXCEPT !.des = state, !.obs = state]

(* A second slot counts as one of the troubles. *)
Fault == mischief + tenantRow.slots <= MaxFaults /\ mischief' = mischief + 1

Deleting == tenantRow.des \in {"deleting", "deleted"}
runtime_readiness_confirmed(r) == wsRow[r].sess /\ wsRow[r].beat # "none"
runtime_heartbeat_fresh(r) == wsRow[r].sess /\ wsRow[r].beat = "fresh"
runtime_session_pending_readiness(r) == wsRow[r].att /\ wsRow[r].sess

-----------------------------------------------------------------------------
(* Requests. *)

Queue(k) == /\ Cardinality({j \in Kinds : work[j].st # "none"}) <= MaxRequests
            /\ work' = [work EXCEPT ![k] = [st |-> "queued", tries |-> 0]]
Revoked(rows) == [r \in Rows |-> [rows[r] EXCEPT !.sess = FALSE]]
Request == UNCHANGED <<upstream, run, lostWork>>

Existing == Cardinality({r \in Rows \ {"nexus"} : wsRow[r].des \notin {"none", "deleted"}})
reserve_worker_capacity(n) ==
  /\ (IF Existing > capacity THEN Existing ELSE capacity) + n <= MaxWorkers
  /\ capacity' = capacity + n

(* The bearer is checked before the transaction: one revoked in between still goes through.  *)
authenticate(r) == wsRow[r].sess /\ ~Deleting /\ wsRow[r].des \notin {"deleting", "deleted"}
Authenticated(r) == \/ authenticate(r) /\ UNCHANGED mischief
                    \/ ~authenticate(r) /\ wsRow[r].beat # "none" /\ Fault

request_worker == /\ Authenticated("nexus")
                  /\ work["create"].st = "none"
                  /\ reserve_worker_capacity(1)
                  /\ wsRow' = [wsRow EXCEPT !["worker"] = NewRow]
                  /\ Queue("create")
                  /\ Request
                  /\ UNCHANGED tenantRow

deletion_started(r) == wsRow[r].des \in {"deleting", "deleted"}

mutate_worker(delete) ==
  LET k == IF delete THEN "wdelete" ELSE "wstop"
  IN  /\ Authenticated("nexus")
      /\ work[k].st = "none"
      /\ wsRow["worker"].des # "none" /\ ~deletion_started("worker")
      /\ wsRow' = [wsRow EXCEPT !["worker"].des = IF delete THEN "deleting" ELSE "stopped",
                                !["worker"].sess = FALSE]
      /\ Queue(k)
      /\ Request
      /\ UNCHANGED <<tenantRow, capacity>>

delete_tenant == /\ tenantRow.des # "deleted"
                 /\ work["delete"].st = "none"
                 /\ tenantRow' = [tenantRow EXCEPT !.des = "deleting"]
                 /\ wsRow' = Revoked(wsRow)
                 /\ Queue("delete")
                 /\ Request
                 /\ UNCHANGED <<capacity, mischief>>

start_tenant == /\ ~Deleting
                /\ work["start"].st = "none"
                /\ "provisioning" \notin {tenantRow.des, tenantRow.obs}
                /\ tenantRow' = [tenantRow EXCEPT !.des = "running"]
                /\ wsRow' = [r \in Rows |-> IF wsRow[r].des = "stopped"
                               THEN [wsRow[r] EXCEPT !.des = "running"] ELSE wsRow[r]]
                /\ Queue("start")
                /\ Request
                /\ UNCHANGED <<capacity, mischief>>

Stopped(rows) == [r \in Rows |-> IF rows[r].des \in {"none", "deleted"} THEN rows[r]
                                 ELSE [rows[r] EXCEPT !.des = "stopped"]]

stop_tenant == /\ ~Deleting
               /\ work["stop"].st = "none"
               /\ tenantRow' = [tenantRow EXCEPT !.des = "paused"]
               /\ wsRow' = Revoked(Stopped(wsRow))
               /\ Queue("stop")
               /\ Request
               /\ UNCHANGED <<capacity, mischief>>

-----------------------------------------------------------------------------
(* The workspaces themselves. *)

Agent == UNCHANGED <<upstream, work, run, capacity, lostWork>>

Register(r) == /\ upstream[r].up /\ upstream[r].on
               /\ wsRow[r].boot /\ ~Deleting /\ wsRow[r].des \notin {"deleting", "deleted"}
               /\ wsRow' = [wsRow EXCEPT ![r].boot = FALSE, ![r].sess = TRUE]
               /\ Agent
               /\ UNCHANGED <<tenantRow, mischief>>

heartbeat(r) == /\ upstream[r].up /\ upstream[r].on
                /\ authenticate(r) /\ wsRow[r].beat # "fresh"
                /\ wsRow' = [wsRow EXCEPT ![r].beat = "fresh"]
                /\ tenantRow' = IF r = "nexus" /\ tenantRow.des \in {"provisioning", "running"}
                                THEN [tenantRow EXCEPT !.obs = "running"] ELSE tenantRow
                /\ Agent
                /\ UNCHANGED mischief

(* A session that nobody refreshes expires. *)
Lapse(r) == /\ wsRow[r].sess /\ ~upstream[r].on
            /\ wsRow' = [wsRow EXCEPT ![r].sess = FALSE]
            /\ Agent
            /\ UNCHANGED <<tenantRow, mischief>>

Silence(r) == /\ wsRow[r].beat = "fresh"
              /\ wsRow' = [wsRow EXCEPT ![r].beat = "old"]
              /\ Fault
              /\ Agent
              /\ UNCHANGED tenantRow

-----------------------------------------------------------------------------
(* Attempts.  The step that claims an operation also makes the handler's first reads. *)

Claims(a, k) == /\ run[a] = Idle /\ \A b \in Attempts : run[b] = Idle => a <= b
                /\ work[k].st = "queued"
                /\ k = "delete" \/ work["delete"].st # "queued"
                /\ \A b \in Attempts : run[b].live => run[b].k # k
                /\ Cardinality({b \in Attempts : run[b].live}) < tenantRow.slots

(* The claim counts an attempt; waiting gives it back. *)
Exhausted(k) == work[k].tries + 1 >= MaxTries
Runs(a, k, pc, todo) ==
  /\ run' = [run EXCEPT ![a] = [k |-> k, pc |-> pc, live |-> TRUE, todo |-> todo]]
  /\ work' = [work EXCEPT ![k].tries = IF @ = MaxTries THEN @ ELSE @ + 1]

(* Only for a deletion does it matter that a retry is not due yet: it goes first. *)
Again(k) == IF k = "delete" THEN "later" ELSE "queued"
Sets(k, st) == work' = [work EXCEPT ![k].st = st] /\ UNCHANGED run
Closes(k) == Sets(k, "closed")
Waits(k) == Sets(k, Again(k))
Retries(k) == /\ work' = [work EXCEPT ![k] = IF Exhausted(k) THEN [st |-> "dead", tries |-> MaxTries]
                                            ELSE [st |-> Again(k), tries |-> @.tries + 1]]
              /\ UNCHANGED run

At(a, k, pc) == run[a].k = k /\ run[a].pc = pc
Go(a, pc) == run' = [run EXCEPT ![a].pc = pc]

(* A later step of a live attempt settles its operation; one of a stale attempt does not. *)
Ends(a) == run' = [run EXCEPT ![a] = Idle]
Settle(a, op) == work' = [work EXCEPT ![run[a].k] = IF run[a].live THEN op ELSE @]

Complete(a) == Ends(a) /\ Settle(a, [work[run[a].k] EXCEPT !.st = "closed"])
Wait(a) == Ends(a) /\ Settle(a, [st |-> Again(run[a].k), tries |-> work[run[a].k].tries - 1])
Retry(a) == Ends(a) /\ Settle(a, [work[run[a].k] EXCEPT !.st =
                                   IF work[run[a].k].tries = MaxTries THEN "dead" ELSE Again(run[a].k)])

(* A fenced write finds the lease gone, or the row in another state: the attempt stops and   *)
(* its operation stays claimable.                                                            *)
Stale(a) == Ends(a) /\ UNCHANGED work

Unchanged == UNCHANGED <<tenantRow, wsRow, upstream, capacity, lostWork, mischief>>

\* Mutant: a restarted workspace is given its consumed bootstrap again.
OldBootstrap(r) == wsRow

(* A new bootstrap, unless one is still unused. *)
Bootstrapped(r) == IF wsRow[r].boot THEN wsRow
                   ELSE [wsRow EXCEPT ![r].boot = TRUE, ![r].beat = "none"]

(* tenant.provision: the Nexus workspace.  Preparing finds the organization, its owner in    *)
(* Coder, Redis and the hook key; it may fail at each.                                       *)
Preparing == Retries("provision") /\ Fault /\ UNCHANGED wsRow

ensure_workspace == [wsRow EXCEPT !["nexus"] = NewRow]

(* Adopt a Nexus that beats, wait for one that is attached, else issue a bootstrap and create. *)
ReserveNexus(a) ==
  IF runtime_heartbeat_fresh("nexus")
  THEN Runs(a, "provision", "mark", {}) /\ UNCHANGED wsRow
  ELSE IF runtime_session_pending_readiness("nexus")
  THEN Retries("provision") /\ UNCHANGED wsRow
  ELSE IF wsRow["nexus"].att
  THEN Runs(a, "provision", "wait", {}) /\ UNCHANGED wsRow
  ELSE Runs(a, "provision", "create", {}) /\ wsRow' = Bootstrapped("nexus")

provision(a) ==
  /\ Claims(a, "provision")
  /\ IF tenantRow.des # "provisioning" THEN Closes("provision") /\ UNCHANGED <<wsRow, mischief>>
     ELSE \/ Preparing
          \/ /\ wsRow["nexus"].des = "none"
             /\ wsRow' = [ensure_workspace EXCEPT !["nexus"].boot = TRUE]
             /\ Runs(a, "provision", "create", {})
             /\ UNCHANGED mischief
          \/ wsRow["nexus"].des # "none" /\ ReserveNexus(a) /\ UNCHANGED mischief
  /\ UNCHANGED <<tenantRow, upstream, capacity, lostWork>>

NexusServes == wsRow["nexus"].des \notin {"deleted", "stopped"} /\ runtime_heartbeat_fresh("nexus")

(* A runtime that is up, or coming up, keeps its credentials; else the owner, the release's  *)
(* template and the parameters are resolved for a new build.                                 *)
BuildWorker(a) ==
  IF runtime_readiness_confirmed("worker")
  THEN Runs(a, "create", "mark", {}) /\ UNCHANGED wsRow
  ELSE IF runtime_session_pending_readiness("worker") THEN Waits("create") /\ UNCHANGED wsRow
  ELSE Runs(a, "create", "create", {}) /\ wsRow' = Bootstrapped("worker")

(* tenant.workspace: the worker's row must still be provisioning, and the tenant wanted. *)
provision_worker_workspace(a) ==
  /\ Claims(a, "create")
  /\ IF wsRow["worker"].des # "provisioning" THEN Retries("create") /\ UNCHANGED wsRow
     ELSE IF Deleting THEN Closes("create") /\ UNCHANGED wsRow
     ELSE IF ~NexusServes THEN Waits("create") /\ UNCHANGED wsRow
     ELSE BuildWorker(a)
  /\ UNCHANGED <<tenantRow, upstream, capacity, lostWork, mischief>>

RowOf(a) == IF run[a].k \in {"create", "wstop", "wdelete"} THEN "worker" ELSE "nexus"

(* Coder creates the workspace, or adopts the one of that name. *)
create_workspace(a) == /\ run[a].pc = "create"
                       /\ upstream' = [upstream EXCEPT ![RowOf(a)] = [up |-> TRUE, on |-> TRUE]]
                       /\ Go(a, "attach")
                       /\ UNCHANGED <<tenantRow, wsRow, work, capacity, lostWork, mischief>>

Attached(r) == wsRow' = [wsRow EXCEPT ![r].att = TRUE]

(* The Nexus id is written whether or not the lease is still held. *)
AttachNexus(a) == /\ At(a, "provision", "attach")
                  /\ Attached("nexus")
                  /\ IF run[a].live THEN Go(a, "wait") ELSE Ends(a)
                  /\ UNCHANGED <<tenantRow, upstream, work, capacity, lostWork, mischief>>

Superseded == Deleting \/ wsRow["worker"].des \in {"stopped", "deleting", "deleted"}

\* Mutant: the state of the row is read before the lease is checked.
AttachAnyway(a) ==
  /\ At(a, "create", "attach")
  /\ IF Superseded \/ wsRow["worker"].des # "provisioning" THEN Go(a, "cleanup") /\ UNCHANGED wsRow
     ELSE IF run[a].live THEN Go(a, "wait") /\ Attached("worker")
     ELSE Ends(a) /\ UNCHANGED wsRow
  /\ UNCHANGED <<tenantRow, upstream, work, capacity, lostWork, mischief>>

AttachWorker(a) ==
  /\ At(a, "create", "attach")
  /\ CASE ~run[a].live -> Ends(a) /\ UNCHANGED wsRow
       [] run[a].live /\ Superseded -> Go(a, "cleanup") /\ UNCHANGED wsRow
       [] run[a].live /\ ~Superseded /\ wsRow["worker"].des # "provisioning"
          -> Ends(a) /\ UNCHANGED wsRow
       [] OTHER -> Go(a, "wait") /\ Attached("worker")
  /\ UNCHANGED <<tenantRow, upstream, work, capacity, lostWork, mischief>>

Gone == [up |-> FALSE, on |-> FALSE]

complete_worker_creation_superseded(a) == /\ At(a, "create", "cleanup")
                                          /\ upstream' = [upstream EXCEPT !["worker"] = Gone]
                                          /\ Complete(a)
                                          /\ UNCHANGED <<tenantRow, wsRow, capacity, lostWork, mischief>>

(* Coder reports the build; the runtime is ready only once it has registered and beaten. *)
wait_ready(a) ==
  LET r == RowOf(a)
      ready == IF r = "nexus" THEN runtime_heartbeat_fresh(r) ELSE runtime_readiness_confirmed(r)
  IN  /\ run[a].pc = "wait"
      /\ \/ ready /\ Go(a, "mark") /\ UNCHANGED <<work, mischief>>
         \/ ~ready /\ Wait(a) /\ UNCHANGED mischief
         \/ Retry(a) /\ Fault                   \* the start script failed
      /\ UNCHANGED <<tenantRow, wsRow, upstream, capacity, lostWork>>

mark_tenant_running(a) ==
  /\ At(a, "provision", "mark")
  /\ CASE ~run[a].live -> Stale(a) /\ UNCHANGED <<tenantRow, wsRow>>
       [] run[a].live /\ tenantRow.des # "provisioning"
          -> Complete(a) /\ UNCHANGED <<tenantRow, wsRow>>
       [] OTHER -> /\ tenantRow' = Settled("running")
                   /\ wsRow' = [wsRow EXCEPT !["nexus"].des = "running"]
                   /\ Complete(a)
  /\ UNCHANGED <<upstream, capacity, lostWork, mischief>>

mark_worker_running(a) ==
  /\ At(a, "create", "mark")
  /\ IF run[a].live /\ wsRow["worker"].des = "provisioning"
     THEN Complete(a) /\ wsRow' = [wsRow EXCEPT !["worker"].des = "running"]
     ELSE Stale(a) /\ UNCHANGED wsRow
  /\ UNCHANGED <<tenantRow, upstream, capacity, lostWork, mischief>>

(* tenant.workspace.stop and tenant.workspace.delete. *)
mutate_worker_workspace(a, k) ==
  /\ Claims(a, k)
  /\ IF k = "wstop" /\ deletion_started("worker") THEN Closes(k)
     ELSE Runs(a, k, IF wsRow["worker"].att THEN "call" ELSE "write", {})
  /\ Unchanged

CallWorker(a) ==
  /\ run[a].k \in {"wstop", "wdelete"} /\ run[a].pc = "call"
  /\ \/ /\ upstream' = [upstream EXCEPT !["worker"] =
                        IF run[a].k = "wdelete" THEN Gone ELSE [@ EXCEPT !.on = FALSE]]
        /\ Go(a, "write")
        /\ UNCHANGED <<work, mischief>>
     \/ Retry(a) /\ Fault /\ UNCHANGED upstream
  /\ UNCHANGED <<tenantRow, wsRow, capacity, lostWork>>

ReleaseCapacity(a) == capacity' = IF /\ run[a].k = "wdelete"
                                     /\ wsRow["worker"].des = "deleting"
                                     /\ capacity > 0
                                  THEN capacity - 1 ELSE capacity

\* Mutant: the reservation is released outside the fence.
ReleaseUnfenced(a) ==
  /\ run[a].k \in {"wstop", "wdelete"} /\ run[a].pc = "write"
  /\ wsRow' = IF run[a].live /\ run[a].k = "wdelete" /\ wsRow["worker"].des = "deleting"
              THEN [wsRow EXCEPT !["worker"].des = "deleted"] ELSE wsRow
  /\ ReleaseCapacity(a)
  /\ Complete(a)
  /\ UNCHANGED <<tenantRow, upstream, lostWork, mischief>>

WriteWorker(a) ==
  /\ run[a].k \in {"wstop", "wdelete"} /\ run[a].pc = "write"
  /\ IF run[a].live
     THEN /\ wsRow' = IF run[a].k = "wdelete" /\ wsRow["worker"].des = "deleting"
                      THEN [wsRow EXCEPT !["worker"].des = "deleted"] ELSE wsRow
          /\ ReleaseCapacity(a)
     ELSE UNCHANGED <<wsRow, capacity>>
  /\ Complete(a)
  /\ UNCHANGED <<tenantRow, upstream, lostWork, mischief>>

-----------------------------------------------------------------------------
(* tenant.stop: stop what is attached, then write every row that is not deleted. *)
stop(a) == /\ Claims(a, "stop")
           /\ Runs(a, "stop", "call", {r \in Rows : wsRow[r].att /\ wsRow[r].des # "deleted"})
           /\ Unchanged

StopOne(a) == /\ At(a, "stop", "call")
              /\ \E r \in run[a].todo :
                   /\ upstream' = [upstream EXCEPT ![r].on = FALSE]
                   /\ run' = [run EXCEPT ![a].todo = @ \ {r}]
              /\ UNCHANGED <<tenantRow, wsRow, work, capacity, lostWork, mischief>>

WriteStopped(a) ==
  /\ At(a, "stop", "call") /\ run[a].todo = {}
  /\ IF run[a].live /\ tenantRow.des # "deleted"
     THEN /\ tenantRow' = Settled("paused")
          /\ wsRow' = [r \in Rows |-> IF wsRow[r].des \in {"none", "deleted"} THEN wsRow[r]
                                      ELSE [wsRow[r] EXCEPT !.des = "stopped", !.beat = "none"]]
          /\ Complete(a)
     ELSE Stale(a) /\ UNCHANGED <<tenantRow, wsRow>>
  /\ UNCHANGED <<upstream, capacity, lostWork, mischief>>

(* tenant.start: the first attached row that is not beating, the Nexus before the workers. *)
ToStart == {r \in Rows : /\ wsRow[r].att /\ wsRow[r].des # "deleted"
                         /\ ~runtime_heartbeat_fresh(r)
                         /\ r = "nexus" \/ runtime_heartbeat_fresh("nexus")}

start(a) ==
  /\ Claims(a, "start")
  /\ \/ tenantRow.des # "running" /\ Closes("start") /\ UNCHANGED wsRow
     \/ /\ tenantRow.des = "running"
        /\ \E r \in ToStart : IF runtime_session_pending_readiness(r)
                              THEN Waits("start") /\ UNCHANGED wsRow
                              ELSE wsRow' = Bootstrapped(r) /\ Runs(a, "start", "call", {r})
     \/ /\ tenantRow.des = "running" /\ ToStart = {}
        /\ IF runtime_heartbeat_fresh("nexus") THEN Runs(a, "start", "write", {}) ELSE Waits("start")
        /\ UNCHANGED wsRow
  /\ UNCHANGED <<tenantRow, upstream, capacity, lostWork, mischief>>

StartOne(a) == /\ At(a, "start", "call")
               /\ \E r \in run[a].todo :
                    \/ /\ upstream[r].up
                       /\ upstream' = [upstream EXCEPT ![r].on = TRUE]
                       /\ Wait(a)
                    \/ ~upstream[r].up /\ Retry(a) /\ UNCHANGED upstream
               /\ UNCHANGED <<tenantRow, wsRow, capacity, lostWork, mischief>>

WriteStarted(a) == /\ At(a, "start", "write")
                   /\ IF run[a].live /\ ~Deleting
                      THEN tenantRow' = Settled("running") /\ Complete(a)
                      ELSE Stale(a) /\ UNCHANGED tenantRow
                   /\ UNCHANGED <<wsRow, upstream, capacity, lostWork, mischief>>

-----------------------------------------------------------------------------
(* tenant.delete. *)

\* Mutant: a creation that failed and is not retried any more still counts.
UnfinishedForGood == work["create"].st \in {"queued", "dead"}

\* Mutant: deletion does not wait for worker creations.
NoneUnfinished == FALSE

UnfinishedCreation == work["create"].st = "queued"

delete(a) ==
  /\ Claims(a, "delete")
  /\ IF UnfinishedCreation THEN Waits("delete")
     ELSE /\ run' = [run EXCEPT ![a] = [k |-> "delete", pc |-> "call", live |-> TRUE,
                                       todo |-> {r \in Rows : wsRow[r].att}]]
          /\ work' = [work EXCEPT !["create"].st = IF @ = "dead" THEN "closed" ELSE @,
                                  !["delete"].tries = IF @ = MaxTries THEN @ ELSE @ + 1]
  /\ Unchanged

DeleteOne(a) ==
  /\ At(a, "delete", "call")
  /\ \E r \in run[a].todo :
       \/ /\ upstream' = [upstream EXCEPT ![r] = Gone]
          /\ run' = [run EXCEPT ![a].todo = @ \ {r}]
          /\ UNCHANGED <<work, mischief>>
       \/ Retry(a) /\ Fault /\ UNCHANGED upstream
  /\ UNCHANGED <<tenantRow, wsRow, capacity, lostWork>>

WriteDeleted(a) ==
  /\ At(a, "delete", "call") /\ run[a].todo = {}
  /\ IF run[a].live
     THEN /\ tenantRow' = Settled("deleted")
          /\ wsRow' = [r \in Rows |-> IF wsRow[r].des = "none" THEN NoRow
                                      ELSE [NoRow EXCEPT !.des = "deleted"]]
          /\ capacity' = 0
          /\ Complete(a)
     ELSE Stale(a) /\ UNCHANGED <<tenantRow, wsRow, capacity>>
  /\ UNCHANGED <<upstream, lostWork, mischief>>

-----------------------------------------------------------------------------
(* Time and faults. *)

(* A deletion is due again, also one that is exhausted while its tenant is deleting. *)
Due == /\ \/ work["delete"].st = "later"
          \/ work["delete"].st = "dead" /\ tenantRow.des = "deleting"
       /\ work' = [work EXCEPT !["delete"].st = "queued"]
       /\ UNCHANGED run
       /\ Unchanged

(* The worker dies.  A workspace made and not yet attached is known to nobody. *)
Crash(a) == /\ run[a].live
            /\ Fault
            /\ Ends(a)
            /\ lostWork' = (lostWork \/ run[a].pc \in {"attach", "cleanup"})
            /\ UNCHANGED <<tenantRow, wsRow, upstream, work, capacity>>

(* The worker stalls past its lease, before a call to Coder or a write that is not fenced;   *)
(* before a fenced one it comes to the same as a crash.                                      *)
LoseLease(a) == /\ run[a].live /\ run[a].pc \in {"create", "attach", "cleanup", "call"}
                /\ Fault
                /\ run' = [run EXCEPT ![a].live = FALSE]
                /\ lostWork' = (lostWork \/ run[a].pc \in {"create", "attach", "cleanup"})
                /\ UNCHANGED <<tenantRow, wsRow, upstream, work, capacity>>

Requests == \/ request_worker \/ mutate_worker(TRUE) \/ mutate_worker(FALSE)
            \/ delete_tenant \/ start_tenant \/ stop_tenant

Progress(a) == \/ provision(a) \/ provision_worker_workspace(a) \/ create_workspace(a)
               \/ AttachNexus(a) \/ AttachWorker(a) \/ complete_worker_creation_superseded(a)
               \/ wait_ready(a) \/ mark_tenant_running(a) \/ mark_worker_running(a)
               \/ mutate_worker_workspace(a, "wstop") \/ mutate_worker_workspace(a, "wdelete")
               \/ CallWorker(a) \/ WriteWorker(a)
               \/ stop(a) \/ StopOne(a) \/ WriteStopped(a)
               \/ start(a) \/ StartOne(a) \/ WriteStarted(a)
               \/ delete(a) \/ DeleteOne(a) \/ WriteDeleted(a)

Next == \/ Requests
        \/ \E r \in Rows : Register(r) \/ heartbeat(r) \/ Lapse(r) \/ Silence(r)
        \/ \E a \in Attempts : Progress(a) \/ Crash(a) \/ LoseLease(a)
        \/ Due

TypeOK == /\ tenantRow \in [des : Desired, obs : Desired, slots : 1..2]
          /\ wsRow \in [Rows -> Workspace]
          /\ upstream \in [Rows -> [up : BOOLEAN, on : BOOLEAN]]
          /\ work \in [Kinds -> Operation]
          /\ run \in [Attempts -> [k : Kinds \cup {"none"}, live : BOOLEAN, todo : SUBSET Rows,
                                   pc : {"idle", "create", "attach", "cleanup", "wait",
                                         "mark", "call", "write"}]]
          /\ capacity \in 0..MaxWorkers
          /\ lostWork \in BOOLEAN
          /\ mischief \in 0..MaxFaults

(* Workers poll without end, leases expire and agents that are up register and beat; a   *)
(* creation gets its turn between two looks of a deletion that waits for it, five seconds    *)
(* apart.  Nothing is assumed of stale attempts, requests or faults.                         *)
Claimed == \E a \in Attempts : run[a] = Idle /\ Progress(a)
Continued(a) == run[a].live /\ Progress(a)

SomeProvisions == \E a \in Attempts : provision_worker_workspace(a)

Fairness == /\ WF_vars(Claimed) /\ \A a \in Attempts : WF_vars(Continued(a))
            /\ WF_vars(Due)
            /\ SF_vars(SomeProvisions)
            /\ \A r \in Rows : WF_vars(Register(r) \/ heartbeat(r)) /\ WF_vars(Lapse(r))

Spec == Init /\ [][Next]_vars /\ Fairness

(* Tenant deletion (delete) reports success only once Coder holds none of its workspaces:    *)
(* it waits for creations that are under way.  Excepted is a manager worker that died or     *)
(* stalled between the call to Coder and the write of the id into the row (lostWork).        *)
(* The creation of the Nexus is not waited for: only the single slot keeps it apart.         *)
DeletedLeavesNothing ==
  (tenantRow.des = "deleted" /\ ~lostWork)
    => /\ ~upstream["worker"].up
       /\ tenantRow.slots = 1 => ~upstream["nexus"].up

(* A stale creation attempt never deletes a workspace that the next lease holder adopted and *)
(* marked running: without a stop or a deletion a running row has its workspace.             *)
RunningHasWorkspace ==
  (/\ wsRow["worker"].des = "running"
   /\ work["stop"].st = "none"
   /\ ~Deleting) => upstream["worker"].up

(* A tenant's reserved worker capacity is the number of its worker rows that are not deleted, *)
(* whichever of deletion, stop and stale attempts come in between.                            *)
CapacityMatchesRows == tenantRow.des # "deleted" => capacity = Existing

(* A requested deletion ends with the tenant deleted, exhausted attempts included, unless a  *)
(* stop was asked for as well: its late write takes the tenant out of deleting.              *)
NoDeletionDue == \/ work["delete"].st = "none"
                 \/ tenantRow.des = "deleted" \/ work["stop"].st # "none"
DeletionFinishes == []<>NoDeletionDue

(* A requested start ends, except for a tenant whose Nexus never got a workspace: there the  *)
(* operation waits for a heartbeat that nothing can send.                                    *)
NoStartDue == work["start"].st # "queued" \/ ~wsRow["nexus"].att
StartSettles == []<>NoStartDue
=============================================================================
