--------------------------- MODULE TemplateReleases ---------------------------
(***************************************************************************)
(* Template releases and the organization they are published to            *)
(* (openflows-manager/src/templates, releases, provisioning/worker.rs,     *)
(* coder/adapter.rs, routes/platform_releases.rs).                         *)
(*                                                                         *)
(* A replica of the manager imports and approves the release it is         *)
(* configured with when it starts.  Its workers then run two kinds of      *)
(* operations: org.provision, which maps the organization to Coder, waits  *)
(* for its provisioner, publishes the release and marks the organization   *)
(* ready; and template.promote, which publishes the release and pins a     *)
(* running organization to it.  During a rolling deployment two replicas   *)
(* are configured with different releases.                                 *)
(*                                                                         *)
(* A worker here is one worker task of a replica, with one operation at a  *)
(* time.  Operations are the rows of the module Operations, reduced to     *)
(* what matters here: who holds the lease, and whether the row can be      *)
(* claimed; a failed one is retried, automatically or by hand, at any      *)
(* later time.  A lease may lapse under a live worker, which goes on until *)
(* a fenced write tells it so.  Coder refuses  *)
(* a second version of one name.  Whatever fails draws on MaxFaults.       *)
(***************************************************************************)
EXTENDS Integers, Sequences, FiniteSets

CONSTANTS Releases,     \* template releases, by manifest digest
          Roles,        \* the required roles of a manifest, 1..n
          Workers,      \* worker tasks
          ReleaseOf,    \* the release a worker's replica is configured with
          Running,      \* workers whose replica runs from the start, its release approved
          MaxImports,   \* imports of one release and role (3 in the code)
          MaxPromotions, MaxFaults,
          MaxMoves      \* retirements and deletions

VARIABLES release,   \* template_releases.status
          orgRec,    \* the organization, its publications and its current release
          oper,      \* the operation row of each kind
          version,   \* Coder's template versions of a release and role, oldest first
          task,      \* what each worker is doing
          approving, \* the release a platform operator's approval has read as staged
          budget     \* faults, promotion requests and moves so far

vars == <<release, orgRec, oper, version, task, approving, budget>>

Kinds == {"provision", "promote"}
NoRelease == 0
NoWorker == "none"

Idle == [at |-> "idle", kind |-> "provision", role |-> 0, seen |-> 0]
Down == [Idle EXCEPT !.at = "down"]

TypeOK ==
  /\ release \in [Releases -> {"absent", "staged", "approved", "retired"}]
  /\ orgRec \in [status : {"provisioning", "ready", "deleting"}, mapped : BOOLEAN,
                 provisioner : {"none", "provisioning", "ready", "unavailable"},
                 late : BOOLEAN, current : Releases \cup {NoRelease},
                 published : SUBSET (Releases \X Roles)]
  /\ oper \in [Kinds -> [state : {"none", "queued", "running", "stopped", "changed", "done"},
                         rel : Releases \cup {NoRelease}, holder : Workers \cup {NoWorker}]]
  /\ \A r \in Releases, i \in Roles : Len(version[r][i]) \in 0..(MaxImports + 1)
  /\ task \in [Workers -> [at : {"down", "imported", "idle", "start", "map", "upsert",
                                 "daemon", "list", "create", "import", "ready", "bind", "complete"},
                           kind : Kinds, role : Roles \cup {0}, seen : 0..(MaxImports + 1)]]
  /\ approving \in Releases \cup {NoRelease}
  /\ budget \in [faults : 0..MaxFaults, promotions : 0..MaxPromotions,
                 moves : 0..MaxMoves]

Init ==
  /\ release = [r \in Releases |-> IF \E w \in Running : ReleaseOf[w] = r
                                   THEN "approved" ELSE "absent"]
  /\ \E tried \in BOOLEAN :
       /\ orgRec = [status |-> "provisioning", mapped |-> tried,
                    provisioner |-> IF tried THEN "ready" ELSE "none",
                    late |-> FALSE, current |-> NoRelease, published |-> {}]
       /\ version = [r \in Releases |-> [i \in Roles |->
                       IF tried /\ i = 1 /\ \E w \in Running : ReleaseOf[w] = r
                       THEN <<"failed">> ELSE << >>]]
  /\ oper = [k \in Kinds |-> [state |-> IF k = "provision" THEN "queued" ELSE "none",
                              rel |-> NoRelease, holder |-> NoWorker]]
  /\ task = [w \in Workers |-> IF w \in Running THEN Idle ELSE Down]
  /\ approving = NoRelease
  /\ budget = [faults |-> 0, promotions |-> 0, moves |-> 0]

Fault == /\ budget.faults < MaxFaults
         /\ budget' = [budget EXCEPT !.faults = @ + 1]

Move == /\ budget.moves < MaxMoves
        /\ budget' = [budget EXCEPT !.moves = @ + 1]

-----------------------------------------------------------------------------
(* Releases.                                                               *)

get_release_by_digest(r) == release[r] # "absent"

insert_release(r) == [release EXCEPT ![r] = "staged"]

\* Startup: the configured release is stored, unless it is already.
import_release(w) ==
  /\ task[w].at = "down"
  /\ release' = IF get_release_by_digest(ReleaseOf[w]) THEN release
                ELSE insert_release(ReleaseOf[w])
  /\ task' = [task EXCEPT ![w].at = "imported"]
  /\ UNCHANGED <<orgRec, oper, version, approving, budget>>

\* Mutant: a restart approves whatever the release's status.
ApproveAgain(w) ==
  /\ task[w].at = "imported"
  /\ release' = [release EXCEPT ![ReleaseOf[w]] = "approved"]
  /\ task' = [task EXCEPT ![w] = Idle]
  /\ UNCHANGED <<orgRec, oper, version, approving, budget>>

\* Then approves it if it is still staged.
approve_configured_release(w) ==
  /\ task[w].at = "imported"
  /\ release' = [release EXCEPT ![ReleaseOf[w]] = IF @ = "staged" THEN "approved" ELSE @]
  /\ task' = [task EXCEPT ![w] = Idle]
  /\ UNCHANGED <<orgRec, oper, version, approving, budget>>

set_release_status(r, status) == [release EXCEPT ![r] = status]

\* approve_release reads the status, checks it, and writes without a condition.
ApproveReads(r) ==
  /\ approving = NoRelease /\ release[r] = "staged"
  /\ approving' = r
  /\ UNCHANGED <<release, orgRec, oper, version, task, budget>>

approve_release ==
  /\ approving # NoRelease
  /\ release' = set_release_status(approving, "approved")
  /\ approving' = NoRelease
  /\ UNCHANGED <<orgRec, oper, version, task, budget>>

\* Only retire itself takes a release out of "approved": its two statements are one step.
retire(r) ==
  /\ release[r] = "approved" /\ Move
  /\ release' = set_release_status(r, "retired")
  /\ UNCHANGED <<orgRec, oper, version, task, approving>>

-----------------------------------------------------------------------------
(* Operations: the lease of each row.                                      *)

Holds(w) == oper[task[w].kind].holder = w

\* Mutant: a worker claims the promotion of any release.
SupportsAny(w, k) == TRUE

\* claim_promote takes only promotions to the release of the replica.
Supports(w, k) == k = "promote" => oper[k].rel = ReleaseOf[w]

claim(w, k) ==
  /\ task[w].at = "idle"
  /\ oper[k].state \in {"queued", "running"} /\ oper[k].holder = NoWorker
  /\ Supports(w, k)
  /\ oper' = [oper EXCEPT ![k].state = "running", ![k].holder = w]
  /\ task' = [task EXCEPT ![w] = [Idle EXCEPT !.at = "start", !.kind = k]]
  /\ UNCHANGED <<release, orgRec, version, approving, budget>>

\* The worker stalls past its lease; the row may be claimed by another.
Lapse(w) ==
  /\ task[w].at \notin {"down", "imported", "idle"} /\ Holds(w) /\ Fault
  /\ oper' = [oper EXCEPT ![task[w].kind].holder = NoWorker]
  /\ UNCHANGED <<release, orgRec, version, task, approving>>

\* The process dies; its lease lapses.
Crash(w) ==
  /\ task[w].at # "down" /\ Fault
  /\ task' = [task EXCEPT ![w] = Down]
  /\ oper' = IF task[w].at \notin {"imported", "idle"} /\ Holds(w)
             THEN [oper EXCEPT ![task[w].kind].holder = NoWorker] ELSE oper
  /\ UNCHANGED <<release, orgRec, version, approving>>

\* Retryable or not, a failed publication can be taken up again by hand.
publication_error == "stopped"

\* finish and promote_once: the failure is recorded if the lease is still held.
Failed(w, state) ==
  /\ task' = [task EXCEPT ![w] = Idle]
  /\ oper' = IF Holds(w) THEN [oper EXCEPT ![task[w].kind].state = state,
                                         ![task[w].kind].holder = NoWorker] ELSE oper

\* set_step: a worker that lost its lease stops here.
StaleLease(w) ==
  /\ task[w].at \in {"map", "upsert"} \/ (task[w].at = "start" /\ task[w].kind = "promote")
  /\ ~Holds(w)
  /\ task' = [task EXCEPT ![w] = Idle]
  /\ UNCHANGED <<release, orgRec, oper, version, approving, budget>>

\* promote_once races its work against the heartbeat, and drops it when the
\* heartbeat finds the lease lost; it may also finish first.
HeartbeatLost(w) ==
  /\ task[w].kind = "promote" /\ task[w].at \in {"list", "create", "import", "bind"}
  /\ ~Holds(w)
  /\ task' = [task EXCEPT ![w] = Idle]
  /\ UNCHANGED <<release, orgRec, oper, version, approving, budget>>

\* The retry falls due (fail), or a developer or admin asks for it (retry_in_tx,
\* which also takes up a failed import or promotion).
retry_in_tx(k) ==
  /\ oper[k].state = "stopped"
  /\ oper' = [oper EXCEPT ![k].state = "queued"]
  /\ UNCHANGED <<release, orgRec, version, task, approving, budget>>

-----------------------------------------------------------------------------
(* org.provision, up to the publication.                                   *)

To(w, at) == task' = [task EXCEPT ![w].at = at]

\* The organization must still be provisioning and the release approved; then
\* Coder's version and license are probed, which may fail.
ReadPrerequisites(w) ==
  /\ task[w].at = "start" /\ task[w].kind = "provision"
  /\ CASE orgRec.status # "provisioning" -> Failed(w, "changed") /\ UNCHANGED budget
       [] orgRec.status = "provisioning" /\ release[ReleaseOf[w]] # "approved" ->
            Failed(w, "stopped") /\ UNCHANGED budget
       [] OTHER -> \/ To(w, "map") /\ UNCHANGED <<oper, budget>>
                   \/ Holds(w) /\ Fault /\ Failed(w, "stopped")
  /\ UNCHANGED <<release, orgRec, version, approving>>

\* A mapped organization is kept, otherwise one of the internal name is found
\* or created; the mapping is written without the lease.
ensure_organization == [orgRec EXCEPT !.mapped = TRUE]

StepOrganization(w) ==
  /\ task[w].at = "map" /\ Holds(w)
  /\ \/ /\ To(w, "upsert") /\ UNCHANGED <<oper, budget>>
        /\ orgRec' = ensure_organization
     \/ Fault /\ Failed(w, "stopped") /\ ~orgRec.mapped /\ UNCHANGED orgRec
  /\ UNCHANGED <<release, version, approving>>

\* The lease is checked, and the provisioner's row written after that.
StepProvisioner(w) ==
  /\ task[w].at = "upsert" /\ Holds(w) /\ task[w].seen = 0
  /\ task' = [task EXCEPT ![w].seen = 1]
  /\ UNCHANGED <<release, orgRec, oper, version, approving, budget>>

upsert_provisioner(w) ==
  /\ task[w].at = "upsert" /\ task[w].seen = 1
  /\ orgRec' = [orgRec EXCEPT !.provisioner = "provisioning",
                              !.late = @ \/ ~Holds(w)]
  /\ task' = [task EXCEPT ![w].at = "daemon", ![w].seen = 0]
  /\ UNCHANGED <<release, oper, version, approving, budget>>

set_provisioner_status_fenced(w, status) ==
  orgRec' = IF Holds(w) THEN [orgRec EXCEPT !.provisioner = status] ELSE orgRec

\* Mutant: an unavailable provisioner does not stop the provisioning.
PublishAnyway(w) ==
  /\ Fault /\ set_provisioner_status_fenced(w, "unavailable")
  /\ task' = [task EXCEPT ![w].at = "list", ![w].role = 1] /\ UNCHANGED oper

ProvisionerNotReady(w) ==
  Fault /\ set_provisioner_status_fenced(w, "unavailable") /\ Failed(w, "stopped")

\* Coder reports a daemon with the organization's key online, or not in time;
\* the next set_step stops a worker that lost its lease.
ensure_provisioner_ready(w) ==
  /\ task[w].at = "daemon"
  /\ \/ /\ set_provisioner_status_fenced(w, "ready")
        /\ task' = [task EXCEPT ![w] = IF Holds(w) THEN [@ EXCEPT !.at = "list", !.role = 1]
                                       ELSE Idle]
        /\ UNCHANGED <<oper, budget>>
     \/ ProvisionerNotReady(w)
  /\ UNCHANGED <<release, version, approving>>

-----------------------------------------------------------------------------
(* template.promote, up to the publication.                                *)

\* promote_configured_release, at a replica configured with release r.
RequestPromotion(r) ==
  /\ \E w \in Workers : ReleaseOf[w] = r /\ task[w].at \notin {"down", "imported"}
  /\ budget.promotions < MaxPromotions
  /\ orgRec.current # r /\ oper["promote"].state \notin {"queued", "running"}
  /\ oper' = [oper EXCEPT !["promote"] =
                [state |-> "queued", rel |-> r, holder |-> NoWorker]]
  /\ budget' = [budget EXCEPT !.promotions = @ + 1]
  /\ UNCHANGED <<release, orgRec, version, task, approving>>

organization_coder_org == orgRec.mapped

\* promote_to_org: the release must be approved and the organization mapped.
promote_to_org(w) ==
  /\ task[w].at = "start" /\ task[w].kind = "promote" /\ Holds(w)
  /\ IF release[ReleaseOf[w]] # "approved" THEN Failed(w, "stopped")
     ELSE IF ~organization_coder_org THEN Failed(w, "stopped")
     ELSE task' = [task EXCEPT ![w].at = "list", ![w].role = 1] /\ UNCHANGED oper
  /\ UNCHANGED <<release, orgRec, version, approving, budget>>

-----------------------------------------------------------------------------
(* Publication of the roles, one after the other (publish_for_org).        *)

Versions(w) == version[ReleaseOf[w]][task[w].role]

\* The first name whose import has not failed.
ImportName(vs) ==
  IF vs # << >> /\ vs[Len(vs)] # "failed" THEN Len(vs) ELSE Len(vs) + 1

\* Mutant: a failed import is replaced without limit.
NeverReached(n) == FALSE

LimitReached(n) == n > MaxImports

\* ensure_template_version lists the versions and picks the one to import.
ListVersions(w) ==
  /\ task[w].at = "list"
  /\ LET n == ImportName(Versions(w)) IN
       IF LimitReached(n) THEN Failed(w, publication_error)
       ELSE /\ task' = [task EXCEPT ![w].seen = n,
                                    ![w].at = IF n <= Len(Versions(w)) THEN "import" ELSE "create"]
            /\ UNCHANGED oper
  /\ UNCHANGED <<release, orgRec, version, approving, budget>>

NoTemplate(w) == \A r \in Releases : version[r][task[w].role] = << >>

\* The first version of a role is created before its template.
create_template(w) ==
  /\ task[w].at = "create" /\ NoTemplate(w)
  /\ version' = [version EXCEPT ![ReleaseOf[w]][task[w].role] = <<"importing">>]
  /\ To(w, "import")
  /\ UNCHANGED <<release, orgRec, oper, approving, budget>>

\* A later one is added to it.  Coder accepts one version of a name.
create_template_version(w) ==
  /\ task[w].at = "create" /\ ~NoTemplate(w)
  /\ IF Len(Versions(w)) < task[w].seen
     THEN /\ version' = [version EXCEPT ![ReleaseOf[w]][task[w].role] = Append(@, "importing")]
          /\ To(w, "import") /\ UNCHANGED oper
     ELSE Failed(w, publication_error) /\ UNCHANGED version
  /\ UNCHANGED <<release, orgRec, approving, budget>>

AfterRole(w) ==
  IF task[w].role + 1 \in Roles THEN [task[w] EXCEPT !.at = "list", !.role = @ + 1, !.seen = 0]
  ELSE [task[w] EXCEPT !.at = IF task[w].kind = "provision" THEN "ready" ELSE "bind",
                       !.role = 0, !.seen = 0]

\* Mutant: a role is recorded as published while its import still runs.
RunsOrSucceeded == {"importing", "ok"}

Succeeded == {"ok"}

upsert_org_template_version(w) ==
  [orgRec EXCEPT !.published = @ \cup {<<ReleaseOf[w], task[w].role>>}]

\* await_import: the provisioner runs the import job; the publication is
\* recorded once it succeeded.  A failed one may be replaced; one that takes
\* too long is awaited again by a later attempt.
await_import(w) ==
  /\ task[w].at = "import"
  /\ \E s \in IF Versions(w)[task[w].seen] = "importing" THEN {"importing", "ok", "failed"}
              ELSE {Versions(w)[task[w].seen]} :
       /\ version' = [version EXCEPT ![ReleaseOf[w]][task[w].role][task[w].seen] = s]
       /\ CASE s \in Succeeded ->
                 /\ orgRec' = upsert_org_template_version(w)
                 /\ task' = [task EXCEPT ![w] = AfterRole(w)]
                 /\ UNCHANGED <<oper, budget>>
            [] s = "failed" ->
                 /\ IF Versions(w)[task[w].seen] = "failed" THEN UNCHANGED budget ELSE Fault
                 /\ Failed(w, publication_error)
                 /\ UNCHANGED orgRec
            [] OTHER -> Fault /\ Failed(w, publication_error) /\ UNCHANGED orgRec
  /\ UNCHANGED <<release, approving>>

-----------------------------------------------------------------------------
(* The transactions that end an operation.                                 *)

Finished(k) == oper' = [oper EXCEPT ![k].state = "done", ![k].holder = NoWorker]

bind_org_release_in_tx(r) == [orgRec EXCEPT !.current = r]

\* Mutant: readiness is written whatever became of the organization.
MarkAny == TRUE

StillProvisioning == orgRec.status = "provisioning"

\* Readiness, the pin and the completion commit together, under the locks of
\* the organization, the lease and the release.
mark_ready(w) ==
  /\ task[w].at = "ready"
  /\ CASE ~Holds(w) -> task' = [task EXCEPT ![w] = Idle] /\ UNCHANGED <<orgRec, oper>>
       [] Holds(w) /\ ~StillProvisioning -> Failed(w, "changed") /\ UNCHANGED orgRec
       [] Holds(w) /\ StillProvisioning /\ release[ReleaseOf[w]] # "approved" ->
            Failed(w, "stopped") /\ UNCHANGED orgRec
       [] OTHER ->
            /\ orgRec' = [bind_org_release_in_tx(ReleaseOf[w]) EXCEPT !.status = "ready"]
            /\ Finished("provision")
            /\ task' = [task EXCEPT ![w] = Idle]
  /\ UNCHANGED <<release, version, approving, budget>>

\* Mutant: the release is not read again under its lock.
ApprovedWhenRead(w) == TRUE

StillApproved(w) == release[ReleaseOf[w]] = "approved"

\* The pin of a promotion is written under the locks of the organization and
\* the release, not of the lease.
PinPromoted(w) ==
  /\ task[w].at = "bind"
  /\ IF StillApproved(w)
     THEN /\ orgRec' = bind_org_release_in_tx(ReleaseOf[w])
          /\ To(w, "complete") /\ UNCHANGED oper
     ELSE Failed(w, "stopped") /\ UNCHANGED orgRec
  /\ UNCHANGED <<release, version, approving, budget>>

complete(w) ==
  /\ task[w].at = "complete"
  /\ task' = [task EXCEPT ![w] = Idle]
  /\ IF Holds(w) THEN Finished("promote") ELSE UNCHANGED oper
  /\ UNCHANGED <<release, orgRec, version, approving, budget>>

\* The organization's deletion is requested.
RequestDeletion ==
  /\ orgRec.status # "deleting" /\ Move
  /\ orgRec' = [orgRec EXCEPT !.status = "deleting"]
  /\ UNCHANGED <<release, oper, version, task, approving>>

Step(w) ==
  \/ import_release(w) \/ approve_configured_release(w)
  \/ \E k \in Kinds : claim(w, k)
  \/ Lapse(w) \/ Crash(w) \/ StaleLease(w) \/ HeartbeatLost(w)
  \/ ReadPrerequisites(w) \/ StepOrganization(w)
  \/ StepProvisioner(w) \/ upsert_provisioner(w) \/ ensure_provisioner_ready(w)
  \/ promote_to_org(w) \/ ListVersions(w) \/ create_template(w) \/ create_template_version(w) \/ await_import(w)
  \/ mark_ready(w) \/ PinPromoted(w) \/ complete(w)

Next ==
  \/ \E w \in Workers : Step(w)
  \/ \E r \in Releases : RequestPromotion(r) \/ ApproveReads(r) \/ retire(r)
  \/ approve_release
  \/ \E k \in Kinds : retry_in_tx(k)
  \/ RequestDeletion

Spec == Init /\ [][Next]_vars

-----------------------------------------------------------------------------
(* The release an organization is pinned to is published there in every    *)
(* role, each import having succeeded, whichever worker published it and    *)
(* however often that was interrupted (publish_for_org, mark_ready).        *)
PinnedIsPublished ==
  orgRec.current # NoRelease =>
    /\ orgRec.mapped
    /\ \A i \in Roles : /\ <<orgRec.current, i>> \in orgRec.published
                        /\ \E n \in DOMAIN version[orgRec.current][i] :
                             version[orgRec.current][i][n] = "ok"

(* A ready organization is pinned and its provisioner's row says ready,     *)
(* unless a worker that had lost its lease wrote the row after its check    *)
(* (upsert_provisioner is not fenced).                                      *)
ReadyIsComplete ==
  orgRec.status = "ready" => /\ orgRec.current # NoRelease
                             /\ orgRec.provisioner = "ready" \/ orgRec.late

(* No provisioning attempt brings back an organization whose deletion was   *)
(* requested while it ran (provision, steps 1 and 6).                       *)
DeletionStands == orgRec.status = "deleting" => orgRec'.status = "deleting"

(* No organization is newly pinned to a release that was retired while it   *)
(* was being published (promote_to_org, mark_ready).                        *)
RetiredNotAdopted ==
  orgRec'.current # orgRec.current => release[orgRec'.current] = "approved"

(* No restart of a replica undoes a retirement; an operator's approval that *)
(* read the release before it was retired still may (approve_release writes *)
(* without a condition).                                                    *)
RetirementStands ==
  \A r \in Releases : release[r] = "retired" /\ release'[r] # "retired" =>
    approving = r

(* A ready organization changes its release only to the one its latest      *)
(* promotion names.  A worker that lost its lease may still write the       *)
(* release of an older promotion (the pin is not fenced).                   *)
PinFollowsPromotion ==
  orgRec.status = "ready" /\ orgRec'.current # orgRec.current =>
    \/ orgRec'.current = oper["promote"].rel
    \/ \E w \in Workers : task[w].at = "bind" /\ task'[w].at = "complete" /\ ~Holds(w)

(* A release is imported at most MaxImports times into a role, through every     *)
(* retry, automatic or by hand, and every concurrent publication.           *)
ImportsBounded == \A r \in Releases, i \in Roles : Len(version[r][i]) <= MaxImports

=============================================================================
