----------------------------- MODULE VesselMerge -----------------------------
(***************************************************************************)
(* One controller pass after another over one pull request: NEXUS keeps    *)
(* the queue of pending pull requests, VESSEL turns the GitHub state and   *)
(* the ticket record into a merge.  Each step of the controller is what it *)
(* does between two awaits, so workers, reviewers and GitHub act in        *)
(* between; the controller may crash anywhere, lose a reply of Redis or    *)
(* GitHub, and starts again with the next pass.                            *)
(*                                                                         *)
(* Transitions of the record are atomic here (TicketStore shows that the   *)
(* compare-and-set makes them so).  Why NEXUS does not put an open pull    *)
(* request back (the ticket board, attempt counters), the verdict of CI    *)
(* and the kind of a GitHub rejection are free choices.                    *)
(***************************************************************************)
EXTENDS LifecycleReducer, FiniteSets

CONSTANTS Number,       \* the pull request
          FirstHead,    \* the commit it is opened with
          MaxVersion,   \* bound on the version other actors write
          MaxAttempts,  \* bound on the merge requests sent
          MaxFaults     \* bound on crashes and lost replies

ASSUME StartAssumption == Number \in PRs /\ FirstHead \in Heads
ASSUME ReplyAssumption == None \notin {"merged", "rejected"}
ASSUME BoundsAssumption == MaxAttempts \in Nat /\ MaxFaults \in Nat

VARIABLES ticket,       \* the ticket record
          head,         \* the head of the pull request on GitHub
          approvals,    \* commits an authorised GitHub reviewer approved
          merged,       \* the merged commit, None while the pull request is open
          requests,     \* merge requests GitHub has not executed yet
          sent,         \* number of merge requests sent
          pending,      \* the pull request is in pending_prs
          vessel,       \* the controller: place in the pass and locals
          faults        \* number of crashes and lost replies

env == <<head, approvals, merged>>
vars == <<ticket, head, approvals, merged, requests, sent, pending, vessel, faults>>

Steps ==
    {"sync", "handoff", "fetch", "read", "confirm", "reconcile", "return",
     "list_reviews", "reread", "human", "sentinel", "deliver", "recheck",
     "rework", "poll", "readiness", "merge_read", "begin", "send", "await",
     "record", "cancel", "conflict_read", "conflict_move", "rework_read",
     "rework_move", "remove"}

\* Locals of a pass: the fetched head, the record last read or written, and
\* the answer of GitHub to the merge request.
Pass == [pc |-> "sync", head |-> None, seen |-> Default, reply |-> None]

Init ==
    /\ ticket = Normalised(UnboundSubmit(FirstHead, Number))
    /\ head = FirstHead /\ approvals = {} /\ merged = None
    /\ requests = {} /\ sent = 0 /\ pending = TRUE
    /\ vessel = Pass /\ faults = 0

At(pc) == vessel.pc = pc
Go(pc) == vessel' = IF pc = "sync" THEN Pass ELSE [vessel EXCEPT !.pc = pc]
Fault == faults < MaxFaults /\ faults' = faults + 1

\* SharedStore::transition on the record the controller last saw: applied and
\* acknowledged, refused (another version, or the reducer), or not answered.
Applicable(actor, ev) ==
    ticket.version = vessel.seen.version /\ Accepts(ticket, actor, ev)

Transition(actor, ev, ok, err) ==
    \/ /\ Applicable(actor, ev)
       /\ ticket' = Apply(ticket, actor, ev)
       /\ vessel' = IF ok = "sync" THEN Pass
                    ELSE [vessel EXCEPT !.pc = ok, !.seen = ticket']
       /\ UNCHANGED faults
    \/ /\ ~Applicable(actor, ev)
       /\ Go(err)
       /\ UNCHANGED <<ticket, faults>>
    \/ /\ Fault
       /\ ticket' \in {ticket} \cup
              {Apply(ticket, actor, e) : e \in {x \in {ev} : Applicable(actor, x)}}
       /\ Go(err)

\* A read of Redis or GitHub fails and ends the pass; it is tried again by
\* the next one.
PassFails ==
    /\ vessel.pc \in {"sync", "fetch", "read", "confirm", "reread", "recheck",
                      "poll", "conflict_read", "rework_read"}
    /\ Fault /\ Go("sync")
    /\ UNCHANGED <<ticket, env, requests, sent, pending>>

(***************************************************************************)
(* NEXUS: sync_open_prs, pending_prs_ready_for_vessel; VESSEL: prep.       *)
(***************************************************************************)
\* A pull request that is no longer open leaves the queue.
SyncOpenPrs ==
    /\ At("sync")
    /\ pending' \in IF merged # None THEN {FALSE} ELSE {pending, TRUE}
    /\ Go("handoff")
    /\ UNCHANGED <<ticket, env, requests, sent, faults>>

HandOff ==
    /\ At("handoff")
    /\ Go(IF pending /\ ticket.phase = "submit" THEN "fetch" ELSE "sync")
    /\ UNCHANGED <<ticket, env, requests, sent, pending, faults>>

(***************************************************************************)
(* VESSEL: exec                                                            *)
(***************************************************************************)
Fetch ==
    /\ At("fetch")
    /\ vessel' = [vessel EXCEPT !.pc = "read", !.head = head]
    /\ UNCHANGED <<ticket, env, requests, sent, pending, faults>>

ReadTicket(pc, next) ==
    /\ At(pc)
    /\ vessel' = [vessel EXCEPT !.pc = next, !.seen = ticket]
    /\ UNCHANGED <<ticket, env, requests, sent, pending, faults>>

Read == ReadTicket("read", "confirm")

\* Mutant: an open reservation is not looked at.
TriageIgnoresReservation(s) ==
    CASE s.phase # "submit" -> "sync"
      [] s.phase = "submit" /\ s.head # vessel.head -> "return"
      [] s.phase = "submit" /\ s.head = vessel.head ->
            IF MergeReady(s, vessel.head) THEN "poll" ELSE "list_reviews"

\* What to do with a pull request GitHub does not report as merged.
Triage(s) ==
    CASE s.merge_pending -> "sync"
      [] ~s.merge_pending /\ s.phase # "submit" -> "sync"
      [] ~s.merge_pending /\ s.phase = "submit" /\ s.head # vessel.head -> "return"
      [] ~s.merge_pending /\ s.phase = "submit" /\ s.head = vessel.head ->
            IF MergeReady(s, vessel.head) THEN "poll" ELSE "list_reviews"

Confirm ==
    /\ At("confirm")
    /\ Go(IF merged # None
          THEN IF vessel.seen.phase = "done" THEN "remove" ELSE "reconcile"
          ELSE Triage(vessel.seen))
    /\ UNCHANGED <<ticket, env, requests, sent, pending, faults>>

Reconcile ==
    /\ At("reconcile")
    /\ Transition("vessel", ReconcileMergedEvent(Number, "text"), "remove", "sync")
    /\ UNCHANGED <<env, requests, sent, pending>>

ReturnToBuilding ==
    /\ At("return")
    /\ Transition("vessel", MoveEvent("building", None), "sync", "sync")
    /\ UNCHANGED <<env, requests, sent, pending>>

(***************************************************************************)
(* VESSEL: reconcile_github_approval, check_pr_needs_rework                *)
(***************************************************************************)
BothVerdicts(s) == s.pr_human # None /\ s.pr_decision # None

\* A change request of another reviewer, or a failed call, hides the approval.
ListReviews ==
    /\ At("list_reviews")
    /\ \/ /\ ~BothVerdicts(vessel.seen) /\ vessel.head \in approvals
          /\ Go("reread")
       \/ Go("rework")
    /\ UNCHANGED <<ticket, env, requests, sent, pending, faults>>

\* Mutant: the head is not compared again after the reviews were fetched.
ApprovalAppliesAnyHead(s) ==
    ~BothVerdicts(s) /\ (s.pr_decision = None => Approved(s.test_decision))

ApprovalApplies(s) ==
    /\ ~BothVerdicts(s)
    /\ s.head = vessel.head
    /\ s.pr_decision = None => Approved(s.test_decision)

Reread ==
    /\ At("reread")
    /\ vessel' = [vessel EXCEPT
                    !.seen = ticket,
                    !.pc = CASE ~ApprovalApplies(ticket) -> "rework"
                             [] ApprovalApplies(ticket) /\ ticket.pr_human = None -> "human"
                             [] ApprovalApplies(ticket) /\ ticket.pr_human # None -> "sentinel"]
    /\ UNCHANGED <<ticket, env, requests, sent, pending, faults>>

ApprovalOf(s) == DecideEvent("submit", s.review_round, s.revision, s.head, TRUE, "text")

RecordHuman ==
    /\ At("human")
    /\ Transition("human", ApprovalOf(vessel.seen),
                  IF vessel.seen.pr_decision = None THEN "sentinel" ELSE "deliver", "sync")
    /\ UNCHANGED <<env, requests, sent, pending>>

RecordSentinel ==
    /\ At("sentinel")
    /\ Transition("sentinel", ApprovalOf(vessel.seen), "deliver", "sync")
    /\ UNCHANGED <<env, requests, sent, pending>>

RecordDelivery ==
    /\ At("deliver")
    /\ IF vessel.seen.pr_delivery = None
       THEN Go("recheck") /\ UNCHANGED <<ticket, faults>>
       ELSE Transition("sentinel", ReviewDeliveredEvent(vessel.seen.review_round),
                       "recheck", "sync")
    /\ UNCHANGED <<env, requests, sent, pending>>

Recheck ==
    /\ At("recheck")
    /\ Go(IF MergeReady(ticket, vessel.head) THEN "poll" ELSE "rework")
    /\ UNCHANGED <<ticket, env, requests, sent, pending, faults>>

NeedsRework ==
    /\ At("rework")
    /\ Go("poll") \/ Go("sync")
    /\ UNCHANGED <<ticket, env, requests, sent, pending, faults>>

(***************************************************************************)
(* VESSEL: process_single_pr, merge_reviewed                               *)
(***************************************************************************)
\* CI passed and GitHub shows an approval of the head; or the pull request
\* waits for a review; or CI or a reviewer asks for rework; or it conflicts.
Poll ==
    /\ At("poll")
    /\ \/ vessel.head \in approvals /\ sent < MaxAttempts /\ Go("readiness")
       \/ Go("sync")
       \/ Go("rework_read")
       \/ Go("conflict_read")
    /\ UNCHANGED <<ticket, env, requests, sent, pending, faults>>

\* A failed read is not an answer: the merge path reads again.
Readiness ==
    /\ At("readiness")
    /\ \/ /\ Go(IF MergeReady(ticket, vessel.head) THEN "merge_read" ELSE "sync")
          /\ UNCHANGED faults
       \/ Fault /\ Go("merge_read")
    /\ UNCHANGED <<ticket, env, requests, sent, pending>>

\* merge_reviewed reads the record and CI again; an error surfaces as
\* MergeBlocked, like every error of this function.
MergeRead ==
    /\ At("merge_read")
    /\ \/ /\ MergeReady(ticket, vessel.head) /\ ticket.pr_number = Number
          /\ vessel' = [vessel EXCEPT !.seen = ticket,
                                      !.pc = IF ticket.merge_pending THEN "send" ELSE "begin"]
       \/ Go("remove")
    /\ UNCHANGED <<ticket, env, requests, sent, pending, faults>>

Begin ==
    /\ At("begin")
    /\ Transition("vessel", BeginMergeEvent(vessel.head), "send", "remove")
    /\ UNCHANGED <<env, requests, sent, pending>>

Send ==
    /\ At("send")
    /\ sent' = sent + 1
    /\ requests' = requests \cup {[id |-> sent', head |-> vessel.head]}
    /\ Go("await")
    /\ UNCHANGED <<ticket, env, pending, faults>>

\* GitHub merges the commit it was asked to merge, or rejects the request.
Execute(r) ==
    /\ requests' = requests \ {r}
    /\ \/ merged = None /\ head = r.head /\ merged' = r.head
       \/ UNCHANGED merged
    /\ vessel' = IF At("await") /\ r.id = sent
                 THEN [vessel EXCEPT !.reply = IF merged' = merged THEN "rejected" ELSE "merged"]
                 ELSE vessel
    /\ UNCHANGED <<ticket, head, approvals, sent, pending, faults>>

\* Mutant: any answer of GitHub counts as a merge.
AwaitTrustsAnswer ==
    /\ At("await") /\ vessel.reply # None
    /\ Go("record")
    /\ UNCHANGED <<ticket, env, requests, sent, pending, faults>>

Await ==
    /\ At("await")
    /\ vessel.reply # None
    /\ Go(IF vessel.reply = "merged" THEN "record" ELSE "cancel")
    /\ UNCHANGED <<ticket, env, requests, sent, pending, faults>>

\* Mutant: an unknown outcome is handled like a rejection.
AwaitFailsCancels ==
    /\ At("await") /\ Fault
    /\ Go("cancel")
    /\ UNCHANGED <<ticket, env, requests, sent, pending>>

\* No usable answer: the request may be lost, executed or still to come, and
\* the reservation stays.  The error is MergeBlocked unless its text reads
\* like a conflict.
AwaitFails ==
    /\ At("await") /\ Fault
    /\ Go("remove") \/ Go("conflict_read")
    /\ requests' \in {requests, {}}
    /\ UNCHANGED <<ticket, env, sent, pending>>

Record ==
    /\ At("record")
    /\ Transition("vessel", MergedEvent(Number, vessel.head, "text"), "remove", "remove")
    /\ UNCHANGED <<env, requests, sent, pending>>

\* After a rejection: conflict rework, wait for a reviewer, or MergeBlocked.
Cancel ==
    /\ At("cancel")
    /\ \E next \in {"conflict_read", "sync", "remove"} :
         Transition("vessel", CancelMergeEvent, next, "remove")
    /\ UNCHANGED <<env, requests, sent, pending>>

(***************************************************************************)
(* VESSEL: handle_conflicts; post                                          *)
(***************************************************************************)
Reworkable(s) == s.phase = "submit" /\ ~s.merge_pending

ConflictRead ==
    /\ At("conflict_read")
    /\ vessel' = IF Reworkable(ticket)
                 THEN [vessel EXCEPT !.pc = "conflict_move", !.seen = ticket] ELSE Pass
    /\ UNCHANGED <<ticket, env, requests, sent, pending, faults>>

ConflictMove ==
    /\ At("conflict_move")
    /\ Transition("vessel", MoveEvent("building", None), "remove", "sync")
    /\ UNCHANGED <<env, requests, sent, pending>>

\* Nothing is moved when the rework was dispatched for this head before.
ReworkRead ==
    /\ At("rework_read")
    /\ \/ /\ Reworkable(ticket)
          /\ vessel' = [vessel EXCEPT !.pc = "rework_move", !.seen = ticket]
       \/ Go("remove")
    /\ UNCHANGED <<ticket, env, requests, sent, pending, faults>>

ReworkMove ==
    /\ At("rework_move")
    /\ Transition("vessel", MoveEvent("building", None), "remove", "sync")
    /\ UNCHANGED <<env, requests, sent, pending>>

\* Merged, MergeBlocked and rework all take the pull request off the queue.
RemoveFromPending ==
    /\ At("remove")
    /\ pending' = FALSE
    /\ Go("sync")
    /\ UNCHANGED <<ticket, env, requests, sent, faults>>

Crash ==
    /\ ~At("sync") /\ Fault
    /\ Go("sync")
    /\ UNCHANGED <<ticket, env, requests, sent, pending>>

Controller ==
    \/ SyncOpenPrs \/ HandOff \/ PassFails
    \/ Fetch \/ Read \/ Confirm \/ Reconcile \/ ReturnToBuilding
    \/ ListReviews \/ Reread \/ RecordHuman \/ RecordSentinel \/ RecordDelivery
    \/ Recheck \/ NeedsRework
    \/ Poll \/ Readiness \/ MergeRead \/ Begin \/ Send \/ Await \/ AwaitFails
    \/ Record \/ Cancel
    \/ ConflictRead \/ ConflictMove \/ ReworkRead \/ ReworkMove \/ RemoveFromPending

(***************************************************************************)
(* Everyone else: workers and operators through the harness and the CLI,   *)
(* and people on GitHub.                                                   *)
(***************************************************************************)
OtherEvents(s) ==
    {PlanEvent("text"), BlockEvent("text")}
    \cup {MoveEvent(p, h) : p \in Phases, h \in Option(Heads)}
    \cup {DecideEvent(p, s.review_round, s.revision, h, ok, "text") :
            p \in ReviewPhases, h \in Option(Heads), ok \in BOOLEAN}
    \cup {VerifiedEvent(h, "text") : h \in Heads}
    \cup {PrEvent(n) : n \in PRs}
    \cup {ReviewDeliveredEvent(s.review_round)}

\* Mutant: a worker's write stamps the record and saves it without asking the
\* reducer, so that no reservation refuses it.
WorkerEventUnchecked ==
    /\ ticket.version <= MaxVersion
    /\ ticket' = [ticket EXCEPT !.version = @ + 1]
    /\ UNCHANGED <<env, requests, sent, pending, vessel, faults>>

WorkerEvent ==
    /\ ticket.version < MaxVersion
    /\ \E actor \in {"forge", "sentinel", "human"}, ev \in OtherEvents(ticket) :
         Accepts(ticket, actor, ev) /\ ticket' = Apply(ticket, actor, ev)
    /\ UNCHANGED <<env, requests, sent, pending, vessel, faults>>

Push ==
    /\ merged = None
    /\ head' \in Heads \ {head}
    /\ UNCHANGED <<ticket, approvals, merged, requests, sent, pending, vessel, faults>>

ApproveOnGitHub ==
    /\ merged = None
    /\ approvals' = approvals \cup {head}
    /\ UNCHANGED <<ticket, head, merged, requests, sent, pending, vessel, faults>>

MergeByHand ==
    /\ merged = None
    /\ merged' = head
    /\ UNCHANGED <<ticket, head, approvals, requests, sent, pending, vessel, faults>>

GitHub == \E r \in requests : Execute(r)

Next ==
    \/ Controller \/ Crash \/ GitHub
    \/ WorkerEvent \/ Push \/ ApproveOnGitHub \/ MergeByHand

Spec == Init /\ [][Next]_vars

\* The controller loop never stops and GitHub executes what it received.
FairSpec == Spec /\ WF_vars(Controller) /\ WF_vars(GitHub)

-----------------------------------------------------------------------------
\* Type invariant.
TypeOK ==
    /\ ticket \in Records
    /\ head \in Heads /\ approvals \subseteq Heads /\ merged \in Option(Heads)
    /\ requests \subseteq [id : 1..MaxAttempts, head : Heads]
    /\ sent \in 0..MaxAttempts /\ pending \in BOOLEAN /\ faults \in 0..MaxFaults
    /\ vessel \in [pc : Steps, head : Option(Heads), seen : Records,
                   reply : {None, "merged", "rejected"}]

\* While GitHub may still execute a merge request the ticket is reserved for
\* exactly that candidate and the candidate is fully approved, unless the
\* ticket is already done: lost replies, restarts, racing reviews and merges
\* by hand included.
InFlightIsReserved ==
    \A r \in requests :
        ticket.phase = "done" \/ (ticket.merge_pending /\ MergeReady(ticket, r.head))

\* A merge is never requested again while an earlier request may still be
\* executed.
OneRequestInFlight == Cardinality(requests) <= 1

\* The ticket is done only if GitHub merged the pull request.
DoneIsMerged == ticket.phase = "done" => merged # None

\* VESSEL turns a GitHub approval into verdicts only for the very commit that
\* was approved there, after SENTINEL approved its tests: the record may have
\* moved on while the reviews were fetched.
ApprovalNamesCandidate ==
    [][ (At("human") \/ At("sentinel")) /\ ticket'.version # ticket.version /\ vessel' # vessel
          => /\ ticket.head \in approvals
             /\ ticket.head = vessel.head
             /\ Approved(ticket.test_decision) ]_vars

\* Unless a reply was lost or the controller restarted, a merge VESSEL was
\* granted is recorded: nothing can invalidate the reservation meanwhile.
GrantedMergeRecorded ==
    (vessel.reply = "merged") ~> (ticket.phase = "done" \/ faults > 0)

\* docs/architecture/state-machine.md: "VESSEL reconciles a confirmed GitHub
\* merge to done".  When the outcome of a merge request is unknown, VESSEL and
\* NEXUS drop the merged pull request from the queue and nothing looks at it
\* again.
MergeReconciled ==
    (merged # None /\ ticket.merge_pending) ~> (ticket.phase = "done")
=============================================================================
