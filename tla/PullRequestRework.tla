--------------------------- MODULE PullRequestRework ---------------------------
(***************************************************************************)
(* One pull request that is not mergeable at once: VESSEL classifies it    *)
(* (crates/agent-vessel/src/node.rs, pr_monitor.rs, ci_poller.rs) and      *)
(* sends FORGE back to work, takes it off the queue pending_prs, or        *)
(* escalates; NEXUS (agent-nexus/src/lib.rs, sync_open_prs), forge_pair    *)
(* (agent-forge/src/lib.rs) and FORGE's re-arm marker put it back;         *)
(* SENTINEL's delivery (agent-sentinel/src/lib.rs) takes it off again.     *)
(* A pass of the controller runs them one after the other; reviewers,      *)
(* FORGE and the author of a push act between any two steps.               *)
(*                                                                         *)
(* Commits are told apart by whether they are the head: the one a          *)
(* directive was sent for, the one of the record, the one reviewed.  The   *)
(* merge itself and the reservation around it are VesselMerge's subject,   *)
(* slots and workspaces WorkerFleet's: whether a worker is found, and      *)
(* whether a chat takes a message, are choices.                            *)
(***************************************************************************)
EXTENDS Naturals

CONSTANTS MAX_CI_FIX_ATTEMPTS, MAX_CONFLICT_RESOLUTION_ATTEMPTS,
          MAX_ADDRESS_REVIEW_ATTEMPTS, MAX_ATTEMPTS,   \* all 3 in the code
          Heads,         \* the commits FORGE may push: CI's answer, conflicts with main
          MaxFeedback,   \* bound on the reviews that ask for rework
          MaxMeddling    \* bound on crashes, failed messages and pushes of a human

VARIABLES gh,        \* the pull request on GitHub
          entry,     \* what the store says of it outside the ticket record
          rec,       \* the ticket record (lifecycle)
          builder,   \* FORGE: has a chat; has something to do
          round,     \* the pass: place, outcome of exec
          spent      \* bounds used up, and what a crash or the code left behind

vars == <<gh, entry, rec, builder, round, spent>>

OneMore(n, max) == IF n < max THEN n + 1 ELSE n

Outcome == {"none", "merged", "ci_failed", "ci_timeout", "blocked", "conflicts", "changes", "comments", "waits"}

TypeOK ==
  /\ gh \in [merged : BOOLEAN, ci : {"pass", "fail", "slow"}, conflict : BOOLEAN,
             fb : {"none", "changes", "comments"}, onHead : BOOLEAN, late : BOOLEAN,
             told : BOOLEAN, ok : BOOLEAN, touched : BOOLEAN]
  /\ entry \in [st : {"pr_opened", "open", "assigned", "in_progress", "failed", "awaiting",
                      "merged"},
                by : {"forge", "vessel"}, why : {"none", "rework", "blocked"}, n : 0..MAX_ATTEMPTS,
                pending : BOOLEAN, ci : 0..MAX_CI_FIX_ATTEMPTS,
                conf : 0..MAX_CONFLICT_RESOLUTION_ATTEMPTS,
                rev : 0..MAX_ADDRESS_REVIEW_ATTEMPTS,
                disp : {"none", "head", "old"}, rearmed : BOOLEAN, directive : BOOLEAN]
  /\ rec \in [phase : {"submit", "building", "done"}, cur : BOOLEAN, ok : BOOLEAN,
              human : BOOLEAN, delivery : {"none", "approve", "reject"}]
  /\ builder \in [chat : BOOLEAN, busy : BOOLEAN]
  /\ round \in [pc : {"nexus", "vessel", "post"}, out : Outcome,
                hit : BOOLEAN, same : BOOLEAN]
  /\ spent \in [feedback : 0..MaxFeedback, meddling : 0..MaxMeddling, torn : BOOLEAN,
                stale : BOOLEAN]

Idle(pc) == [pc |-> pc, out |-> "none", hit |-> FALSE, same |-> TRUE]

Init ==
  /\ \E h \in Heads : gh = [merged |-> FALSE, ci |-> h[1], conflict |-> h[2], fb |-> "none",
                            onHead |-> FALSE, late |-> FALSE, told |-> FALSE, ok |-> FALSE,
                            touched |-> FALSE]
  /\ entry = [st |-> "pr_opened", by |-> "forge", why |-> "none", n |-> 0, pending |-> TRUE,
              ci |-> 0, conf |-> 0, rev |-> 0, disp |-> "none", rearmed |-> FALSE,
              directive |-> FALSE]
  /\ rec = [phase |-> "submit", cur |-> TRUE, ok |-> FALSE, human |-> FALSE,
            delivery |-> "none"]
  /\ builder = [chat |-> TRUE, busy |-> FALSE]
  /\ round = Idle("nexus")
  /\ spent = [feedback |-> 0, meddling |-> 0, torn |-> FALSE, stale |-> FALSE]

Meddle(k) == spent.meddling + k <= MaxMeddling
Meddled(k) == [spent EXCEPT !.meddling = @ + k]
Choice == {TRUE} \cup {b \in {FALSE} : Meddle(1)}     \* FALSE: something fails

-----------------------------------------------------------------------------
(* NEXUS *)

\* Mutant: a pull request that was never dispatched counts as changed.
ChangedOrUndispatched == entry.disp # "head"

(* The head is not the one the last /address_review was dispatched for. *)
head_changed == entry.disp = "old"

\* Mutant: an escalated ticket is taken up again whatever happened.
AlwaysIntervened == TRUE

Intervened == gh.ok \/ head_changed

(* An escalated ticket is taken up again: the counter starts anew. *)
Resumed(e) == IF e.st # "awaiting" THEN e
              ELSE [e EXCEPT !.rev = 0, !.st = "in_progress", !.by = "vessel",
                             !.disp = IF gh.ok THEN "none" ELSE @]

(* Tickets whose worker is still to rework, or limits that are reached,     *)
(* keep the pull request out; the status is the one before Resumed.         *)
KeptOut == \/ entry.st = "failed" /\ entry.why = "rework"
           \/ entry.st = "in_progress" /\ rec.phase # "submit"
           \/ entry.ci >= MAX_CI_FIX_ATTEMPTS

(* A pull request that is put back says its ticket is complete. *)
Corrected(e) ==
  IF \/ e.st \in {"open", "assigned"}
     \/ e.st = "failed" /\ e.why # "rework"
     \/ e.st = "in_progress" /\ rec.phase = "submit"
  THEN [e EXCEPT !.st = "pr_opened", !.by = "forge", !.why = "none"] ELSE e

sync_open_prs ==
  CASE gh.merged -> [entry EXCEPT !.pending = FALSE]
    [] ~gh.merged /\ (entry.pending \/ (entry.st = "awaiting" /\ ~Intervened)) -> entry
    [] ~gh.merged /\ ~entry.pending /\ (entry.st = "awaiting" => Intervened) ->
         LET e == Resumed(entry)
         IN  CASE e.disp # "none" -> [e EXCEPT !.pending = TRUE]
               [] e.disp = "none" /\ KeptOut -> e
               [] e.disp = "none" /\ ~KeptOut -> [Corrected(e) EXCEPT !.pending = TRUE]

(* A ticket in progress whose worker is not a slot is an orphan. *)
recover_orphans(e) == IF e.st = "in_progress" /\ e.by = "vessel"
                      THEN [e EXCEPT !.st = "open", !.by = "forge"] ELSE e

is_assignable(e) == e.st = "open" \/ (e.st = "failed" /\ e.n < MAX_ATTEMPTS)

(* The assigned FORGE is started or resumed, with the directive if its chat is new. *)
AssignTicket(e) == IF is_assignable(e) THEN [e EXCEPT !.st = "assigned", !.why = "none"] ELSE e

-----------------------------------------------------------------------------
(* forge_pair and SENTINEL *)

sync_harness_pr_to_pending(e) == [e EXCEPT !.pending = TRUE, !.rearmed = @ \/ e.disp # "none"]

(* A rejection SENTINEL delivers takes the pull request off the queue. *)
remove_rejected_pr_from_pending(e) == [e EXCEPT !.pending = FALSE]

forge_post_batch(e) == IF e.st \in {"assigned", "in_progress"} /\ e.by = "forge" /\ rec.phase = "submit"
                       THEN sync_harness_pr_to_pending(e) ELSE e

sentinel_post(e) == IF rec.delivery = "reject" THEN remove_rejected_pr_from_pending(e) ELSE e

AfterAgents(e) == sentinel_post(forge_post_batch(e))

(* NEXUS, then forge_pair, then SENTINEL *)
Nexus ==
  /\ round.pc = "nexus"
  /\ LET e == recover_orphans(sync_open_prs)
         a == AssignTicket(e)
         new == ~builder.chat /\ (e # a \/ entry.directive)
     IN  /\ entry' = AfterAgents([a EXCEPT !.directive = @ /\ ~new])
         /\ builder' = [chat |-> builder.chat \/ new,
                        busy |-> builder.busy \/ e # a \/ (entry.directive /\ new)]
  /\ rec' = [rec EXCEPT !.delivery = "none"]
  /\ round' = Idle("vessel")
  /\ spent' = [spent EXCEPT !.stale = @ /\ entry'.st = "awaiting"]
  /\ UNCHANGED gh

-----------------------------------------------------------------------------
(* VESSEL: what GitHub's state means (pr_monitor, ci_poller) *)

\* Mutant: feedback given after the dispatch counts as addressed.
AddressedWhateverTheTime == ~gh.onHead /\ entry.disp = "old"

(* Feedback on an older head, given before the last dispatch, and a push since. *)
is_feedback_addressed == ~gh.onHead /\ entry.disp = "old" /\ ~gh.late

applicable_reviews == IF gh.fb = "changes" /\ ~is_feedback_addressed THEN {"changes"} ELSE {}

candidate_review_state == CASE applicable_reviews # {} -> "changes"
                            [] applicable_reviews = {} -> IF gh.ok THEN "approved" ELSE "none"

UnaddressedComments == /\ gh.fb = "comments" /\ ~is_feedback_addressed
                       /\ candidate_review_state # "approved"

classify_from_parts == CASE gh.conflict -> "conflicts"
                         [] ~gh.conflict /\ candidate_review_state = "changes" -> "changes"
                         [] ~gh.conflict /\ candidate_review_state # "changes" ->
                              IF UnaddressedComments THEN "comments"
                              ELSE IF candidate_review_state = "approved" THEN "ready" ELSE "waits"

check_pr_needs_rework == \/ gh.conflict
                         \/ gh.ci = "fail"
                         \/ candidate_review_state = "changes"
                         \/ UnaddressedComments

merge_ready(r) == r.phase = "submit" /\ r.cur /\ r.ok /\ r.human /\ r.delivery = "none"

poll_until_terminal == CASE gh.ci = "fail" -> "ci_failed"
                         [] gh.ci = "slow" -> IF gh.conflict THEN "conflicts" ELSE "ci_timeout"
                         [] gh.ci = "pass" -> "status"

(* VESSEL: exec.  A GitHub approval of the head satisfies the record's gates. *)
reconcile_github_approval == ~merge_ready(rec) /\ candidate_review_state = "approved"
Reconciled(r) == [r EXCEPT !.ok = TRUE, !.human = TRUE, !.delivery = "none"]

relies_on_rework_evidence == gh.fb = "changes" /\ applicable_reviews = {}

Unblocked(e) == [e EXCEPT !.rev = 0,
                          !.disp = IF relies_on_rework_evidence THEN @ ELSE "none",
                          !.st = IF @ = "awaiting" THEN "in_progress" ELSE @,
                          !.by = IF e.st = "awaiting" THEN "vessel" ELSE @]

(* The outcomes of process_single_pr with the record r; a merge may be      *)
(* refused, for a reason or until a review.                                 *)
process_single_pr(r) ==
  IF poll_until_terminal # "status" THEN {poll_until_terminal}
  ELSE CASE classify_from_parts # "ready" -> {classify_from_parts}
         [] classify_from_parts = "ready" ->
              IF ~merge_ready(r) THEN {"waits"}
              ELSE {"merged"} \cup {o \in {"blocked", "waits"} : Meddle(1)}
Refused(r, out) == out \in {"blocked", "waits"} /\ merge_ready(r) /\ classify_from_parts = "ready"

(* A PR that FORGE re-armed rejoins the queue read by the next pass. *)
rearm_review_prs(e) == [e EXCEPT !.pending = @ \/ e.rearmed, !.rearmed = FALSE]

Deferred == /\ round' = Idle("nexus")
            /\ UNCHANGED <<gh, rec, builder, spent>>
            /\ entry' = rearm_review_prs(entry)

(* Not queued, not submitted, or waiting for approvals. *)
exec_defers ==
  /\ round.pc = "vessel"
  /\ ~gh.merged
  /\ \/ ~entry.pending
     \/ rec.phase # "submit"
     \/ /\ rec.cur /\ ~merge_ready(rec) /\ ~reconcile_github_approval
        /\ ~check_pr_needs_rework
  /\ Deferred

(* The head changed after the candidate was submitted. *)
exec_returns_to_building ==
  /\ round.pc = "vessel"
  /\ ~gh.merged /\ entry.pending /\ rec.phase = "submit" /\ ~rec.cur
  /\ rec' = [rec EXCEPT !.phase = "building", !.ok = FALSE, !.human = FALSE,
                        !.delivery = "none"]
  /\ spent' = [spent EXCEPT !.torn = @ \/ ~builder.busy]
  /\ entry' = rearm_review_prs(entry)
  /\ round' = Idle("nexus")
  /\ UNCHANGED <<gh, builder>>

BackToBuilding(r) == [r EXCEPT !.phase = "building", !.ok = FALSE, !.human = FALSE,
                               !.delivery = "none"]

exec_processes(out) ==
  /\ round.pc = "vessel"
  /\ ~gh.merged /\ entry.pending /\ rec.phase = "submit" /\ rec.cur
  /\ merge_ready(rec) \/ reconcile_github_approval \/ check_pr_needs_rework
  /\ LET r == IF reconcile_github_approval THEN Reconciled(rec) ELSE rec
         e == IF reconcile_github_approval THEN Unblocked(entry) ELSE entry
     IN  /\ out \in process_single_pr(r)
         /\ entry' = rearm_review_prs(e)
         /\ rec' = CASE out = "conflicts" -> BackToBuilding(r)      \* handle_conflicts
                     [] out = "merged" -> [r EXCEPT !.phase = "done"]
                     [] out \notin {"conflicts", "merged"} -> r
         /\ gh' = [gh EXCEPT !.merged = out = "merged"]
         /\ round' = [pc |-> "post", out |-> out, hit |-> e.disp = "head" /\ out \in {"changes", "comments"}, same |-> TRUE]
         /\ spent' = Meddled(IF Refused(r, out) THEN 1 ELSE 0)
  /\ UNCHANGED builder

(* A pull request found merged. *)
exec_confirms ==
  /\ round.pc = "vessel" /\ gh.merged
  /\ round' = IF entry.pending THEN [Idle("post") EXCEPT !.out = "merged"] ELSE Idle("nexus")
  /\ entry' = rearm_review_prs(entry)
  /\ UNCHANGED <<gh, rec, builder, spent>>

-----------------------------------------------------------------------------
(* VESSEL: post *)

(* The record goes back to building before anyone is told, unless this head was dispatched. *)
Rework(out) == out \in {"ci_failed", "ci_timeout", "conflicts", "changes", "comments"}
ReworkRecord == IF /\ Rework(round.out) /\ rec.phase = "submit"
                   /\ ~(round.out \in {"changes", "comments"} /\ round.hit)
                THEN BackToBuilding(rec) ELSE rec

mark_ticket_failed(e, why) == [e EXCEPT !.st = "failed", !.by = "forge", !.why = why, !.n = OneMore(@, MAX_ATTEMPTS)]
mark_ticket_awaiting_human(e) == [e EXCEPT !.st = "awaiting", !.by = "forge", !.n = OneMore(@, MAX_ATTEMPTS)]
remove_from_pending_prs(e) == [e EXCEPT !.pending = FALSE]

End == round' = Idle("nexus")

(* dispatch_*_for_pr: into FORGE's chat, or kept as a directive if it has none. *)
Dispatched(sent) == builder.chat /\ sent
Told(sent) == builder' = [builder EXCEPT !.busy = @ \/ Dispatched(sent)]
Kept(e, sent) == [e EXCEPT !.directive = @ \/ ~builder.chat]
Costs(sent, found) == Meddled((IF sent THEN 0 ELSE 1) + (IF found THEN 0 ELSE 1))

\* Mutant: the number of CI fixes is not limited.
UnlimitedCiFixes == FALSE

CiFixesExhausted == entry.ci >= MAX_CI_FIX_ATTEMPTS

assign_worker_for_ci_fix(e) ==
  IF e.st = "in_progress" THEN e ELSE [e EXCEPT !.st = "in_progress", !.by = "forge"]

CiRework(sent, found) ==
  /\ rec' = ReworkRecord
  /\ IF CiFixesExhausted
     THEN /\ sent /\ found
          /\ entry' = remove_from_pending_prs(mark_ticket_failed(entry, "rework"))
          /\ UNCHANGED <<builder, spent>>
     ELSE /\ Told(sent)
          /\ spent' = [Costs(sent, found) EXCEPT
                         !.torn = @ \/ (builder.chat /\ ~sent /\ ~builder.busy /\ found)]
          /\ LET e == remove_from_pending_prs(Kept(entry, sent))
             IN  entry' = IF found THEN [assign_worker_for_ci_fix(e) EXCEPT !.ci = OneMore(@, MAX_CI_FIX_ATTEMPTS)]
                          ELSE mark_ticket_failed(e, "rework")
  /\ End
  /\ UNCHANGED gh

post_ci_failed(sent, found) ==
  round.pc = "post" /\ round.out = "ci_failed" /\ CiRework(sent, found)

post_ci_timeout(sent, found) ==
  round.pc = "post" /\ round.out = "ci_timeout" /\ CiRework(sent, found)

(* A conflict is also sent as /address_review, without recording the head. *)
post_conflicts(sent, found) ==
  /\ round.pc = "post" /\ round.out = "conflicts"
  /\ rec' = ReworkRecord
  /\ IF entry.conf >= MAX_CONFLICT_RESOLUTION_ATTEMPTS
     THEN /\ sent /\ found
          /\ entry' = remove_from_pending_prs(mark_ticket_awaiting_human(entry))
          /\ gh' = [gh EXCEPT !.touched = FALSE]
          /\ spent' = [spent EXCEPT !.stale = gh.ok \/ entry.disp = "old"]
          /\ UNCHANGED builder
     ELSE /\ Told(sent)
          /\ spent' = [Costs(sent, found) EXCEPT
                         !.torn = @ \/ (builder.chat /\ ~sent /\ ~builder.busy /\ found)]
          /\ LET e == remove_from_pending_prs(Kept(entry, sent))
             IN  entry' = IF found THEN [e EXCEPT !.conf = OneMore(@, MAX_CONFLICT_RESOLUTION_ATTEMPTS)]
                          ELSE mark_ticket_failed(e, "rework")
          /\ UNCHANGED gh
  /\ End

(* Reviews.  What could not be sent stays a directive for NEXUS. *)
InProgress(e) == IF e.st = "in_progress" THEN e ELSE [e EXCEPT !.st = "in_progress", !.by = "forge"]

DispatchRecorded(e, sent) ==
  [(IF Dispatched(sent) THEN InProgress(e) ELSE [e EXCEPT !.directive = TRUE]) EXCEPT
     !.disp = IF round.same THEN "head" ELSE "old", !.rev = OneMore(@, MAX_ADDRESS_REVIEW_ATTEMPTS), !.pending = FALSE]

post_reviews(sent) ==
  /\ round.pc = "post" /\ round.out \in {"changes", "comments"}
  /\ rec' = ReworkRecord
  /\ \/ /\ round.hit /\ sent
        /\ entry' = remove_from_pending_prs(entry)
        /\ UNCHANGED <<gh, builder, spent>>
     \/ /\ ~round.hit /\ entry.rev >= MAX_ADDRESS_REVIEW_ATTEMPTS /\ sent
        /\ entry' = remove_from_pending_prs(mark_ticket_awaiting_human(entry))
        /\ gh' = [gh EXCEPT !.touched = FALSE]
        /\ spent' = [spent EXCEPT !.stale = gh.ok \/ entry.disp = "old"]
        /\ UNCHANGED builder
     \/ /\ ~round.hit /\ entry.rev < MAX_ADDRESS_REVIEW_ATTEMPTS
        /\ Told(sent)
        /\ entry' = DispatchRecorded(entry, sent)
        /\ gh' = [gh EXCEPT !.told = gh.fb # "none", !.late = FALSE]
        /\ spent' = [Costs(sent, TRUE) EXCEPT !.torn = @ \/ (builder.chat /\ ~sent /\ ~builder.busy)]
  /\ End

(* MergeBlocked; a pull request that waits for its review stays queued. *)
post_rest ==
  /\ round.pc = "post" /\ round.out \in {"blocked", "merged", "waits"}
  /\ entry' = CASE round.out = "blocked" ->
                     remove_from_pending_prs(mark_ticket_failed(entry, "blocked"))
                [] round.out = "merged" -> [remove_from_pending_prs(entry) EXCEPT !.st = "merged"]
                [] round.out = "waits" -> entry
  /\ End
  /\ UNCHANGED <<gh, rec, builder, spent>>

(* A crash after exec: before anything, after the record moved, or after FORGE was told. *)
Crash(told) ==
  /\ round.pc = "post" /\ Meddle(1)
  /\ \/ /\ ~told /\ rec' \in {rec, ReworkRecord}
        /\ UNCHANGED builder
     \/ /\ told /\ Rework(round.out) /\ builder.chat
        /\ ReworkRecord.phase = "building"
        /\ rec' = ReworkRecord
        /\ builder' = [builder EXCEPT !.busy = TRUE]
  /\ spent' = [Meddled(1) EXCEPT !.torn = @ \/ (rec'.phase = "building" /\ ~builder'.busy)]
  /\ round' = Idle("nexus")
  /\ UNCHANGED <<gh, entry>>

-----------------------------------------------------------------------------
(* Reviewers, FORGE and whoever else pushes *)

Pushed(h) == [gh EXCEPT !.ci = h[1], !.conflict = h[2], !.onHead = FALSE, !.ok = FALSE,
                       !.touched = entry.st = "awaiting"]
DispatchedForOld == [entry EXCEPT !.disp = IF @ = "head" THEN "old" ELSE @]

(* FORGE pushes what it was asked for, or answers without a push; the       *)
(* testing gate is passed and the candidate submitted.                      *)
Resubmit(pushes, h) ==
  /\ builder.busy /\ rec.phase = "building" /\ ~gh.merged
  /\ IF pushes THEN /\ gh' = Pushed(h)
                    /\ entry' = DispatchedForOld
                    /\ round' = [round EXCEPT !.same = round.out \notin {"changes", "comments"}]
     ELSE UNCHANGED <<gh, entry, round>>
  /\ rec' = [rec EXCEPT !.phase = "submit", !.cur = TRUE]
  /\ builder' = [builder EXCEPT !.busy = FALSE]
  /\ UNCHANGED spent

(* What woke FORGE may find the candidate already submitted. *)
NothingToDo ==
  /\ builder.busy /\ rec.phase # "building"
  /\ builder' = [builder EXCEPT !.busy = FALSE]
  /\ UNCHANGED <<gh, entry, rec, round, spent>>

ChatArchived ==
  /\ Meddle(1) /\ builder.chat /\ ~builder.busy
  /\ builder' = [builder EXCEPT !.chat = FALSE]
  /\ spent' = Meddled(1)
  /\ UNCHANGED <<gh, entry, rec, round>>

HumanPush(h) ==
  /\ Meddle(1) /\ ~gh.merged /\ entry.st = "awaiting"
  /\ gh' = Pushed(h)
  /\ entry' = DispatchedForOld
  /\ rec' = [rec EXCEPT !.cur = FALSE]
  /\ round' = [round EXCEPT !.same = round.out \notin {"changes", "comments"}]
  /\ spent' = Meddled(1)
  /\ UNCHANGED builder

Feedback(kind) ==
  /\ spent.feedback < MaxFeedback /\ ~gh.merged /\ rec.phase # "done"
  /\ spent' = [spent EXCEPT !.feedback = @ + 1]
  /\ gh' = [gh EXCEPT !.fb = kind, !.onHead = TRUE, !.told = FALSE, !.late = TRUE,
                      !.ok = @ /\ kind = "changes"]
  /\ UNCHANGED <<entry, rec, builder, round>>

Unreviewed == [gh EXCEPT !.fb = "none", !.onHead = FALSE, !.late = FALSE, !.told = FALSE]

(* The approval replaces the reviewer's own change request, not another's. *)
Approve(own) ==
  /\ ~gh.merged /\ ~gh.ok /\ rec.phase = "submit" /\ rec.cur
  /\ LET g == IF own /\ gh.fb = "changes" THEN Unreviewed ELSE gh
     IN  gh' = [g EXCEPT !.ok = TRUE, !.touched = entry.st = "awaiting"]
  /\ UNCHANGED <<entry, rec, builder, round, spent>>

SentinelDecides(approved) ==
  /\ rec.phase = "submit" /\ ~rec.ok /\ rec.delivery = "none"
  /\ IF approved
     THEN /\ rec' = [rec EXCEPT !.ok = TRUE, !.delivery = "approve"]
          /\ UNCHANGED <<builder, spent>>
     ELSE /\ spent.feedback < MaxFeedback
          /\ spent' = [spent EXCEPT !.feedback = @ + 1]
          /\ rec' = [rec EXCEPT !.phase = "building", !.ok = FALSE, !.human = FALSE,
                                !.delivery = "reject"]
          /\ builder' = [builder EXCEPT !.busy = TRUE]       \* NEXUS forwards the report
  /\ UNCHANGED <<gh, entry, round>>

Controller ==
  \/ Nexus
  \/ exec_defers \/ exec_returns_to_building \/ exec_confirms
  \/ \E out \in Outcome : exec_processes(out)
  \/ \E sent, found \in Choice : /\ (sent \/ found \/ Meddle(2))
                                 /\ \/ post_ci_failed(sent, found) \/ post_ci_timeout(sent, found)
                                    \/ post_conflicts(sent, found)
  \/ \E sent \in Choice : post_reviews(sent)
  \/ post_rest
Forge == NothingToDo \/ \E pushes \in BOOLEAN, h \in Heads : Resubmit(pushes, h)

Next == \/ Controller
        \/ Forge
        \/ ChatArchived
        \/ \E told \in BOOLEAN : Crash(told)
        \/ \E h \in Heads : HumanPush(h)
        \/ \E kind \in {"changes", "comments"} : Feedback(kind)
        \/ \E b \in BOOLEAN : Approve(b) \/ SentinelDecides(b)

Approval == \E own \in BOOLEAN : Approve(own)
Fairness == WF_vars(Controller) /\ WF_vars(Forge) /\ WF_vars(Approval)

Spec == Init /\ [][Next]_vars /\ Fairness

-----------------------------------------------------------------------------
(* A change request is never merged over unless FORGE was sent to it, after *)
(* it was given, and has pushed since: dropping addressed change requests   *)
(* (applicable_reviews) loses none that came while FORGE was at work.       *)
NoFeedbackLost == gh.merged /\ gh.fb = "changes" => gh.told /\ ~gh.onHead

(* A ticket handed to a human is taken up again only after an approval or a *)
(* push since: NEXUS does not mistake its own escalation for one.  Not so   *)
(* when the last directive was for an older head (see the README).          *)
EscalationHolds == entry.st = "awaiting" /\ entry.st' # "awaiting"
                     => gh.touched \/ spent.stale

Settled == \/ gh.merged \/ entry.st = "awaiting"
           \/ entry.st = "failed" /\ entry.n >= MAX_ATTEMPTS
           \/ spent.torn
           \/ rec.phase = "submit" /\ entry.disp = "head" /\ ~builder.busy

(* The interplay of removals, re-adding rules and attempt limits strands no *)
(* pull request: again and again it is merged, with a human, or its ticket  *)
(* failed for good.  Excepted: a record moved back with nobody told, and a  *)
(* directive answered without a push.                                       *)
Settles == []<>Settled

=============================================================================
