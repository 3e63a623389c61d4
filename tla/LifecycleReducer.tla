-------------------------- MODULE LifecycleReducer --------------------------
(***************************************************************************)
(* The ticket reducer of config::lifecycle: the versioned record a ticket  *)
(* is stored as, the events that may be applied to it, when an event is    *)
(* accepted and the record it produces.  Pure operators: the state         *)
(* machines that use them are Lifecycle (atomic) and TicketStore (the      *)
(* compare-and-set of pocketflow-core).                                    *)
(*                                                                         *)
(* Data abstraction: a commit is a member of Heads, a pull request number  *)
(* a natural number of PRs, free text is "" (blank after trim) or "text",  *)
(* an absent Option is None.  Timestamps, the report of a decision and the *)
(* history vector are left out: nothing in the code branches on them.      *)
(***************************************************************************)
EXTENDS Naturals

CONSTANTS Heads, PRs, None

ASSUME HeadsAssumption == None \notin Heads
ASSUME PRsAssumption == PRs \subseteq Nat \ {0} /\ None \notin Nat

Texts == {"", "text"}

ASSUME TextsAssumption == None \notin Texts

Phases == {"planning", "plan_ready", "plan_rejected", "building", "testing",
           "submit", "done", "blocked"}

Actors == {"forge", "sentinel", "human", "vessel"}

ReviewPhases == {"plan_ready", "testing", "submit"}

Option(S) == S \cup {None}

Decisions ==
    [pr_number : Option(PRs), round : Nat, actor : {"sentinel", "human"},
     approved : BOOLEAN, revision : Nat, head : Option(Heads)]

ASSUME DecisionsAssumption == None \notin Decisions

Records ==
    [merge_pending     : BOOLEAN,
     pr_delivery       : Option(Decisions),
     review_round      : Nat,
     version           : Nat,
     phase             : Phases,
     plan              : Texts,
     revision          : Nat,
     head              : Option(Heads),
     plan_decision     : Option(Decisions),
     test_decision     : Option(Decisions),
     test_human        : Option(Decisions),
     pr_decision       : Option(Decisions),
     pr_human          : Option(Decisions),
     verified_head     : Option(Heads),
     verification_task : Option(Texts),
     pr_number         : Option(PRs),
     merge_sha         : Option(Texts),
     feedback          : Option(Texts)]

\* Lifecycle::default(), what decode returns for an absent key.
Default ==
    [merge_pending |-> FALSE, pr_delivery |-> None, review_round |-> 0,
     version |-> 0, phase |-> "planning", plan |-> "", revision |-> 0,
     head |-> None, plan_decision |-> None, test_decision |-> None,
     test_human |-> None, pr_decision |-> None, pr_human |-> None,
     verified_head |-> None, verification_task |-> None, pr_number |-> None,
     merge_sha |-> None, feedback |-> None]

\* What decode makes of a legacy scalar or object status: an active ticket
\* starts over in planning, a merged one stays done.
LegacyActive == [Default EXCEPT !.feedback = "text"]
LegacyDone == [LegacyActive EXCEPT !.phase = "done"]

Approved(d) == d # None /\ d.approved

\* A versioned record of an older release, in submit, whose queued review
\* delivery does not name its pull request.
UnboundVerdict(actor, round, head) ==
    [pr_number |-> None, round |-> round, actor |-> actor, approved |-> TRUE,
     revision |-> 1, head |-> head]

UnboundSubmit(h, n) ==
    [Default EXCEPT
       !.version = 9, !.phase = "submit", !.plan = "text", !.revision = 1,
       !.review_round = 4, !.head = h, !.verified_head = h,
       !.verification_task = "text", !.pr_number = n,
       !.plan_decision = UnboundVerdict("sentinel", 1, None),
       !.test_decision = UnboundVerdict("sentinel", 2, h),
       !.pr_decision = UnboundVerdict("sentinel", 4, h),
       !.pr_human = UnboundVerdict("human", 4, h),
       !.pr_delivery = UnboundVerdict("sentinel", 4, h)]

\* Decoding a versioned record drops a delivery that does not name its pull
\* request, and the approvals it would have proved delivered.
Normalised(s) ==
    IF s.pr_delivery # None /\ s.pr_delivery.pr_number = None
    THEN [s EXCEPT !.pr_delivery = None, !.pr_decision = None, !.pr_human = None]
    ELSE s

\* The records a ticket can start from: an absent key or one an older release
\* left behind.
InitialRecords ==
    {Default, LegacyActive, LegacyDone} \cup
        {Normalised(UnboundSubmit(h, n)) : h \in Heads, n \in PRs}

(***************************************************************************)
(* merge_ready and deliverable_review: the two questions other components  *)
(* ask of a record.                                                        *)
(***************************************************************************)
MergeReady(s, head) ==
    /\ s.pr_delivery = None
    /\ s.phase = "submit"
    /\ s.head = head
    /\ Approved(s.pr_decision)
    /\ Approved(s.pr_human)

Deliverable(s) ==
    LET d == s.pr_delivery
    IN  /\ d # None
        /\ d.pr_number # None
        /\ d.pr_number = s.pr_number
        /\ d.round = s.review_round
        /\ d.revision = s.revision
        /\ \/ /\ d.approved
              /\ s.phase = "submit"
              /\ d.head = s.head
              /\ s.pr_decision = d
              /\ Approved(s.pr_human)
           \/ ~d.approved /\ s.phase = "building"

(***************************************************************************)
(* The gates a candidate passes, as the properties of the lifecycle speak  *)
(* of them.                                                                *)
(***************************************************************************)
\* The verdict d was given on the candidate the record now holds.
About(s, d) ==
    /\ d.head = s.head
    /\ d.revision = s.revision
    /\ d.round = s.review_round
    /\ d.pr_number = s.pr_number

\* The plan of the current revision was approved.
PlanGate(s) == Approved(s.plan_decision) /\ s.plan_decision.revision = s.revision

\* The current head was verified and passed SENTINEL's testing review under
\* the current plan.
TestGate(s) ==
    /\ s.head # None
    /\ s.verified_head = s.head
    /\ s.verification_task # None
    /\ Approved(s.test_decision)
    /\ s.test_decision.head = s.head
    /\ s.test_decision.revision = s.revision

\* Mutant: the human verdict on the tested commit survives.
ClearWorkKeepsHumanTest(s) ==
    [s EXCEPT !.head = None, !.verified_head = None,
              !.verification_task = None, !.test_decision = None,
              !.pr_decision = None, !.pr_human = None]

\* Everything that belongs to one candidate commit.
ClearWork(s) ==
    [s EXCEPT !.head = None, !.verified_head = None,
              !.verification_task = None, !.test_decision = None,
              !.test_human = None, !.pr_decision = None, !.pr_human = None]

(***************************************************************************)
(* Events.                                                                 *)
(***************************************************************************)
PlanEvent(content) == [type |-> "plan", content |-> content]
MoveEvent(phase, head) == [type |-> "move", phase |-> phase, head |-> head]
BlockEvent(reason) == [type |-> "block", reason |-> reason]
DecideEvent(phase, round, revision, head, approved, report) ==
    [type |-> "decide", phase |-> phase, round |-> round,
     revision |-> revision, head |-> head, approved |-> approved,
     report |-> report]
VerifiedEvent(head, task) == [type |-> "verified", head |-> head, task |-> task]
PrEvent(number) == [type |-> "pr", number |-> number]
ReviewDeliveredEvent(round) == [type |-> "review_delivered", round |-> round]
BeginMergeEvent(head) == [type |-> "begin_merge", head |-> head]
CancelMergeEvent == [type |-> "cancel_merge"]
ReconcileMergedEvent(number, sha) ==
    [type |-> "reconcile_merged", number |-> number, sha |-> sha]
MergedEvent(number, head, sha) ==
    [type |-> "merged", number |-> number, head |-> head, sha |-> sha]

(***************************************************************************)
(* Event::Plan                                                             *)
(***************************************************************************)
MayPlan(s, actor, ev) ==
    actor = "forge" /\ s.phase = "planning" /\ ev.content # ""

AfterPlan(s, ev) ==
    [ClearWork(s) EXCEPT !.plan = ev.content, !.revision = @ + 1,
                         !.plan_decision = None]

(***************************************************************************)
(* Event::Move                                                             *)
(***************************************************************************)
Permitted(s, to, head) ==
    \/ to = "blocked"
    \/ to = "planning"
    \/ s.phase = "planning" /\ to = "plan_ready" /\ s.plan # "" /\ s.revision > 0
    \/ /\ s.phase = "plan_ready" /\ to = "building"
       /\ Approved(s.plan_decision)
       /\ s.plan_decision.revision = s.revision
    \/ s.phase = "building" /\ to = "testing" /\ head # None
    \/ /\ s.phase = "testing" /\ to = "submit"
       /\ Approved(s.test_decision)
       /\ s.test_decision.revision = s.revision
       /\ s.test_decision.round = s.review_round
       /\ s.test_decision.head = s.head
       /\ s.verified_head = s.head
       /\ s.verification_task # None
       /\ s.head # None
    \/ s.phase \in {"testing", "submit"} /\ to = "building"

MayMove(s, actor, ev) ==
    /\ \/ actor = "forge"
       \/ actor = "vessel" /\ ev.phase = "building"
       \/ actor = "sentinel" /\ s.phase = "testing" /\ ev.phase = "blocked"
    /\ s.phase = ev.phase \/ Permitted(s, ev.phase, ev.head)

AfterMove(s, ev) ==
    LET t == IF ev.phase \in {"planning", "blocked", "building"}
             THEN ClearWork(s) ELSE s
    IN  [t EXCEPT
           !.plan_decision = IF ev.phase \in {"planning", "blocked"} THEN None ELSE @,
           !.plan = IF ev.phase = "planning" THEN "" ELSE @,
           !.head = IF ev.phase = "testing" THEN ev.head ELSE @,
           !.review_round = IF ev.phase \in ReviewPhases THEN @ + 1 ELSE @,
           !.pr_delivery = None,
           !.feedback = None,
           !.phase = ev.phase]

(***************************************************************************)
(* Event::Block                                                            *)
(***************************************************************************)
MayBlock(ev) == ev.reason # ""

AfterBlock(s, ev) ==
    [ClearWork(s) EXCEPT !.plan_decision = None, !.pr_delivery = None,
                         !.feedback = ev.reason, !.phase = "blocked"]

(***************************************************************************)
(* Event::Decide                                                           *)
(***************************************************************************)
\* Mutant: the plan revision of the verdict is not compared.
SameReviewAnyRevision(s, ev) == ev.phase = s.phase /\ ev.round = s.review_round

\* The verdict names the review that is open.
SameReview(s, ev) ==
    ev.phase = s.phase /\ ev.round = s.review_round /\ ev.revision = s.revision

MayDecide(s, actor, ev) ==
    /\ SameReview(s, ev)
    /\ ev.report # ""
    /\ actor \in {"sentinel", "human"}
    /\ ev.phase = "plan_ready" => actor = "sentinel"
    /\ ev.phase \in ReviewPhases
    /\ ev.phase # "plan_ready" =>
          /\ ev.head # None
          /\ ev.head = s.head
          /\ (ev.approved /\ ev.phase = "testing") =>
                s.verified_head = s.head /\ s.verification_task # None
          /\ ev.phase = "submit" => s.pr_number # None

DecisionOf(s, actor, ev) ==
    [pr_number |-> IF ev.phase = "submit" THEN s.pr_number ELSE None,
     round |-> ev.round, actor |-> actor, approved |-> ev.approved,
     revision |-> ev.revision, head |-> ev.head]

\* The verdict stored in the slot of its phase and reviewer.
Recorded(s, actor, ev) ==
    LET d == DecisionOf(s, actor, ev)
    IN  CASE ev.phase = "plan_ready" -> [s EXCEPT !.plan_decision = d]
          [] ev.phase = "testing" /\ actor = "sentinel" -> [s EXCEPT !.test_decision = d]
          [] ev.phase = "testing" /\ actor # "sentinel" -> [s EXCEPT !.test_human = d]
          [] ev.phase = "submit" /\ actor = "sentinel" ->
                [s EXCEPT !.pr_decision = d, !.pr_delivery = d]
          [] ev.phase = "submit" /\ actor # "sentinel" -> [s EXCEPT !.pr_human = d]

\* Mutant: the approval is recorded and the phase left to FORGE's move.
AfterTestingApprovalStays(t) == [t EXCEPT !.feedback = None]

\* SENTINEL's approval of the tests opens the pull request review.
AfterTestingApproval(t) ==
    [t EXCEPT !.phase = "submit", !.review_round = @ + 1,
              !.pr_delivery = None, !.feedback = None]

AfterDecide(s, actor, ev) ==
    LET t == Recorded(s, actor, ev)
    IN  CASE ev.approved /\ ev.phase = "plan_ready" ->
                [ClearWork(t) EXCEPT !.phase = "building", !.feedback = None]
          [] ev.approved /\ ev.phase = "testing" /\ actor = "sentinel" ->
                AfterTestingApproval(t)
          [] ev.approved /\ (ev.phase = "submit" \/ (ev.phase = "testing" /\ actor = "human")) -> t
          [] ~ev.approved ->
                [ClearWork(t) EXCEPT
                   !.pr_delivery = IF actor = "human" THEN None ELSE @,
                   !.feedback = ev.report,
                   !.phase = IF ev.phase = "plan_ready"
                             THEN "plan_rejected" ELSE "building"]

(***************************************************************************)
(* Event::Verified, Event::Pr, Event::ReviewDelivered                      *)
(***************************************************************************)
MayVerified(s, actor, ev) ==
    /\ actor = "sentinel" /\ s.phase = "testing"
    /\ s.head = ev.head /\ ev.task # ""

AfterVerified(s, ev) ==
    [s EXCEPT !.verified_head = ev.head, !.verification_task = ev.task]

\* Mutant: pull request number zero is recorded.
MayPrZero(s, actor, ev) == actor = "forge" /\ s.phase = "submit"

MayPr(s, actor, ev) == actor = "forge" /\ s.phase = "submit" /\ ev.number > 0

\* Mutants: a replaced pull request keeps its approvals, or its queued review.
AfterPrKeepsApprovals(s, ev) ==
    IF s.pr_number = ev.number THEN s
    ELSE [s EXCEPT !.pr_delivery = None, !.review_round = @ + 1,
                   !.pr_number = ev.number]

AfterPrKeepsDelivery(s, ev) ==
    IF s.pr_number = ev.number THEN s
    ELSE [s EXCEPT !.pr_decision = None, !.pr_human = None,
                   !.review_round = @ + 1, !.pr_number = ev.number]

AfterPr(s, ev) ==
    IF s.pr_number = ev.number THEN s
    ELSE [s EXCEPT !.pr_delivery = None, !.pr_decision = None,
                   !.pr_human = None, !.review_round = @ + 1,
                   !.pr_number = ev.number]

MayReviewDelivered(s, actor, ev) ==
    /\ actor = "sentinel"
    /\ s.pr_delivery # None
    /\ s.pr_delivery.round = ev.round

AfterReviewDelivered(s) == [s EXCEPT !.pr_delivery = None]

(***************************************************************************)
(* Event::BeginMerge, CancelMerge, ReconcileMerged, Merged                 *)
(***************************************************************************)
MayBeginMerge(s, actor, ev) == actor = "vessel" /\ MergeReady(s, ev.head)

AfterBeginMerge(s) == [s EXCEPT !.merge_pending = TRUE]

MayCancelMerge(actor) == actor = "vessel"

AfterCancelMerge(s) == [s EXCEPT !.merge_pending = FALSE]

MayReconcileMerged(actor, ev) == actor = "vessel" /\ ev.number > 0 /\ ev.sha # ""

AfterReconcileMerged(s, ev) ==
    [s EXCEPT !.phase = "done", !.pr_number = ev.number, !.merge_sha = ev.sha,
              !.merge_pending = FALSE]

MayMerged(s, actor, ev) ==
    /\ actor = "vessel"
    /\ MergeReady(s, ev.head)
    /\ s.pr_number = ev.number
    /\ ev.sha # ""

\* Mutant: the candidate is recorded instead of GitHub's merge commit.
AfterMergedCandidate(s, ev) ==
    [s EXCEPT !.phase = "done", !.merge_sha = ev.head, !.merge_pending = FALSE]

AfterMerged(s, ev) ==
    [s EXCEPT !.phase = "done", !.merge_sha = ev.sha, !.merge_pending = FALSE]

(***************************************************************************)
(* Lifecycle::apply                                                        *)
(***************************************************************************)
\* Mutant: rework may interrupt a merge that is being reconciled.
ReservationAllowsMove(s, ev) ==
    s.merge_pending => ev.type \in {"merged", "cancel_merge", "reconcile_merged", "move"}

\* A merge reservation excludes every other event.
ReservationAllows(s, ev) ==
    s.merge_pending => ev.type \in {"merged", "cancel_merge", "reconcile_merged"}

Accepts(s, actor, ev) ==
    /\ s.phase # "done"
    /\ ReservationAllows(s, ev)
    /\ \/ ev.type = "plan" /\ MayPlan(s, actor, ev)
       \/ ev.type = "move" /\ MayMove(s, actor, ev)
       \/ ev.type = "block" /\ MayBlock(ev)
       \/ ev.type = "decide" /\ MayDecide(s, actor, ev)
       \/ ev.type = "verified" /\ MayVerified(s, actor, ev)
       \/ ev.type = "pr" /\ MayPr(s, actor, ev)
       \/ ev.type = "review_delivered" /\ MayReviewDelivered(s, actor, ev)
       \/ ev.type = "begin_merge" /\ MayBeginMerge(s, actor, ev)
       \/ ev.type = "cancel_merge" /\ MayCancelMerge(actor)
       \/ ev.type = "reconcile_merged" /\ MayReconcileMerged(actor, ev)
       \/ ev.type = "merged" /\ MayMerged(s, actor, ev)

Effect(s, actor, ev) ==
    CASE ev.type = "plan" -> AfterPlan(s, ev)
      [] ev.type = "move" -> AfterMove(s, ev)
      [] ev.type = "block" -> AfterBlock(s, ev)
      [] ev.type = "decide" -> AfterDecide(s, actor, ev)
      [] ev.type = "verified" -> AfterVerified(s, ev)
      [] ev.type = "pr" -> AfterPr(s, ev)
      [] ev.type = "review_delivered" -> AfterReviewDelivered(s)
      [] ev.type = "begin_merge" -> AfterBeginMerge(s)
      [] ev.type = "cancel_merge" -> AfterCancelMerge(s)
      [] ev.type = "reconcile_merged" -> AfterReconcileMerged(s, ev)
      [] ev.type = "merged" -> AfterMerged(s, ev)

\* Mutant: only a change of phase advances the version.
ApplyCountsPhases(s, actor, ev) ==
    IF ev.type = "move" /\ ev.phase = s.phase
    THEN s
    ELSE LET t == Effect(s, actor, ev)
         IN  [t EXCEPT !.version = IF t.phase = s.phase THEN @ ELSE @ + 1]

\* A move to the current phase returns the record as it is; every other
\* accepted event advances the version.
Apply(s, actor, ev) ==
    IF ev.type = "move" /\ ev.phase = s.phase
    THEN s
    ELSE LET t == Effect(s, actor, ev) IN [t EXCEPT !.version = @ + 1]
=============================================================================
