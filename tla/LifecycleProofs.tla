--------------------------- MODULE LifecycleProofs ---------------------------
(***************************************************************************)
(* The gates of the ticket lifecycle, for every set of commits and pull    *)
(* requests and every number of events.  The inductive invariant is Gated  *)
(* of ReducerProofs.                                                       *)
(***************************************************************************)
EXTENDS Lifecycle, ReducerProofs

\* Every step of every actor is an accepted, well formed event.
LEMMA StepIsEvent ==
  ASSUME Next
  PROVE  \E actor, ev :
            /\ WellFormed(ev) /\ Accepts(ticket, actor, ev)
            /\ ticket' = Apply(ticket, actor, ev)
<1> USE DEF Commit, WellFormed
<1>1. ASSUME NEW actor \in Actors, NEW ev, Commit(actor, ev), WellFormed(ev)
      PROVE  \E a, e : /\ WellFormed(e) /\ Accepts(ticket, a, e)
                       /\ ticket' = Apply(ticket, a, e)
  BY <1>1, Zenon
<1>2. PICK actor \in Actors :
        \/ Plan(actor) \/ Move(actor) \/ Block(actor) \/ Decide(actor)
        \/ Verified(actor) \/ Pr(actor) \/ ReviewDelivered(actor)
        \/ BeginMerge(actor) \/ CancelMerge(actor) \/ ReconcileMerged(actor)
        \/ Merged(actor)
  BY Zenon DEF Next
<1> USE <1>1
<1>3. CASE Plan(actor)
  BY <1>3, Zenon DEF Plan, PlanEvent
<1>4. CASE Move(actor)
  BY <1>4, Zenon DEF Move, MoveEvent
<1>5. CASE Block(actor)
  BY <1>5, Zenon DEF Block, BlockEvent
<1>6. CASE Decide(actor)
  BY <1>6 DEF Decide, DecideEvent
<1>7. CASE Verified(actor)
  BY <1>7, Zenon DEF Verified, VerifiedEvent
<1>8. CASE Pr(actor)
  BY <1>8, Zenon DEF Pr, PrEvent
<1>9. CASE ReviewDelivered(actor)
  BY <1>9, Zenon DEF ReviewDelivered, ReviewDeliveredEvent
<1>10. CASE BeginMerge(actor)
  BY <1>10, Zenon DEF BeginMerge, BeginMergeEvent
<1>11. CASE CancelMerge(actor)
  BY <1>11, Zenon DEF CancelMerge, CancelMergeEvent
<1>12. CASE ReconcileMerged(actor)
  BY <1>12, Zenon DEF ReconcileMerged, ReconcileMergedEvent
<1>13. CASE Merged(actor)
  BY <1>13, Zenon DEF Merged, MergedEvent
<1> QED
  BY <1>2, <1>3, <1>4, <1>5, <1>6, <1>7, <1>8, <1>9, <1>10, <1>11, <1>12, <1>13, Zenon

\* Every step of every actor preserves the invariant.
LEMMA NextGated ==
  ASSUME Gated(ticket), Next
  PROVE  Gated(ticket')
  BY StepIsEvent, AppliedGated, Zenon

-----------------------------------------------------------------------------
\* Gated is an inductive invariant of the lifecycle.
THEOREM GatedAlways == Spec => []Gated(ticket)
<1>1. Init => Gated(ticket)
  BY InitGated, Zenon DEF Init
<1>2. Gated(ticket) /\ [Next]_ticket => Gated(ticket)'
  <2>1. ASSUME Gated(ticket), UNCHANGED ticket PROVE Gated(ticket)'
    BY <2>1, Zenon
  <2> QED
    BY <2>1, NextGated, Zenon
<1> QED
  BY <1>1, <1>2, PTL DEF Spec

\* Records stay well formed whatever the actors send (Lifecycle::apply).
THEOREM TypeCorrect == Spec => []TypeOK
<1>1. Gated(ticket) => TypeOK
  BY Zenon DEF Gated, TypeOK
<1> QED
  BY <1>1, GatedAlways, PTL

\* merge_ready, which reads five fields, implies every gate of the workflow.
THEOREM MergeGates == Spec => []MergeReadyImpliesGates
<1>1. Gated(ticket) => MergeReadyImpliesGates
  BY Zenon DEF Gated, MergeReadyImpliesGates, MergeReady, VerdictsCurrent, Approved
<1> QED
  BY <1>1, GatedAlways, PTL

\* A merge reservation is held only while the candidate is ready to merge.
THEOREM ReservationReady == Spec => []ReservationIsReady
<1>1. Gated(ticket) => ReservationIsReady
  BY Zenon DEF Gated, ReservationIsReady
<1> QED
  BY <1>1, GatedAlways, PTL

\* A queued review delivery never wedges the ticket (deliverable_review).
THEOREM DeliveryProgress == Spec => []DeliveryNeverStuck
<1>1. Gated(ticket) => DeliveryNeverStuck
  BY Zenon DEF Gated, DeliveryNeverStuck, DeliveryBound, VerdictsCurrent, Deliverable,
         About, Approved
<1> QED
  BY <1>1, GatedAlways, PTL

\* The phase of a review is left forward by a verdict only.
THEOREM VerdictsPassGates == Spec => []OnlyVerdictsPassGates
<1>1. Gated(ticket) => OnlyVerdictsPassGates
  BY Zenon DEF Gated, OnlyVerdictsPassGates, CleanStart, Permitted, Approved
<1> QED
  BY <1>1, GatedAlways, PTL

\* Work is built, tested and submitted under an approved plan only.
THEOREM ApprovedPlan == Spec => []WorkHasApprovedPlan
<1>1. Gated(ticket) => WorkHasApprovedPlan
  BY Zenon DEF Gated, WorkHasApprovedPlan
<1> QED
  BY <1>1, GatedAlways, PTL

-----------------------------------------------------------------------------
(***************************************************************************)
(* What one event may never do to the evidence of a ticket, for every set  *)
(* of commits and pull requests: the action properties of Lifecycle.       *)
(* Besides Gated they rest on Blank, which says that a ticket outside      *)
(* testing and submit holds no evidence at all.                            *)
(***************************************************************************)
Blank(s) ==
    s.phase \notin {"testing", "submit", "done"} =>
        /\ s.head = None /\ s.verified_head = None
        /\ s.test_decision = None /\ s.test_human = None
        /\ s.pr_decision = None /\ s.pr_human = None

\* A step from s to t that replaces the candidate drops what was said of it.
DropsEvidence(s, t) ==
    t.head # s.head =>
        /\ t.verified_head = None
        /\ t.test_decision = None
        /\ t.test_human = None
        /\ t.pr_decision = None
        /\ t.pr_human = None

\* A verdict on a pull request that is kept is kept for the same one.
NotTransferred(s, t) ==
    \A d \in {s.pr_decision, s.pr_human} \ {None} :
        d \in {t.pr_decision, t.pr_human} =>
            \/ t.phase = "done"
            \/ /\ t.pr_number = s.pr_number
               /\ t.review_round = s.review_round
               /\ t.revision = s.revision

Proper(s, t) == Blank(t) /\ DropsEvidence(s, t) /\ NotTransferred(s, t)

\* The fields that Proper speaks of are the same in t and u.
SameEvidence(t, u) ==
    /\ u.phase = t.phase /\ u.head = t.head /\ u.verified_head = t.verified_head
    /\ u.test_decision = t.test_decision /\ u.test_human = t.test_human
    /\ u.pr_decision = t.pr_decision /\ u.pr_human = t.pr_human
    /\ u.pr_number = t.pr_number /\ u.review_round = t.review_round
    /\ u.revision = t.revision

-----------------------------------------------------------------------------
\* A step to a record without evidence (clear_work) is proper.
LEMMA ClearedIsProper ==
  ASSUME NEW s, NEW t,
         t.head = None, t.verified_head = None, t.test_decision = None,
         t.test_human = None, t.pr_decision = None, t.pr_human = None
  PROVE  Proper(s, t)
  BY Zenon DEF Proper, Blank, DropsEvidence, NotTransferred

\* Event::Plan: everything is cleared.
LEMMA PlanProper ==
  ASSUME NEW s \in Records, NEW ev
  PROVE  Proper(s, AfterPlan(s, ev))
<1> DEFINE n == ClearWork(s).revision + 1
           t == [ClearWork(s) EXCEPT !.plan = ev.content, !.revision = n,
                                     !.plan_decision = None]
<1>1. ClearWork(s) \in Records
  BY ClearWorkType, Zenon
<1> HIDE DEF n
<1>2. /\ t.head = None /\ t.verified_head = None /\ t.test_decision = None
      /\ t.test_human = None /\ t.pr_decision = None /\ t.pr_human = None
  BY <1>1, ClearWorkFields, Zenon DEF Records
<1>3. AfterPlan(s, ev) = t
  BY Zenon DEF AfterPlan, n
<1> QED
  BY <1>2, <1>3, ClearedIsProper, Zenon

\* Event::Block: the same, and the phase remembers where it was.
LEMMA BlockProper ==
  ASSUME NEW s \in Records, NEW ev
  PROVE  Proper(s, AfterBlock(s, ev))
<1> DEFINE t == AfterBlock(s, ev)
<1>1. ClearWork(s) \in Records
  BY ClearWorkType
<1>2. /\ t.head = None /\ t.verified_head = None /\ t.test_decision = None
      /\ t.test_human = None /\ t.pr_decision = None /\ t.pr_human = None
  BY <1>1, ClearWorkFields, Zenon DEF Records, AfterBlock
<1> QED
  BY <1>2, ClearedIsProper, Zenon

\* Event::Move: back to work clears; forward starts from a blank record, or
\* goes from testing to submit, which no verdict on a pull request precedes.
LEMMA MoveProper ==
  ASSUME NEW s, Gated(s), Blank(s), NEW actor, NEW ev,
         ev.phase \in Phases, ev.phase # s.phase, s.phase # "done",
         MayMove(s, actor, ev)
  PROVE  Proper(s, AfterMove(s, ev))
<1> DEFINE u == IF ev.phase \in {"planning", "blocked", "building"}
                THEN ClearWork(s) ELSE s
           pd == IF ev.phase \in {"planning", "blocked"} THEN None ELSE u.plan_decision
           pl == IF ev.phase = "planning" THEN "" ELSE u.plan
           hd == IF ev.phase = "testing" THEN ev.head ELSE u.head
           rr == IF ev.phase \in ReviewPhases THEN u.review_round + 1 ELSE u.review_round
           t == [u EXCEPT !.plan_decision = pd, !.plan = pl, !.head = hd,
                          !.review_round = rr, !.pr_delivery = None,
                          !.feedback = None, !.phase = ev.phase]
<1>1. s \in Records /\ ClearWork(s) \in Records
  BY ClearWorkType, Zenon DEF Gated
<1>2. u \in Records
  BY <1>1, Zenon
<1>3. AfterMove(s, ev) = t
  BY Zenon DEF AfterMove
<1>4. CASE ev.phase \in {"planning", "blocked", "building"}
  <2>1. u = ClearWork(s) /\ hd = u.head
    BY <1>4, Zenon
  <2>2. /\ u.head = None /\ u.verified_head = None /\ u.test_decision = None
        /\ u.test_human = None /\ u.pr_decision = None /\ u.pr_human = None
    BY <1>1, <2>1, ClearWorkFields
  <2> HIDE DEF u, pd, pl, rr, hd
  <2>3. /\ t.head = None /\ t.verified_head = None /\ t.test_decision = None
        /\ t.test_human = None /\ t.pr_decision = None /\ t.pr_human = None
    BY <1>2, <2>1, <2>2, Zenon DEF Records
  <2> QED
    BY <1>3, <2>3, ClearedIsProper, Zenon
<1>5. CASE ev.phase \notin {"planning", "blocked", "building"}
  <2>1. u = s
    BY <1>5, Zenon
  <2>2. \/ ev.phase = "plan_ready" /\ s.phase = "planning"
        \/ ev.phase = "testing" /\ s.phase = "building"
        \/ ev.phase = "submit" /\ s.phase = "testing"
    BY <1>5, Zenon DEF MayMove, Permitted
  <2>3. s.pr_decision = None /\ s.pr_human = None
    BY <2>2, Zenon DEF Gated, CleanStart
  <2>4. hd = IF ev.phase = "testing" THEN ev.head ELSE s.head
    BY <2>1, Zenon
  <2> HIDE DEF u, pd, pl, rr, hd
  <2>5. /\ t.phase = ev.phase /\ t.head = hd /\ t.verified_head = s.verified_head
        /\ t.test_decision = s.test_decision /\ t.test_human = s.test_human
        /\ t.pr_decision = None /\ t.pr_human = None
    BY <1>1, <2>1, <2>3, Zenon DEF Records
  <2> HIDE DEF t
  <2>6. Blank(t)
    BY <2>2, <2>4, <2>5, Zenon DEF Blank
  <2>7. DropsEvidence(s, t)
    BY <2>2, <2>4, <2>5, Zenon DEF DropsEvidence, Blank
  <2>8. NotTransferred(s, t)
    BY <2>3, Zenon DEF NotTransferred
  <2> QED
    BY <1>3, <2>6, <2>7, <2>8, Zenon DEF Proper, t
<1> QED
  BY <1>4, <1>5, Zenon

-----------------------------------------------------------------------------
\* A step that keeps head, pull request, round and revision is proper unless
\* the record it starts from had to be blank.
LEMMA KeptIsProper ==
  ASSUME NEW s, Blank(s), NEW t, t.phase = s.phase,
         s.phase \in {"testing", "submit", "done"} \/ SameEvidence(s, t),
         t.head = s.head, t.pr_number = s.pr_number,
         t.review_round = s.review_round, t.revision = s.revision
  PROVE  Proper(s, t)
  BY Zenon DEF Proper, Blank, DropsEvidence, NotTransferred, SameEvidence

\* A done ticket: nothing is required of what it keeps, but the head stays.
LEMMA DoneIsProper ==
  ASSUME NEW s, NEW t, t.phase = "done", t.head = s.head
  PROVE  Proper(s, t)
  BY Zenon DEF Proper, Blank, DropsEvidence, NotTransferred

\* Event::Decide: an approved plan and every rejection clear the work, an
\* approval of the tests opens a review that nobody has decided yet.
LEMMA DecideProper ==
  ASSUME NEW s, Gated(s), Blank(s), NEW actor, NEW ev,
         ev.approved \in BOOLEAN, ev.head \in Option(Heads),
         MayDecide(s, actor, ev)
  PROVE  Proper(s, AfterDecide(s, actor, ev))
<1> DEFINE r == Recorded(s, actor, ev)
           t == AfterDecide(s, actor, ev)
<1>1. s \in Records
  BY Zenon DEF Gated
<1>2. /\ r \in Records
      /\ r.phase = s.phase
      /\ r.revision = s.revision /\ r.review_round = s.review_round
      /\ r.pr_number = s.pr_number /\ r.head = s.head
      /\ ev.phase # "submit" => r.pr_decision = s.pr_decision /\ r.pr_human = s.pr_human
  <2>1. Verdict(s, actor, ev)
    BY <1>1, Zenon DEF Verdict
  <2>2. FieldsRecorded(s, actor, ev, DecisionOf(s, actor, ev), r)
    BY ONLY <2>1, RecordedFields, Zenon
  <2> HIDE DEF r
  <2> QED
    BY ONLY <2>2, Zenon DEF FieldsRecorded
<1>3. /\ ev.phase = s.phase /\ ev.phase \in {"plan_ready", "testing", "submit"}
      /\ actor \in {"sentinel", "human"}
  BY Zenon DEF MayDecide, SameReview, ReviewPhases
<1>4. ClearWork(r) \in Records
  BY <1>2, ClearWorkType, Zenon
<1>5. LET u == ClearWork(r) IN
      /\ u.head = None /\ u.verified_head = None /\ u.test_decision = None
      /\ u.test_human = None /\ u.pr_decision = None /\ u.pr_human = None
  BY <1>2, ClearWorkFields, Zenon
<1>6. t = CASE ev.approved /\ ev.phase = "plan_ready" ->
                  [ClearWork(r) EXCEPT !.phase = "building", !.feedback = None]
            [] ev.approved /\ ev.phase = "testing" /\ actor = "sentinel" ->
                  AfterTestingApproval(r)
            [] ev.approved /\ (ev.phase = "submit" \/ (ev.phase = "testing" /\ actor = "human")) -> r
            [] ~ev.approved ->
                  [ClearWork(r) EXCEPT
                     !.pr_delivery = IF actor = "human" THEN None ELSE @,
                     !.feedback = ev.report,
                     !.phase = IF ev.phase = "plan_ready"
                               THEN "plan_rejected" ELSE "building"]
  BY Zenon DEF AfterDecide
<1> SUFFICES Proper(s, t)
  BY Zenon
<1> HIDE DEF r, t
<1>7. CASE ev.approved /\ ev.phase = "plan_ready"
  <2>1. t = [ClearWork(r) EXCEPT !.phase = "building", !.feedback = None]
    BY <1>6, <1>7, Zenon
  <2>2. /\ t.head = None /\ t.verified_head = None /\ t.test_decision = None
        /\ t.test_human = None /\ t.pr_decision = None /\ t.pr_human = None
    BY <1>4, <1>5, <2>1, Zenon DEF Records
  <2> QED
    BY <2>2, ClearedIsProper, Zenon
<1>8. CASE ev.approved /\ ev.phase = "testing" /\ actor = "sentinel"
  <2>1. t = AfterTestingApproval(r)
    BY <1>6, <1>8, Zenon
  <2>2. s.pr_decision = None /\ s.pr_human = None
    BY <1>3, <1>8, Zenon DEF Gated, CleanStart
  <2>3. t.phase = "submit" /\ t.head = s.head
    BY <1>2, <2>1, Zenon DEF Records, AfterTestingApproval
  <2> QED
    BY <2>2, <2>3, Zenon DEF Proper, Blank, DropsEvidence, NotTransferred
<1>9. CASE ev.approved /\ (ev.phase = "submit" \/ (ev.phase = "testing" /\ actor = "human"))
  <2>1. t = r
    BY <1>6, <1>9, Zenon
  <2> QED
    BY <1>2, <1>3, <1>9, <2>1, KeptIsProper, Zenon
<1>10. CASE ~ev.approved
  <2> DEFINE x == IF actor = "human" THEN None ELSE ClearWork(r).pr_delivery
             p == IF ev.phase = "plan_ready" THEN "plan_rejected" ELSE "building"
  <2>1. t = [ClearWork(r) EXCEPT !.pr_delivery = x, !.feedback = ev.report, !.phase = p]
    BY <1>6, <1>10, Zenon
  <2> HIDE DEF x, p
  <2>2. /\ t.head = None /\ t.verified_head = None /\ t.test_decision = None
        /\ t.test_human = None /\ t.pr_decision = None /\ t.pr_human = None
    BY <1>4, <1>5, <2>1, Zenon DEF Records
  <2> QED
    BY <2>2, ClearedIsProper
<1> QED
  BY <1>3, <1>7, <1>8, <1>9, <1>10, Zenon

\* Event::Verified, Event::ReviewDelivered and the reservation change nothing
\* that a verdict is about.
LEMMA VerifiedProper ==
  ASSUME NEW s \in Records, Blank(s), NEW actor, NEW ev, MayVerified(s, actor, ev)
  PROVE  Proper(s, AfterVerified(s, ev))
<1> DEFINE t == AfterVerified(s, ev)
<1>1. /\ t.phase = s.phase /\ t.head = s.head /\ t.pr_number = s.pr_number
      /\ t.review_round = s.review_round /\ t.revision = s.revision
  BY Zenon DEF Records, AfterVerified
<1>2. s.phase = "testing"
  BY Zenon DEF MayVerified
<1> QED
  BY <1>1, <1>2, KeptIsProper, Zenon

\* Event::ReviewDelivered and the merge reservation change no evidence.
LEMMA MarkProper ==
  ASSUME NEW s \in Records, Blank(s), NEW b
  PROVE  /\ Proper(s, [s EXCEPT !.pr_delivery = b])
         /\ Proper(s, [s EXCEPT !.merge_pending = b])
<1>1. SameEvidence(s, [s EXCEPT !.pr_delivery = b])
  BY Zenon DEF Records, SameEvidence
<1>2. SameEvidence(s, [s EXCEPT !.merge_pending = b])
  BY Zenon DEF Records, SameEvidence
<1>3. ASSUME NEW t, SameEvidence(s, t) PROVE Proper(s, t)
  BY <1>3, KeptIsProper, Zenon DEF SameEvidence
<1> QED
  BY <1>1, <1>2, <1>3, Zenon

\* Event::Pr: another pull request starts without verdicts.
LEMMA PrProper ==
  ASSUME NEW s \in Records, Blank(s), NEW actor, NEW ev, MayPr(s, actor, ev)
  PROVE  Proper(s, AfterPr(s, ev))
<1>1. CASE s.pr_number = ev.number
  <2>1. AfterPr(s, ev) = s
    BY <1>1, Zenon DEF AfterPr
  <2> QED
    BY <2>1, KeptIsProper, Zenon DEF SameEvidence
<1>2. CASE s.pr_number # ev.number
  <2> DEFINE n == s.review_round + 1
             t == [s EXCEPT !.pr_delivery = None, !.pr_decision = None,
                            !.pr_human = None, !.review_round = n,
                            !.pr_number = ev.number]
  <2>1. AfterPr(s, ev) = t
    BY <1>2, Zenon DEF AfterPr
  <2> HIDE DEF n
  <2>2. /\ t.phase = s.phase /\ t.head = s.head
        /\ t.pr_decision = None /\ t.pr_human = None
    BY Zenon DEF Records
  <2>3. s.phase = "submit"
    BY Zenon DEF MayPr
  <2> HIDE DEF t
  <2> QED
    BY <2>1, <2>2, <2>3, Zenon DEF Proper, Blank, DropsEvidence, NotTransferred
<1> QED
  BY <1>1, <1>2, Zenon

\* Event::ReconcileMerged, Event::Merged: the ticket is done.
LEMMA DoneProper ==
  ASSUME NEW s \in Records, NEW ev
  PROVE  Proper(s, AfterReconcileMerged(s, ev)) /\ Proper(s, AfterMerged(s, ev))
<1>1. AfterReconcileMerged(s, ev).phase = "done" /\ AfterReconcileMerged(s, ev).head = s.head
  BY Zenon DEF Records, AfterReconcileMerged
<1>2. AfterMerged(s, ev).phase = "done" /\ AfterMerged(s, ev).head = s.head
  BY Zenon DEF Records, AfterMerged
<1> QED
  BY <1>1, <1>2, DoneIsProper, Zenon

-----------------------------------------------------------------------------
\* Every accepted event has a proper effect.
LEMMA EffectProper ==
  ASSUME NEW s, Gated(s), Blank(s), NEW actor, NEW ev, WellFormed(ev),
         Accepts(s, actor, ev), ~(ev.type = "move" /\ ev.phase = s.phase)
  PROVE  Proper(s, Effect(s, actor, ev))
<1>1. s \in Records
  BY Zenon DEF Gated
<1>2. s.phase # "done"
  BY Zenon DEF Accepts
<1>3. CASE ev.type = "plan" /\ MayPlan(s, actor, ev)
  BY <1>1, <1>3, PlanProper, Zenon DEF Effect
<1>4. CASE ev.type = "move" /\ MayMove(s, actor, ev)
  BY <1>2, <1>4, MoveProper, Zenon DEF Effect, WellFormed
<1>5. CASE ev.type = "block" /\ MayBlock(ev)
  BY <1>1, <1>5, BlockProper, Zenon DEF Effect
<1>6. CASE ev.type = "decide" /\ MayDecide(s, actor, ev)
  BY <1>6, DecideProper DEF Effect, WellFormed
<1>7. CASE ev.type = "verified" /\ MayVerified(s, actor, ev)
  BY <1>1, <1>7, VerifiedProper, Zenon DEF Effect
<1>8. CASE ev.type = "pr" /\ MayPr(s, actor, ev)
  BY <1>1, <1>8, PrProper, Zenon DEF Effect
<1>9. CASE ev.type = "review_delivered"
  BY <1>1, <1>9, MarkProper, Zenon DEF Effect, AfterReviewDelivered
<1>10. CASE ev.type = "begin_merge"
  BY <1>1, <1>10, MarkProper, Zenon DEF Effect, AfterBeginMerge
<1>11. CASE ev.type = "cancel_merge"
  BY <1>1, <1>11, MarkProper, Zenon DEF Effect, AfterCancelMerge
<1>12. CASE ev.type = "reconcile_merged"
  BY <1>1, <1>12, DoneProper, Zenon DEF Effect
<1>13. CASE ev.type = "merged"
  BY <1>1, <1>13, DoneProper, Zenon DEF Effect
<1> QED
  BY <1>3, <1>4, <1>5, <1>6, <1>7, <1>8, <1>9, <1>10, <1>11, <1>12, <1>13, Zenon DEF Accepts

\* Advancing the version changes nothing that Proper speaks of.
LEMMA VersionProper ==
  ASSUME NEW s, NEW t \in Records, Proper(s, t)
  PROVE  Proper(s, [t EXCEPT !.version = @ + 1])
<1> DEFINE n == t.version + 1
           u == [t EXCEPT !.version = n]
<1> HIDE DEF n
<1>1. SameEvidence(t, u)
  BY Zenon DEF Records, SameEvidence
<1> HIDE DEF u
<1>2. Proper(s, u)
  BY <1>1, Zenon DEF Proper, Blank, DropsEvidence, NotTransferred, SameEvidence
<1> QED
  BY <1>2, Zenon DEF u, n

\* Every step of every actor is proper.
LEMMA NextProper ==
  ASSUME Gated(ticket), Blank(ticket), Next
  PROVE  Proper(ticket, ticket')
<1>1. PICK actor, ev : /\ WellFormed(ev) /\ Accepts(ticket, actor, ev)
                       /\ ticket' = Apply(ticket, actor, ev)
  BY StepIsEvent, Zenon
<1>2. CASE ev.type = "move" /\ ev.phase = ticket.phase
  <2>1. ticket' = ticket
    BY <1>1, <1>2, Zenon DEF Apply
  <2> QED
    BY <2>1, KeptIsProper, Zenon DEF SameEvidence
<1>3. CASE ~(ev.type = "move" /\ ev.phase = ticket.phase)
  <2>1. Proper(ticket, Effect(ticket, actor, ev))
    BY <1>1, <1>3, EffectProper, Zenon
  <2>2. Effect(ticket, actor, ev) \in Records
    BY <1>1, <1>3, EffectGated, Zenon DEF Gated
  <2> QED
    BY <1>1, <1>3, <2>1, <2>2, VersionProper, Zenon DEF Apply
<1> QED
  BY <1>2, <1>3, Zenon

\* The records a ticket can start from are blank outside submit.
LEMMA InitBlank == ASSUME NEW s \in InitialRecords PROVE Blank(s)
<1>1. CASE s = Default
  BY <1>1, Zenon DEF Blank, Default
<1>3. CASE s = LegacyActive
  BY <1>3, Zenon DEF Blank, Default, LegacyActive
<1>4. CASE s = LegacyDone
  <2>1. s.phase = "done"
    BY <1>4, Zenon DEF Default, LegacyActive, LegacyDone
  <2> QED
    BY <2>1, Zenon DEF Blank
<1>2. ASSUME NEW h \in Heads, NEW n \in PRs, s = Normalised(UnboundSubmit(h, n))
      PROVE  Blank(s)
  <2>1. UnboundSubmit(h, n).phase = "submit"
    BY Zenon DEF UnboundSubmit, Default
  <2>2. s.phase = "submit"
    BY <1>2, <2>1, Zenon DEF Normalised, UnboundSubmit, Default
  <2> QED
    BY <2>2, Zenon DEF Blank
<1> QED
  BY <1>1, <1>2, <1>3, <1>4 DEF InitialRecords

-----------------------------------------------------------------------------
\* A ticket that is neither tested nor submitted nor done holds no evidence
\* about any commit (clear_work on every way back).
THEOREM BlankAlways == Spec => []Blank(ticket)
<1>1. Init => Blank(ticket)
  BY InitBlank DEF Init
<1>2. Gated(ticket) /\ Blank(ticket) /\ [Next]_ticket => Blank(ticket)'
  <2>1. ASSUME Blank(ticket), UNCHANGED ticket PROVE Blank(ticket)'
    BY <2>1
  <2>2. ASSUME Gated(ticket), Blank(ticket), Next PROVE Blank(ticket')
    BY <2>2, NextProper, Zenon DEF Proper
  <2> QED
    BY <2>1, <2>2, Zenon
<1> QED
  BY <1>1, <1>2, GatedAlways, PTL DEF Spec

\* Replacing the candidate drops all evidence about the old one, whatever
\* event of Lifecycle::apply replaces it.
THEOREM EvidenceDropped == Spec => HeadChangeDropsEvidence
<1>1. Gated(ticket) /\ Blank(ticket) /\ [Next]_ticket =>
        [DropsEvidence(ticket, ticket')]_ticket
  BY NextProper, Zenon DEF Proper
<1>2. [DropsEvidence(ticket, ticket')]_ticket =>
        [ ticket'.head # ticket.head =>
            /\ ticket'.verified_head = None
            /\ ticket'.test_decision = None
            /\ ticket'.test_human = None
            /\ ticket'.pr_decision = None
            /\ ticket'.pr_human = None ]_ticket
  BY Zenon DEF DropsEvidence
<1> QED
  BY <1>1, <1>2, GatedAlways, BlankAlways, PTL DEF Spec, HeadChangeDropsEvidence

\* A verdict on a pull request is never carried over to another pull request,
\* review round or revision (Event::Pr, Event::Move, Event::Plan).
THEOREM VerdictsStay == Spec => VerdictsNotTransferred
<1>1. Gated(ticket) /\ Blank(ticket) /\ [Next]_ticket =>
        [NotTransferred(ticket, ticket')]_ticket
  BY NextProper, Zenon DEF Proper
<1>2. [NotTransferred(ticket, ticket')]_ticket =>
        [ \A d \in {ticket.pr_decision, ticket.pr_human} \ {None} :
            d \in {ticket'.pr_decision, ticket'.pr_human} =>
               \/ ticket'.phase = "done"
               \/ /\ ticket'.pr_number = ticket.pr_number
                  /\ ticket'.review_round = ticket.review_round
                  /\ ticket'.revision = ticket.revision ]_ticket
  BY Zenon DEF NotTransferred
<1> QED
  BY <1>1, <1>2, GatedAlways, BlankAlways, PTL DEF Spec, VerdictsNotTransferred
=============================================================================
