--------------------------- MODULE ReducerProofs ----------------------------
(***************************************************************************)
(* What Lifecycle::apply preserves, for every set of commits and pull      *)
(* requests: Gated, what each phase promises about the evidence stored     *)
(* with it.  One lemma per event, no state machine: the atomic lifecycle   *)
(* and the compare-and-set of the store both rest on these.                *)
(***************************************************************************)
EXTENDS LifecycleReducer, TLAPS

\* Evidence is cleared before a review phase is entered.
CleanStart(s) ==
    /\ s.phase \in {"planning", "plan_ready"} => s.plan_decision = None
    /\ s.phase \in {"building", "testing"} => s.test_decision = None
    /\ s.phase \notin {"submit", "done"} => s.pr_decision = None /\ s.pr_human = None

\* In submit, every verdict on the pull request is about what is submitted.
VerdictsCurrent(s) ==
    s.phase = "submit" =>
        /\ s.pr_decision # None => About(s, s.pr_decision) /\ s.pr_number # None
        /\ s.pr_human # None => About(s, s.pr_human) /\ s.pr_number # None

\* A queued delivery is the approval under review or the rejection that
\* returned the ticket to building.
DeliveryBound(s) ==
    (s.pr_delivery # None /\ s.phase # "done") =>
        \/ s.phase = "submit" /\ s.pr_delivery = s.pr_decision /\ s.pr_delivery.approved
        \/ /\ s.phase = "building" /\ ~s.pr_delivery.approved
           /\ s.pr_number # None
           /\ s.pr_delivery.pr_number = s.pr_number
           /\ s.pr_delivery.round = s.review_round
           /\ s.pr_delivery.revision = s.revision

Gated(s) ==
    /\ s \in Records
    /\ CleanStart(s)
    /\ s.phase \in {"building", "testing", "submit"} => PlanGate(s)
    /\ s.phase = "submit" => TestGate(s)
    /\ VerdictsCurrent(s)
    /\ DeliveryBound(s)
    /\ s.merge_pending => MergeReady(s, s.head)

-----------------------------------------------------------------------------
\* An absent option has the type of every option.
LEMMA NoneIsOption == ASSUME NEW S PROVE None \in Option(S)
  BY Zenon DEF Option

\* A present option too.
LEMMA SomeIsOption == ASSUME NEW S, NEW x \in S PROVE x \in Option(S)
  BY Zenon DEF Option

\* clear_work keeps the type and resets the evidence about a commit only.
LEMMA ClearWorkType == ASSUME NEW s \in Records PROVE ClearWork(s) \in Records
  BY NoneIsOption, Zenon DEF Records, ClearWork

\* What clear_work resets, and what it leaves alone.
LEMMA ClearWorkFields ==
  ASSUME NEW s \in Records
  PROVE  LET t == ClearWork(s) IN
         /\ t.phase = s.phase /\ t.merge_pending = s.merge_pending
         /\ t.plan = s.plan /\ t.revision = s.revision
         /\ t.review_round = s.review_round /\ t.pr_number = s.pr_number
         /\ t.plan_decision = s.plan_decision /\ t.pr_delivery = s.pr_delivery
         /\ t.head = None /\ t.verified_head = None /\ t.verification_task = None
         /\ t.test_decision = None /\ t.test_human = None
         /\ t.pr_decision = None /\ t.pr_human = None
  BY Zenon DEF Records, ClearWork

\* Advancing the version disturbs nothing the invariant speaks of.
LEMMA VersionIrrelevant ==
  ASSUME NEW s, Gated(s)
  PROVE  Gated([s EXCEPT !.version = @ + 1])
<1> DEFINE t == [s EXCEPT !.version = @ + 1]
<1>1. s \in Records
  BY Zenon DEF Gated
<1>2. t \in Records
  BY <1>1 DEF Records
<1>3. /\ t.phase = s.phase /\ t.merge_pending = s.merge_pending
      /\ t.revision = s.revision /\ t.review_round = s.review_round
      /\ t.pr_number = s.pr_number /\ t.plan_decision = s.plan_decision
      /\ t.pr_delivery = s.pr_delivery /\ t.head = s.head
      /\ t.verified_head = s.verified_head
      /\ t.verification_task = s.verification_task
      /\ t.test_decision = s.test_decision
      /\ t.pr_decision = s.pr_decision /\ t.pr_human = s.pr_human
  BY <1>1, Zenon DEF Records
<1> HIDE DEF t
<1>4. Gated(t)
  BY <1>2, <1>3 DEF Gated, CleanStart, VerdictsCurrent, DeliveryBound,
                    PlanGate, TestGate, About, MergeReady
<1> QED
  BY <1>4, Zenon DEF t

-----------------------------------------------------------------------------
\* Event::Plan uploads a revision while planning.
LEMMA PlanGated ==
  ASSUME NEW s, Gated(s), ~s.merge_pending, NEW actor, NEW ev,
         ev.content \in Texts, MayPlan(s, actor, ev)
  PROVE  Gated(AfterPlan(s, ev))
<1> DEFINE n == ClearWork(s).revision + 1
           t == [ClearWork(s) EXCEPT !.plan = ev.content, !.revision = n,
                                     !.plan_decision = None]
<1>1. s \in Records /\ ClearWork(s) \in Records
  BY ClearWorkType, Zenon DEF Gated
<1>2. n \in Nat
  BY <1>1 DEF Records
<1> HIDE DEF n
<1>3. t \in Records
  BY <1>1, <1>2, NoneIsOption, Zenon DEF Records
<1>4. /\ t.phase = "planning" /\ t.merge_pending = s.merge_pending
      /\ t.pr_decision = None /\ t.pr_human = None
      /\ t.plan_decision = None /\ t.pr_delivery = s.pr_delivery
  BY <1>1, ClearWorkFields, Zenon DEF Records, MayPlan
<1>5. AfterPlan(s, ev) = t
  BY Zenon DEF AfterPlan, n
<1>6. s.phase = "planning"
  BY Zenon DEF MayPlan
<1> HIDE DEF t
<1>7. Gated(t)
  BY <1>3, <1>4, <1>6, Zenon DEF Gated, CleanStart, VerdictsCurrent, DeliveryBound
<1> QED
  BY <1>5, <1>7, Zenon

-----------------------------------------------------------------------------
\* Event::Move to another phase.
LEMMA MoveGated ==
  ASSUME NEW s, Gated(s), ~s.merge_pending, NEW actor, NEW ev,
         ev.phase \in Phases, ev.head \in Option(Heads),
         ev.phase # s.phase, MayMove(s, actor, ev)
  PROVE  Gated(AfterMove(s, ev))
<1> DEFINE u == IF ev.phase \in {"planning", "blocked", "building"}
                THEN ClearWork(s) ELSE s
           pd == IF ev.phase \in {"planning", "blocked"} THEN None ELSE u.plan_decision
           pl == IF ev.phase = "planning" THEN "" ELSE u.plan
           hd == IF ev.phase = "testing" THEN ev.head ELSE u.head
           rr == IF ev.phase \in ReviewPhases THEN u.review_round + 1 ELSE u.review_round
           t == [u EXCEPT !.plan_decision = pd, !.plan = pl, !.head = hd,
                          !.review_round = rr, !.pr_delivery = None,
                          !.feedback = None, !.phase = ev.phase]
<1>1. s \in Records /\ u \in Records
  BY ClearWorkType, Zenon DEF Gated
<1>2. u.phase = s.phase /\ u.merge_pending = s.merge_pending
      /\ u.revision = s.revision /\ u.plan_decision = s.plan_decision
  BY <1>1, ClearWorkFields, Zenon
<1>3. ev.phase \in {"planning", "blocked", "building"} =>
        u.pr_decision = None /\ u.pr_human = None /\ u.test_decision = None
  BY <1>1, ClearWorkFields, Zenon
<1>4. ev.phase \notin {"planning", "blocked", "building"} => u = s
  BY Zenon
<1>5. AfterMove(s, ev) = t
  BY Zenon DEF AfterMove
<1> HIDE DEF u
<1>6. /\ pd \in Option(Decisions) /\ pl \in Texts
      /\ hd \in Option(Heads) /\ rr \in Nat
  <2>1. pd \in Option(Decisions)
    BY <1>1, NoneIsOption, Zenon DEF Records
  <2>2. pl \in Texts
    BY <1>1, Zenon DEF Records, Texts
  <2>3. hd \in Option(Heads)
    BY <1>1, Zenon DEF Records
  <2>4. rr \in Nat
    BY <1>1 DEF Records
  <2> QED
    BY <2>1, <2>2, <2>3, <2>4, Zenon
<1>7. /\ pd = IF ev.phase \in {"planning", "blocked"} THEN None ELSE u.plan_decision
      /\ hd = IF ev.phase = "testing" THEN ev.head ELSE u.head
  BY Zenon
<1> HIDE DEF pd, pl, hd, rr
<1>8. t \in Records
  BY <1>1, <1>6, NoneIsOption, Zenon DEF Records
<1>9. /\ t.phase = ev.phase /\ t.merge_pending = u.merge_pending
      /\ t.revision = u.revision /\ t.plan_decision = pd /\ t.head = hd
      /\ t.verified_head = u.verified_head
      /\ t.verification_task = u.verification_task
      /\ t.test_decision = u.test_decision /\ t.pr_delivery = None
      /\ t.pr_decision = u.pr_decision /\ t.pr_human = u.pr_human
  BY <1>1, Zenon DEF Records
<1>10. Permitted(s, ev.phase, ev.head)
  BY Zenon DEF MayMove
<1> HIDE DEF t
<1>11. CleanStart(t)
  BY <1>2, <1>3, <1>4, <1>7, <1>9, <1>10 DEF CleanStart, Gated, Permitted
<1>12. t.phase \in {"building", "testing", "submit"} => PlanGate(t)
  BY <1>2, <1>7, <1>9, <1>10, Zenon DEF Gated, Permitted, PlanGate
<1>13. t.phase = "submit" => TestGate(t)
  BY <1>2, <1>4, <1>7, <1>9, <1>10 DEF Permitted, TestGate
<1>14. VerdictsCurrent(t)
  BY <1>4, <1>9, <1>10, Zenon DEF Gated, CleanStart, Permitted, VerdictsCurrent
<1>15. DeliveryBound(t)
  BY <1>9, Zenon DEF DeliveryBound
<1> QED
  BY <1>2, <1>5, <1>8, <1>9, <1>11, <1>12, <1>13, <1>14, <1>15, Zenon DEF Gated

-----------------------------------------------------------------------------
\* Event::Block clears all evidence.
LEMMA BlockGated ==
  ASSUME NEW s, Gated(s), ~s.merge_pending, NEW ev, ev.reason \in Texts
  PROVE  Gated(AfterBlock(s, ev))
<1> DEFINE t == AfterBlock(s, ev)
<1>1. s \in Records /\ ClearWork(s) \in Records
  BY ClearWorkType, Zenon DEF Gated
<1>2. t \in Records
  BY <1>1, NoneIsOption, SomeIsOption DEF AfterBlock, Records, Phases
<1>3. /\ t.phase = "blocked" /\ t.merge_pending = s.merge_pending
      /\ t.pr_decision = None /\ t.pr_human = None /\ t.pr_delivery = None
  BY <1>1, ClearWorkFields, Zenon DEF AfterBlock, Records
<1> HIDE DEF t
<1>4. Gated(t)
  BY <1>2, <1>3, Zenon DEF Gated, CleanStart, VerdictsCurrent, DeliveryBound
<1> QED
  BY <1>4, Zenon DEF t

-----------------------------------------------------------------------------
\* The verdict built from an accepted review is well formed.
LEMMA DecisionType ==
  ASSUME NEW s \in Records, NEW actor, NEW ev, ev.approved \in BOOLEAN,
         ev.head \in Option(Heads), MayDecide(s, actor, ev)
  PROVE  DecisionOf(s, actor, ev) \in Decisions
<1>1. /\ ev.round \in Nat /\ ev.revision \in Nat /\ actor \in {"sentinel", "human"}
  BY Zenon DEF MayDecide, SameReview, Records
<1>2. (IF ev.phase = "submit" THEN s.pr_number ELSE None) \in Option(PRs)
  BY NoneIsOption, Zenon DEF Records
<1> QED
  BY <1>1, <1>2, Zenon DEF DecisionOf, Decisions

\* A verdict the reducer accepts, on a record of its type.
Verdict(s, actor, ev) ==
    /\ s \in Records /\ MayDecide(s, actor, ev)
    /\ ev.approved \in BOOLEAN /\ ev.head \in Option(Heads)

SameFrame(s, t) ==
    /\ t \in Records
    /\ t.phase = s.phase /\ t.head = s.head /\ t.merge_pending = s.merge_pending

\* The record t that verdict d on record s leaves.
FieldsRecorded(s, actor, ev, d, t) ==
    /\ t \in Records
    /\ t.phase = s.phase /\ t.merge_pending = s.merge_pending
    /\ t.revision = s.revision /\ t.review_round = s.review_round
    /\ t.pr_number = s.pr_number /\ t.head = s.head
    /\ t.verified_head = s.verified_head
    /\ t.verification_task = s.verification_task
    /\ t.plan_decision = IF ev.phase = "plan_ready" THEN d ELSE s.plan_decision
    /\ t.test_decision = IF ev.phase = "testing" /\ actor = "sentinel"
                         THEN d ELSE s.test_decision
    /\ t.pr_decision = IF ev.phase = "submit" /\ actor = "sentinel"
                       THEN d ELSE s.pr_decision
    /\ t.pr_delivery = IF ev.phase = "submit" /\ actor = "sentinel"
                       THEN d ELSE s.pr_delivery
    /\ t.pr_human = IF ev.phase = "submit" /\ actor # "sentinel"
                    THEN d ELSE s.pr_human

\* Recording a verdict keeps the type and touches one review slot.
LEMMA RecordedFields ==
  ASSUME NEW s, NEW actor, NEW ev, Verdict(s, actor, ev)
  PROVE  FieldsRecorded(s, actor, ev, DecisionOf(s, actor, ev), Recorded(s, actor, ev))
<1>0. /\ s \in Records /\ MayDecide(s, actor, ev)
      /\ ev.approved \in BOOLEAN /\ ev.head \in Option(Heads)
  BY Zenon DEF Verdict
<1> DEFINE d == DecisionOf(s, actor, ev)
<1>1. d \in Option(Decisions)
  BY <1>0, DecisionType, SomeIsOption
<1>2. ev.phase \in {"plan_ready", "testing", "submit"}
  BY <1>0, Zenon DEF MayDecide, ReviewPhases
<1>3. Recorded(s, actor, ev) =
        CASE ev.phase = "plan_ready" -> [s EXCEPT !.plan_decision = d]
          [] ev.phase = "testing" /\ actor = "sentinel" -> [s EXCEPT !.test_decision = d]
          [] ev.phase = "testing" /\ actor # "sentinel" -> [s EXCEPT !.test_human = d]
          [] ev.phase = "submit" /\ actor = "sentinel" ->
                [s EXCEPT !.pr_decision = d, !.pr_delivery = d]
          [] ev.phase = "submit" /\ actor # "sentinel" -> [s EXCEPT !.pr_human = d]
  BY Zenon DEF Recorded
<1> HIDE DEF d
<1> SUFFICES FieldsRecorded(s, actor, ev, d, Recorded(s, actor, ev))
  BY Zenon DEF d
<1>4. CASE ev.phase = "plan_ready"
  <2>1. Recorded(s, actor, ev) = [s EXCEPT !.plan_decision = d]
    BY <1>3, <1>4, Zenon
  <2> QED
    BY <1>0, <1>1, <1>4, <2>1 DEF Records, FieldsRecorded
<1>5. CASE ev.phase = "testing" /\ actor = "sentinel"
  <2>1. Recorded(s, actor, ev) = [s EXCEPT !.test_decision = d]
    BY <1>3, <1>5, Zenon
  <2> QED
    BY <1>0, <1>1, <1>5, <2>1 DEF Records, FieldsRecorded
<1>6. CASE ev.phase = "testing" /\ actor # "sentinel"
  <2>1. Recorded(s, actor, ev) = [s EXCEPT !.test_human = d]
    BY <1>3, <1>6, Zenon
  <2> QED
    BY <1>0, <1>1, <1>6, <2>1 DEF Records, FieldsRecorded
<1>7. CASE ev.phase = "submit" /\ actor = "sentinel"
  <2>1. Recorded(s, actor, ev) = [s EXCEPT !.pr_decision = d, !.pr_delivery = d]
    BY <1>3, <1>7, Zenon
  <2>2. Recorded(s, actor, ev) \in Records
    <3> DEFINE u == [s EXCEPT !.pr_decision = d]
    <3>1. u \in Records
      BY <1>0, <1>1, Zenon DEF Records
    <3>2. Recorded(s, actor, ev) = [u EXCEPT !.pr_delivery = d]
      BY <2>1, Zenon
    <3> HIDE DEF u
    <3> QED
      BY <1>1, <3>1, <3>2, Zenon DEF Records
  <2>3. /\ Recorded(s, actor, ev).pr_decision = d
        /\ Recorded(s, actor, ev).pr_delivery = d
    BY <1>0, <2>1, Zenon DEF Records
  <2>4. \A f \in DOMAIN s \ {"pr_decision", "pr_delivery"} :
           Recorded(s, actor, ev)[f] = s[f]
    BY <1>0, <2>1, Zenon DEF Records
  <2>5. DOMAIN s = {"merge_pending", "pr_delivery", "review_round", "version", "phase",
                    "plan", "revision", "head", "plan_decision", "test_decision",
                    "test_human", "pr_decision", "pr_human", "verified_head",
                    "verification_task", "pr_number", "merge_sha", "feedback"}
    BY <1>0, Zenon DEF Records
  <2> QED
    BY <1>7, <2>2, <2>3, <2>4, <2>5, Zenon DEF FieldsRecorded
<1>8. CASE ev.phase = "submit" /\ actor # "sentinel"
  <2>1. Recorded(s, actor, ev) = [s EXCEPT !.pr_human = d]
    BY <1>3, <1>8, Zenon
  <2> QED
    BY <1>0, <1>1, <1>8, <2>1 DEF Records, FieldsRecorded
<1> QED
  BY <1>2, <1>4, <1>5, <1>6, <1>7, <1>8, Zenon

\* Recording it leaves the phase, the head and a pending merge alone.
LEMMA RecordedFrame ==
  ASSUME NEW s, NEW actor, NEW ev, Verdict(s, actor, ev)
  PROVE  SameFrame(s, Recorded(s, actor, ev))
<1> DEFINE t == Recorded(s, actor, ev)
           d == DecisionOf(s, actor, ev)
<1>1. FieldsRecorded(s, actor, ev, d, t)
  BY RecordedFields, Zenon
<1> HIDE DEF t, d
<1>2. SameFrame(s, t)
  BY ONLY <1>1, Zenon DEF FieldsRecorded, SameFrame
<1> QED
  BY ONLY <1>2, Zenon DEF t

\* Event::Decide: each verdict leaves the ticket in a phase whose promises the
\* verdict itself establishes.
LEMMA DecideGated ==
  ASSUME NEW s, Gated(s), ~s.merge_pending, NEW actor, NEW ev,
         ev.approved \in BOOLEAN, ev.head \in Option(Heads), ev.report \in Texts,
         MayDecide(s, actor, ev)
  PROVE  Gated(AfterDecide(s, actor, ev))
<1> DEFINE d == DecisionOf(s, actor, ev)
           r == Recorded(s, actor, ev)
           t == AfterDecide(s, actor, ev)
<1>1. s \in Records
  BY Zenon DEF Gated
<1>2. /\ r \in Records
      /\ r.phase = s.phase /\ r.merge_pending = s.merge_pending
      /\ r.revision = s.revision /\ r.review_round = s.review_round
      /\ r.pr_number = s.pr_number /\ r.head = s.head
      /\ r.verified_head = s.verified_head
      /\ r.verification_task = s.verification_task
      /\ r.plan_decision = IF ev.phase = "plan_ready" THEN d ELSE s.plan_decision
      /\ r.test_decision = IF ev.phase = "testing" /\ actor = "sentinel"
                           THEN d ELSE s.test_decision
      /\ r.pr_decision = IF ev.phase = "submit" /\ actor = "sentinel"
                         THEN d ELSE s.pr_decision
      /\ r.pr_delivery = IF ev.phase = "submit" /\ actor = "sentinel"
                         THEN d ELSE s.pr_delivery
      /\ r.pr_human = IF ev.phase = "submit" /\ actor # "sentinel"
                      THEN d ELSE s.pr_human
  <2>1. FieldsRecorded(s, actor, ev, d, r)
    <3>1. Verdict(s, actor, ev)
      BY <1>1, Zenon DEF Verdict
    <3> QED
      BY ONLY <3>1, RecordedFields, Zenon DEF d, r
  <2> HIDE DEF d, r
  <2> QED
    BY ONLY <2>1, Zenon DEF FieldsRecorded
<1>3. /\ d.approved = ev.approved /\ d.head = ev.head
      /\ d.round = s.review_round /\ d.revision = s.revision
      /\ d.pr_number = IF ev.phase = "submit" THEN s.pr_number ELSE None
  BY Zenon DEF DecisionOf, MayDecide, SameReview
<1>4. /\ ev.phase = s.phase /\ ev.phase \in {"plan_ready", "testing", "submit"}
      /\ actor \in {"sentinel", "human"}
      /\ ev.phase = "plan_ready" => actor = "sentinel"
      /\ ev.phase # "plan_ready" => ev.head # None /\ ev.head = s.head
      /\ ev.phase = "submit" => s.pr_number # None
      /\ (ev.approved /\ ev.phase = "testing") =>
            s.verified_head = s.head /\ s.verification_task # None
  BY Zenon DEF MayDecide, SameReview, ReviewPhases
<1>5. d # None
  BY <1>1, DecisionType, DecisionsAssumption
<1>6. t = CASE ev.approved /\ ev.phase = "plan_ready" ->
                  [ClearWork(r) EXCEPT !.phase = "building", !.feedback = None]
            [] ev.approved /\ ev.phase = "testing" /\ actor = "sentinel" ->
                  AfterTestingApproval(r)
            [] ev.approved /\ (ev.phase = "submit" \/ (ev.phase = "testing" /\ actor = "human")) -> r
            [] ~ev.approved ->
                  [ClearWork(r) EXCEPT
                     !.pr_delivery = IF actor = "human" THEN None ELSE @,
                     !.feedback = ev.report,
                     !.phase = IF ev.phase = "plan_ready"
                               THEN "plan_rejected" ELSE "building"]
  BY Zenon DEF AfterDecide
<1> SUFFICES Gated(t)
  BY Zenon
<1> HIDE DEF d, r, t
<1>7. CASE ev.approved /\ ev.phase = "plan_ready"
  <2>1. t = [ClearWork(r) EXCEPT !.phase = "building", !.feedback = None]
    BY <1>6, <1>7, Zenon
  <2>2. ClearWork(r) \in Records
    BY <1>2, ClearWorkType, Zenon
  <2>3. t \in Records
    BY <2>1, <2>2, NoneIsOption, Zenon DEF Records, Phases
  <2>4. /\ t.phase = "building" /\ t.merge_pending = s.merge_pending
        /\ t.revision = s.revision /\ t.plan_decision = d
        /\ t.test_decision = None /\ t.pr_decision = None /\ t.pr_human = None
        /\ t.pr_delivery = s.pr_delivery
    BY <1>2, <1>7, <2>1, <2>2, ClearWorkFields DEF Records
  <2>5. s.pr_delivery = None
    BY <1>4, <1>7, Zenon DEF Gated, DeliveryBound
  <2> QED
    BY <1>3, <1>5, <1>7, <2>3, <2>4, <2>5, Zenon
    DEF Gated, CleanStart, PlanGate, Approved, VerdictsCurrent, DeliveryBound
<1>8. CASE ev.approved /\ ev.phase = "testing" /\ actor = "sentinel"
  <2> DEFINE n == r.review_round + 1
  <2>1. t = [r EXCEPT !.phase = "submit", !.review_round = n,
                      !.pr_delivery = None, !.feedback = None]
    BY <1>6, <1>8, Zenon DEF AfterTestingApproval
  <2>2. n \in Nat
    BY <1>2 DEF Records
  <2> HIDE DEF n
  <2>3. t \in Records
    BY <1>2, <2>1, <2>2, NoneIsOption DEF Records, Phases
  <2>4. /\ t.phase = "submit" /\ t.merge_pending = s.merge_pending
        /\ t.revision = s.revision /\ t.head = s.head
        /\ t.verified_head = s.verified_head
        /\ t.verification_task = s.verification_task
        /\ t.plan_decision = s.plan_decision /\ t.test_decision = d
        /\ t.pr_decision = s.pr_decision /\ t.pr_human = s.pr_human
        /\ t.pr_delivery = None
    BY <1>2, <1>8, <2>1, Zenon DEF Records
  <2>5. PlanGate(t)
    BY <1>4, <1>8, <2>4, Zenon DEF Gated, PlanGate
  <2>6. TestGate(t)
    BY <1>3, <1>4, <1>5, <1>8, <2>4 DEF TestGate, Approved
  <2>7. t.pr_decision = None /\ t.pr_human = None
    BY <1>4, <1>8, <2>4, Zenon DEF Gated, CleanStart
  <2> QED
    BY <2>3, <2>4, <2>5, <2>6, <2>7, Zenon
    DEF Gated, CleanStart, VerdictsCurrent, DeliveryBound
<1>9. CASE ev.approved /\ ev.phase = "testing" /\ actor = "human"
  <2>1. t = r
    BY <1>6, <1>9, Zenon
  <2>2. s.pr_delivery = None
    BY <1>4, <1>9, Zenon DEF Gated, DeliveryBound
  <2> QED
    BY <1>2, <1>4, <1>9, <2>1, <2>2, Zenon
    DEF Gated, CleanStart, PlanGate, VerdictsCurrent, DeliveryBound
<1>10. CASE ev.approved /\ ev.phase = "submit"
  <2>1. t = r
    BY <1>6, <1>10, Zenon
  <2>2. PlanGate(t)
    BY <1>2, <1>4, <1>10, <2>1, Zenon DEF Gated, PlanGate
  <2>3. TestGate(t)
    BY <1>2, <1>4, <1>10, <2>1, Zenon DEF Gated, TestGate
  <2>4. VerdictsCurrent(t)
    BY <1>2, <1>3, <1>4, <1>10, <2>1 DEF Gated, VerdictsCurrent, About
  <2>5. DeliveryBound(t)
    BY <1>2, <1>3, <1>4, <1>10, <2>1, Zenon DEF Gated, DeliveryBound
  <2>6. CleanStart(t)
    BY <1>2, <1>4, <1>10, <2>1, Zenon DEF CleanStart
  <2> QED
    BY <1>2, <2>1, <2>2, <2>3, <2>4, <2>5, <2>6, Zenon DEF Gated
<1>11. CASE ~ev.approved
  <2> DEFINE q == ClearWork(r)
             pd == IF actor = "human" THEN None ELSE q.pr_delivery
             ph == IF ev.phase = "plan_ready" THEN "plan_rejected" ELSE "building"
  <2>1. t = [q EXCEPT !.pr_delivery = pd, !.feedback = ev.report, !.phase = ph]
    BY <1>6, <1>11, Zenon
  <2>2. /\ q \in Records /\ q.merge_pending = s.merge_pending
        /\ q.revision = s.revision /\ q.review_round = s.review_round
        /\ q.pr_number = s.pr_number /\ q.plan_decision = r.plan_decision
        /\ q.test_decision = None /\ q.pr_decision = None /\ q.pr_human = None
        /\ q.pr_delivery = r.pr_delivery
    BY <1>2, ClearWorkType, ClearWorkFields, Zenon
  <2> HIDE DEF q
  <2>3. pd \in Option(Decisions) /\ ph \in Phases
    BY <2>2, NoneIsOption, Zenon DEF Records, Phases
  <2>4. /\ pd = None \/ (actor = "sentinel" /\ pd = r.pr_delivery)
        /\ ev.phase = "plan_ready" => ph = "plan_rejected"
        /\ ev.phase # "plan_ready" => ph = "building"
    BY <1>4, <2>2, Zenon
  <2> HIDE DEF pd, ph
  <2>5. t \in Records
    BY <2>1, <2>2, <2>3, SomeIsOption, Zenon DEF Records
  <2>6. /\ t.phase = ph /\ t.merge_pending = s.merge_pending
        /\ t.revision = s.revision /\ t.review_round = s.review_round
        /\ t.pr_number = s.pr_number /\ t.plan_decision = r.plan_decision
        /\ t.test_decision = None /\ t.pr_decision = None /\ t.pr_human = None
        /\ t.pr_delivery = pd
    BY <2>1, <2>2, Zenon DEF Records
  <2>7. CleanStart(t)
    BY <1>4, <2>4, <2>6, Zenon DEF CleanStart
  <2>8. t.phase \in {"building", "testing", "submit"} => PlanGate(t)
    BY <1>2, <1>4, <2>4, <2>6, Zenon DEF Gated, PlanGate
  <2>9. DeliveryBound(t)
    BY <1>2, <1>3, <1>4, <1>11, <2>4, <2>6 DEF Gated, DeliveryBound
  <2> QED
    BY <1>4, <2>4, <2>5, <2>6, <2>7, <2>8, <2>9, Zenon DEF Gated, VerdictsCurrent
<1> QED
  BY <1>4, <1>7, <1>8, <1>9, <1>10, <1>11, Zenon

-----------------------------------------------------------------------------
\* Event::Verified records which commit the executor ran.
LEMMA VerifiedGated ==
  ASSUME NEW s, Gated(s), ~s.merge_pending, NEW actor, NEW ev,
         ev.head \in Heads, ev.task \in Texts, MayVerified(s, actor, ev)
  PROVE  Gated(AfterVerified(s, ev))
<1> DEFINE t == AfterVerified(s, ev)
<1>1. s \in Records /\ s.phase = "testing"
  BY Zenon DEF Gated, MayVerified
<1>2. t \in Records
  BY <1>1, SomeIsOption, Zenon DEF AfterVerified, Records
<1>3. /\ t.phase = s.phase /\ t.merge_pending = s.merge_pending
      /\ t.revision = s.revision /\ t.plan_decision = s.plan_decision
      /\ t.test_decision = s.test_decision /\ t.pr_delivery = s.pr_delivery
      /\ t.pr_decision = s.pr_decision /\ t.pr_human = s.pr_human
  BY <1>1, Zenon DEF AfterVerified, Records
<1> SUFFICES Gated(t)
  BY Zenon
<1> HIDE DEF t
<1> QED
  BY <1>1, <1>2, <1>3, Zenon
  DEF Gated, CleanStart, PlanGate, VerdictsCurrent, DeliveryBound

\* Event::Pr: another pull request starts a review round of its own.
LEMMA PrGated ==
  ASSUME NEW s, Gated(s), ~s.merge_pending, NEW actor, NEW ev,
         ev.number \in PRs \cup {0}, MayPr(s, actor, ev)
  PROVE  Gated(AfterPr(s, ev))
<1> DEFINE n == s.review_round + 1
           t == [s EXCEPT !.pr_delivery = None, !.pr_decision = None,
                          !.pr_human = None, !.review_round = n,
                          !.pr_number = ev.number]
<1>1. s \in Records /\ s.phase = "submit" /\ ev.number \in PRs
  BY DEF Gated, MayPr
<1>2. n \in Nat
  BY <1>1 DEF Records
<1>3. AfterPr(s, ev) = IF s.pr_number = ev.number THEN s ELSE t
  BY Zenon DEF AfterPr
<1> HIDE DEF n
<1>4. t \in Records
  BY <1>1, <1>2, NoneIsOption, SomeIsOption, Zenon DEF Records
<1>5. /\ t.phase = s.phase /\ t.merge_pending = s.merge_pending
      /\ t.revision = s.revision /\ t.plan_decision = s.plan_decision
      /\ t.test_decision = s.test_decision /\ t.head = s.head
      /\ t.verified_head = s.verified_head
      /\ t.verification_task = s.verification_task
      /\ t.pr_delivery = None /\ t.pr_decision = None /\ t.pr_human = None
  BY <1>1, Zenon DEF Records
<1> HIDE DEF t
<1>6. Gated(t)
  BY <1>1, <1>4, <1>5, Zenon
  DEF Gated, CleanStart, PlanGate, TestGate, VerdictsCurrent, DeliveryBound
<1> QED
  BY <1>3, <1>6, Zenon

\* Event::ReviewDelivered acknowledges the queued review.
LEMMA ReviewDeliveredGated ==
  ASSUME NEW s, Gated(s), ~s.merge_pending
  PROVE  Gated(AfterReviewDelivered(s))
<1> DEFINE t == AfterReviewDelivered(s)
<1>1. s \in Records
  BY Zenon DEF Gated
<1>2. t \in Records
  BY <1>1, NoneIsOption, Zenon DEF AfterReviewDelivered, Records
<1>3. /\ t.phase = s.phase /\ t.merge_pending = s.merge_pending
      /\ t.revision = s.revision /\ t.review_round = s.review_round
      /\ t.pr_number = s.pr_number /\ t.plan_decision = s.plan_decision
      /\ t.test_decision = s.test_decision /\ t.head = s.head
      /\ t.verified_head = s.verified_head
      /\ t.verification_task = s.verification_task
      /\ t.pr_delivery = None
      /\ t.pr_decision = s.pr_decision /\ t.pr_human = s.pr_human
  BY <1>1, Zenon DEF AfterReviewDelivered, Records
<1> SUFFICES Gated(t)
  BY Zenon
<1> HIDE DEF t
<1> QED
  BY <1>1, <1>2, <1>3
  DEF Gated, CleanStart, PlanGate, TestGate, VerdictsCurrent, DeliveryBound, About

\* Event::BeginMerge and Event::CancelMerge set and drop the reservation.
LEMMA ReservationGated ==
  ASSUME NEW s, Gated(s), NEW pending \in BOOLEAN,
         pending => MergeReady(s, s.head)
  PROVE  Gated([s EXCEPT !.merge_pending = pending])
<1> DEFINE t == [s EXCEPT !.merge_pending = pending]
<1>1. s \in Records
  BY Zenon DEF Gated
<1>2. t \in Records
  BY <1>1, Zenon DEF Records
<1>3. /\ t.phase = s.phase /\ t.merge_pending = pending
      /\ t.revision = s.revision /\ t.review_round = s.review_round
      /\ t.pr_number = s.pr_number /\ t.plan_decision = s.plan_decision
      /\ t.test_decision = s.test_decision /\ t.head = s.head
      /\ t.verified_head = s.verified_head
      /\ t.verification_task = s.verification_task
      /\ t.pr_delivery = s.pr_delivery
      /\ t.pr_decision = s.pr_decision /\ t.pr_human = s.pr_human
  BY <1>1, Zenon DEF Records
<1> SUFFICES Gated(t)
  BY Zenon
<1> HIDE DEF t
<1>4. CleanStart(t) /\ VerdictsCurrent(t) /\ DeliveryBound(t)
  BY <1>3 DEF Gated, CleanStart, VerdictsCurrent, DeliveryBound, About
<1>5. pending => MergeReady(t, t.head)
  BY <1>3, Zenon DEF MergeReady
<1> QED
  BY <1>2, <1>3, <1>4, <1>5, Zenon DEF Gated, PlanGate, TestGate

\* Event::Merged and Event::ReconcileMerged end the lifecycle.
LEMMA DoneGated ==
  ASSUME NEW t \in Records, t.phase = "done", ~t.merge_pending
  PROVE  Gated(t)
  BY Zenon DEF Gated, CleanStart, VerdictsCurrent, DeliveryBound

\* Event::ReconcileMerged records a merge GitHub reports.
LEMMA ReconcileMergedGated ==
  ASSUME NEW s, Gated(s), NEW ev, ev.number \in PRs, ev.sha \in Texts
  PROVE  Gated(AfterReconcileMerged(s, ev))
<1> DEFINE t == AfterReconcileMerged(s, ev)
<1>1. s \in Records
  BY Zenon DEF Gated
<1>2. t \in Records /\ t.phase = "done" /\ t.merge_pending = FALSE
  BY <1>1, SomeIsOption, Zenon DEF AfterReconcileMerged, Records, Phases
<1> QED
  BY <1>2, DoneGated, Zenon

\* Event::Merged records the merge VESSEL was granted.
LEMMA MergedGated ==
  ASSUME NEW s, Gated(s), NEW ev, ev.sha \in Texts
  PROVE  Gated(AfterMerged(s, ev))
<1> DEFINE t == AfterMerged(s, ev)
<1>1. s \in Records
  BY Zenon DEF Gated
<1>2. t \in Records /\ t.phase = "done" /\ t.merge_pending = FALSE
  BY <1>1, SomeIsOption, Zenon DEF AfterMerged, Records, Phases
<1> QED
  BY <1>2, DoneGated, Zenon

-----------------------------------------------------------------------------
\* Lifecycle::default() is a record.
LEMMA DefaultType == Default \in Records
  BY NoneIsOption, Zenon DEF Default, Records, Texts, Phases

\* A verdict that names no pull request is a present decision.
LEMMA UnboundVerdictType ==
  ASSUME NEW actor \in {"sentinel", "human"}, NEW round \in Nat, NEW head \in Option(Heads)
  PROVE  UnboundVerdict(actor, round, head) \in Option(Decisions) \ {None}
<1>1. UnboundVerdict(actor, round, head) \in Decisions
  BY NoneIsOption, Zenon DEF UnboundVerdict, Decisions
<1> QED
  BY <1>1, SomeIsOption, DecisionsAssumption, Zenon

\* So is the record in submit that an older release left behind.
LEMMA UnboundSubmitType ==
  ASSUME NEW h \in Heads, NEW n \in PRs
  PROVE  UnboundSubmit(h, n) \in Records
<1>1. /\ UnboundVerdict("sentinel", 1, None) \in Option(Decisions)
      /\ UnboundVerdict("sentinel", 2, h) \in Option(Decisions)
      /\ UnboundVerdict("sentinel", 4, h) \in Option(Decisions)
      /\ UnboundVerdict("human", 4, h) \in Option(Decisions)
  BY UnboundVerdictType, NoneIsOption, SomeIsOption, Zenon
<1> QED
  BY <1>1, DefaultType, SomeIsOption, ZenonT(30) DEF UnboundSubmit, Records, Texts, Phases

\* The records a ticket starts from keep the promises of their phase.
LEMMA InitGated == ASSUME NEW s \in InitialRecords PROVE Gated(s)
<1>1. Default \in Records
  BY DefaultType, Zenon
<1>2. LegacyActive \in Records /\ LegacyDone \in Records
  <2>1. LegacyActive \in Records
    BY <1>1, SomeIsOption, Zenon DEF LegacyActive, Records, Texts
  <2> QED
    BY <2>1, Zenon DEF LegacyDone, Records, Phases
<1>3. ASSUME s \in {Default, LegacyActive, LegacyDone}
      PROVE  Gated(s)
  <2>1. s \in Records
    BY <1>1, <1>2, <1>3, Zenon
  <2>2. /\ s.phase \in {"planning", "done"}
        /\ s.merge_pending = FALSE /\ s.pr_delivery = None
        /\ s.plan_decision = None /\ s.pr_decision = None /\ s.pr_human = None
    <3>1. CASE s = Default
      BY <3>1, Zenon DEF Default
    <3>2. CASE s = LegacyActive
      BY <3>2, Zenon DEF LegacyActive, Default
    <3>3. CASE s = LegacyDone
      BY <3>3, Zenon DEF LegacyDone, LegacyActive, Default
    <3> QED
      BY <1>3, <3>1, <3>2, <3>3, Zenon
  <2> QED
    BY <2>1, <2>2, Zenon DEF Gated, CleanStart, VerdictsCurrent, DeliveryBound
<1>4. ASSUME NEW h \in Heads, NEW n \in PRs, s = Normalised(UnboundSubmit(h, n))
      PROVE  Gated(s)
  <2> DEFINE u == UnboundSubmit(h, n)
  <2>2. /\ UnboundVerdict("sentinel", 1, None) # None
        /\ UnboundVerdict("sentinel", 2, h) # None
        /\ UnboundVerdict("sentinel", 4, h) # None
    BY UnboundVerdictType, NoneIsOption, SomeIsOption, Zenon
  <2>3. u \in Records
    BY UnboundSubmitType, Zenon
  <2>4. /\ u.phase = "submit" /\ u.merge_pending = FALSE /\ u.revision = 1
        /\ u.head = h /\ u.verified_head = h /\ u.verification_task = "text"
        /\ u.plan_decision = UnboundVerdict("sentinel", 1, None)
        /\ u.test_decision = UnboundVerdict("sentinel", 2, h)
        /\ u.pr_delivery = UnboundVerdict("sentinel", 4, h)
    BY DEF UnboundSubmit, Default
  <2> HIDE DEF u
  <2> DEFINE t == [u EXCEPT !.pr_delivery = None, !.pr_decision = None,
                            !.pr_human = None]
  <2>5. \A actor, round, head :
           LET d == UnboundVerdict(actor, round, head)
           IN  d.pr_number = None /\ d.approved /\ d.revision = 1 /\ d.head = head
    BY Zenon DEF UnboundVerdict
  <2>6. s = t
    BY <1>4, <2>2, <2>4, <2>5 DEF Normalised, u
  <2>7. t \in Records
    BY <2>3, NoneIsOption, Zenon DEF Records
  <2>8. /\ t.phase = "submit" /\ t.merge_pending = FALSE /\ t.revision = 1
        /\ t.head = h /\ t.verified_head = h /\ t.verification_task = "text"
        /\ t.plan_decision = UnboundVerdict("sentinel", 1, None)
        /\ t.test_decision = UnboundVerdict("sentinel", 2, h)
        /\ t.pr_delivery = None /\ t.pr_decision = None /\ t.pr_human = None
    BY <2>3, <2>4, Zenon DEF Records
  <2> HIDE DEF t
  <2>9. PlanGate(t)
    BY <2>2, <2>5, <2>8 DEF PlanGate, Approved
  <2>10. h # None /\ "text" # None
    BY HeadsAssumption, TextsAssumption, Zenon DEF Texts
  <2>11. TestGate(t)
    BY <2>2, <2>5, <2>8, <2>10 DEF TestGate, Approved
  <2> QED
    BY <2>6, <2>7, <2>8, <2>9, <2>11, Zenon
    DEF Gated, CleanStart, VerdictsCurrent, DeliveryBound
<1> QED
  BY <1>3, <1>4 DEF InitialRecords

-----------------------------------------------------------------------------
\* An event that is not a move to the current phase has its effect and
\* advances the version.
LEMMA ApplyGated ==
  ASSUME NEW s, NEW actor, NEW ev, Gated(Effect(s, actor, ev)),
         ~(ev.type = "move" /\ ev.phase = s.phase)
  PROVE  Gated(Apply(s, actor, ev))
  BY VersionIrrelevant, Zenon DEF Apply

\* What the callers of apply may put into an event (enum Event).
WellFormed(ev) ==
    /\ ev.type = "plan" => ev.content \in Texts
    /\ ev.type = "move" => ev.phase \in Phases /\ ev.head \in Option(Heads)
    /\ ev.type = "block" => ev.reason \in Texts
    /\ ev.type = "decide" => /\ ev.approved \in BOOLEAN /\ ev.head \in Option(Heads)
                             /\ ev.report \in Texts
    /\ ev.type = "verified" => ev.head \in Heads /\ ev.task \in Texts
    /\ ev.type = "pr" => ev.number \in PRs \cup {0}
    /\ ev.type = "reconcile_merged" => ev.number \in PRs \cup {0} /\ ev.sha \in Texts
    /\ ev.type = "merged" => ev.sha \in Texts

\* Every accepted event preserves Gated.
LEMMA EffectGated ==
  ASSUME NEW s, Gated(s), NEW actor, NEW ev, WellFormed(ev),
         Accepts(s, actor, ev), ~(ev.type = "move" /\ ev.phase = s.phase)
  PROVE  Gated(Effect(s, actor, ev))
<1> USE DEF WellFormed
<1>1. ev.type \notin {"merged", "cancel_merge", "reconcile_merged"} => ~s.merge_pending
  BY Zenon DEF Accepts, ReservationAllows, Gated, Records
<1>2. CASE ev.type = "plan" /\ MayPlan(s, actor, ev)
  BY <1>1, <1>2, PlanGated, Zenon DEF Effect
<1>3. CASE ev.type = "move" /\ MayMove(s, actor, ev)
  BY <1>1, <1>3, MoveGated, Zenon DEF Effect
<1>4. CASE ev.type = "block" /\ MayBlock(ev)
  BY <1>1, <1>4, BlockGated, Zenon DEF Effect
<1>5. CASE ev.type = "decide" /\ MayDecide(s, actor, ev)
  BY <1>1, <1>5, DecideGated DEF Effect
<1>6. CASE ev.type = "verified" /\ MayVerified(s, actor, ev)
  BY <1>1, <1>6, VerifiedGated, Zenon DEF Effect
<1>7. CASE ev.type = "pr" /\ MayPr(s, actor, ev)
  BY <1>1, <1>7, PrGated, Zenon DEF Effect
<1>8. CASE ev.type = "review_delivered" /\ MayReviewDelivered(s, actor, ev)
  BY <1>1, <1>8, ReviewDeliveredGated, Zenon DEF Effect
<1>9. CASE ev.type = "begin_merge" /\ MayBeginMerge(s, actor, ev)
  BY <1>9, ReservationGated, Zenon DEF Effect, AfterBeginMerge, MayBeginMerge, MergeReady
<1>10. CASE ev.type = "cancel_merge"
  BY <1>10, ReservationGated, Zenon DEF Effect, AfterCancelMerge
<1>11. CASE ev.type = "reconcile_merged" /\ MayReconcileMerged(actor, ev)
  <2>1. ev.number \in PRs \cup {0} /\ ev.sha \in Texts
    BY <1>11, Zenon
  <2>3. ev.number > 0
    BY <1>11, Zenon DEF MayReconcileMerged
  <2>4. ev.number \in PRs
    BY <2>1, <2>3
  <2>2. Effect(s, actor, ev) = AfterReconcileMerged(s, ev)
    BY <1>11, Zenon DEF Effect
  <2> QED
    BY <2>1, <2>2, <2>4, ReconcileMergedGated, Zenon
<1>12. CASE ev.type = "merged" /\ MayMerged(s, actor, ev)
  BY <1>12, MergedGated, Zenon DEF Effect
<1> QED
  BY <1>2, <1>3, <1>4, <1>5, <1>6, <1>7, <1>8, <1>9, <1>10, <1>11, <1>12, Zenon DEF Accepts

\* So does apply, which leaves a ticket alone that is moved to its own phase.
LEMMA AppliedGated ==
  ASSUME NEW s, Gated(s), NEW actor, NEW ev, WellFormed(ev), Accepts(s, actor, ev)
  PROVE  Gated(Apply(s, actor, ev))
<1>1. CASE ev.type = "move" /\ ev.phase = s.phase
  BY <1>1, Zenon DEF Apply
<1>2. CASE ~(ev.type = "move" /\ ev.phase = s.phase)
  BY <1>2, EffectGated, ApplyGated, Zenon
<1> QED
  BY <1>1, <1>2, Zenon
=============================================================================
