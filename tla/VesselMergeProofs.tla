-------------------------- MODULE VesselMergeProofs -------------------------
(***************************************************************************)
(* VESSEL's merges, for every set of commits and every number of attempts, *)
(* crashes, lost replies and events of other actors: a merge request in    *)
(* flight names the reserved and approved candidate, there is at most one, *)
(* and a ticket is done only if GitHub merged it.                          *)
(***************************************************************************)
EXTENDS VesselMerge, ReducerProofs, FiniteSetTheorems

\* Places of a pass at which the record is known not to be reserved.
Free == {"return", "list_reviews", "reread", "human", "sentinel", "deliver", "recheck",
         "rework", "poll", "readiness", "merge_read", "begin", "conflict_move",
         "rework_read", "rework_move"}

\* Places of a pass that come after a merge request was sent in it.
AfterSend == {"await", "record", "cancel", "remove", "conflict_read", "conflict_move"}

Reserved(t, h) == t.merge_pending /\ MergeReady(t, h)

\* The controller v is at its place of the pass rightly, given the record t,
\* the requests rs in flight, the number n of requests sent and the merge m.
PlaceOK(v, t, rs, n, m) ==
    /\ v.pc \notin {"sync", "handoff", "fetch"} => v.head \in Heads
    /\ v.pc \in {"readiness", "merge_read", "begin", "send"} => n < MaxAttempts
    /\ v.pc \in Free => ~t.merge_pending /\ t.phase # "done"
    /\ v.pc = "confirm" => /\ v.seen.merge_pending = t.merge_pending
                           /\ v.seen.phase = "done" <=> t.phase = "done"
    /\ v.pc = "send" => Reserved(t, v.head) /\ rs = {}
    /\ v.pc = "await" => /\ Reserved(t, v.head)
                         /\ \A r \in rs : r.id = n
                         /\ v.reply # None => rs = {}
    /\ v.pc = "cancel" => rs = {}
    /\ v.pc \notin AfterSend => v.reply = None
    /\ v.reply = "merged" => m # None
    /\ v.pc \in {"reconcile", "record"} => m # None

\* What GitHub may still execute is what the ticket t is reserved for.
FlightOK(t, rs) ==
    /\ \A r \in rs : t.phase = "done" \/ Reserved(t, r.head)
    /\ \A r, q \in rs : r = q

Passes == [pc : Steps, head : Option(Heads), seen : Records,
           reply : {None, "merged", "rejected"}]

\* The types of what is not the record.
SidesOK ==
    /\ head \in Heads /\ approvals \subseteq Heads /\ merged \in Option(Heads)
    /\ requests \subseteq [id : 1..MaxAttempts, head : Heads]
    /\ sent \in 0..MaxAttempts /\ pending \in BOOLEAN /\ faults \in 0..MaxFaults
    /\ vessel \in Passes

\* The inductive invariant.
MergeInv ==
    /\ Gated(ticket)
    /\ SidesOK
    /\ FlightOK(ticket, requests)
    /\ PlaceOK(vessel, ticket, requests, sent, merged)
    /\ ticket.phase = "done" => merged # None

-----------------------------------------------------------------------------
\* Events that are not about a merge.
Ordinary == {"plan", "move", "block", "decide", "verified", "pr", "review_delivered"}

\* An ordinary event is accepted without a reservation only, takes none and
\* does not finish the ticket.
LEMMA OrdinaryEffect ==
  ASSUME NEW s, Gated(s), NEW actor, NEW ev, WellFormed(ev), ev.type \in Ordinary,
         Accepts(s, actor, ev), ~(ev.type = "move" /\ ev.phase = s.phase)
  PROVE  ~Effect(s, actor, ev).merge_pending /\ Effect(s, actor, ev).phase # "done"
<1>1. s \in Records /\ ~s.merge_pending /\ s.phase # "done"
  BY Zenon DEF Gated, Records, Accepts, ReservationAllows, Ordinary
<1>2. CASE ev.type = "plan"
  BY <1>1, <1>2 DEF Effect, AfterPlan, Records, ClearWork
<1>3. CASE ev.type = "move" /\ MayMove(s, actor, ev)
  <2>1. ev.phase # "done"
    BY <1>3 DEF MayMove, Permitted
  <2>2. AfterMove(s, ev).merge_pending = s.merge_pending /\ AfterMove(s, ev).phase = ev.phase
    BY <1>1 DEF AfterMove, Records, ClearWork
  <2> QED
    BY <1>1, <1>3, <2>1, <2>2 DEF Effect
<1>4. CASE ev.type = "block"
  BY <1>1, <1>4, Zenon DEF Effect, AfterBlock, Records, ClearWork
<1>5. CASE ev.type = "decide" /\ MayDecide(s, actor, ev)
  <2> DEFINE t == Recorded(s, actor, ev)
  <2>1. t \in Records /\ t.phase = s.phase /\ t.merge_pending = s.merge_pending
    <3>1. Verdict(s, actor, ev)
      BY <1>1, <1>5 DEF Verdict, WellFormed
    <3>2. SameFrame(s, Recorded(s, actor, ev))
      BY ONLY <3>1, RecordedFrame
    <3> QED
      BY <3>2 DEF SameFrame
  <2>2. /\ ev.phase \in {"plan_ready", "testing", "submit"} /\ actor \in {"sentinel", "human"}
        /\ ev.approved \in BOOLEAN
    BY <1>5 DEF MayDecide, ReviewPhases, WellFormed
  <2>3. ClearWork(t) \in Records /\ ClearWork(t).merge_pending = t.merge_pending
    BY <2>1, ClearWorkType DEF ClearWork, Records
  <2>4. Effect(s, actor, ev) = AfterDecide(s, actor, ev)
    BY <1>5, Zenon DEF Effect
  <2> HIDE DEF t
  <2>5. CASE ev.approved /\ ev.phase = "plan_ready"
    <3>1. AfterDecide(s, actor, ev) = [ClearWork(t) EXCEPT !.phase = "building", !.feedback = None]
      BY <2>5, Zenon DEF AfterDecide, t
    <3> QED
      BY <1>1, <2>1, <2>3, <2>4, <3>1 DEF Records
  <2>6. CASE ev.approved /\ ev.phase = "testing" /\ actor = "sentinel"
    <3>1. AfterDecide(s, actor, ev) = AfterTestingApproval(t)
      BY <2>6, Zenon DEF AfterDecide, t
    <3> QED
      BY <1>1, <2>1, <2>4, <3>1 DEF Records, AfterTestingApproval
  <2>7. CASE ev.approved /\ (ev.phase = "submit" \/ (ev.phase = "testing" /\ actor = "human"))
    <3>1. AfterDecide(s, actor, ev) = t
      BY <2>7, Zenon DEF AfterDecide, t
    <3> QED
      BY <1>1, <2>1, <2>4, <3>1, Zenon
  <2>8. CASE ~ev.approved
    <3>1. AfterDecide(s, actor, ev) =
            [ClearWork(t) EXCEPT !.pr_delivery = IF actor = "human" THEN None ELSE @,
                                 !.feedback = ev.report,
                                 !.phase = IF ev.phase = "plan_ready"
                                           THEN "plan_rejected" ELSE "building"]
      BY <2>8, Zenon DEF AfterDecide, t
    <3> QED
      BY <1>1, <2>1, <2>3, <2>4, <3>1 DEF Records
  <2> QED
    BY <2>2, <2>5, <2>6, <2>7, <2>8, Zenon
<1>6. CASE ev.type = "verified"
  BY <1>1, <1>6 DEF Effect, AfterVerified, Records
<1>7. CASE ev.type = "pr"
  BY <1>1, <1>7 DEF Effect, AfterPr, Records
<1>8. CASE ev.type = "review_delivered"
  BY <1>1, <1>8 DEF Effect, AfterReviewDelivered, Records
<1> QED
  BY <1>2, <1>3, <1>4, <1>5, <1>6, <1>7, <1>8 DEF Ordinary, Accepts

\* The same of apply, with what the event requires.
LEMMA OrdinaryApply ==
  ASSUME NEW s, Gated(s), NEW actor, NEW ev, WellFormed(ev), ev.type \in Ordinary,
         Accepts(s, actor, ev)
  PROVE  /\ ~s.merge_pending /\ s.phase # "done"
         /\ Gated(Apply(s, actor, ev))
         /\ ~Apply(s, actor, ev).merge_pending /\ Apply(s, actor, ev).phase # "done"
<1>1. ~s.merge_pending /\ s.phase # "done"
  BY Zenon DEF Gated, Records, Accepts, ReservationAllows, Ordinary
<1>2. Gated(Apply(s, actor, ev))
  BY AppliedGated, Zenon
<1>3. CASE ev.type = "move" /\ ev.phase = s.phase
  BY <1>1, <1>2, <1>3 DEF Apply
<1>4. CASE ~(ev.type = "move" /\ ev.phase = s.phase)
  <2> DEFINE t == Effect(s, actor, ev)
  <2>1. ~t.merge_pending /\ t.phase # "done" /\ t \in Records
    BY <1>4, OrdinaryEffect, EffectGated DEF Gated
  <2>2. Apply(s, actor, ev) = [t EXCEPT !.version = @ + 1]
    BY <1>4, Zenon DEF Apply
  <2> HIDE DEF t
  <2> QED
    BY <1>1, <1>2, <2>1, <2>2 DEF Records
<1> QED
  BY <1>3, <1>4, Zenon

\* Event::BeginMerge reserves the candidate it names.
LEMMA BeginApply ==
  ASSUME NEW s, Gated(s), NEW actor, NEW h, Accepts(s, actor, BeginMergeEvent(h))
  PROVE  LET t == Apply(s, actor, BeginMergeEvent(h))
         IN  Gated(t) /\ Reserved(t, h)
<1> DEFINE ev == BeginMergeEvent(h)
           t == Apply(s, actor, ev)
<1>1. ev.type = "begin_merge" /\ ev.head = h
  BY Zenon DEF BeginMergeEvent
<1>2. WellFormed(ev)
  BY <1>1 DEF WellFormed
<1> HIDE DEF ev
<1>3. Gated(t) /\ s \in Records
  BY <1>2, AppliedGated DEF ev, Gated
<1>4. MergeReady(s, h)
  BY <1>1 DEF Accepts, MayBeginMerge, ev
<1>5. t = [AfterBeginMerge(s) EXCEPT !.version = @ + 1]
  BY <1>1 DEF Apply, Effect
<1>6. t.merge_pending /\ MergeReady(t, h)
  BY <1>3, <1>4, <1>5 DEF AfterBeginMerge, MergeReady, Records
<1> QED
  BY <1>3, <1>6 DEF Reserved, ev

\* Event::CancelMerge drops the reservation.
LEMMA CancelApply ==
  ASSUME NEW s, Gated(s), NEW actor, Accepts(s, actor, CancelMergeEvent)
  PROVE  LET t == Apply(s, actor, CancelMergeEvent)
         IN  Gated(t) /\ ~t.merge_pending /\ t.phase # "done"
<1> DEFINE ev == CancelMergeEvent
           t == Apply(s, actor, ev)
<1>1. ev.type = "cancel_merge"
  BY Zenon DEF CancelMergeEvent
<1>2. WellFormed(ev)
  BY <1>1, Zenon DEF WellFormed
<1> HIDE DEF ev
<1>3. Gated(t) /\ s \in Records /\ s.phase # "done"
  BY <1>2, AppliedGated DEF ev, Gated, Accepts
<1>4. t = [AfterCancelMerge(s) EXCEPT !.version = @ + 1]
  BY <1>1, Zenon DEF Apply, Effect
<1>5. ~t.merge_pending /\ t.phase = s.phase
  BY <1>3, <1>4 DEF AfterCancelMerge, Records
<1> QED
  BY <1>3, <1>5, Zenon DEF ev

\* Event::Merged and Event::ReconcileMerged finish the ticket.
LEMMA DoneApply ==
  ASSUME NEW s, Gated(s), NEW actor, NEW ev, WellFormed(ev), Accepts(s, actor, ev),
         ev.type \in {"merged", "reconcile_merged"}
  PROVE  Gated(Apply(s, actor, ev)) /\ Apply(s, actor, ev).phase = "done"
<1>1. Gated(Apply(s, actor, ev)) /\ s \in Records
  BY AppliedGated DEF Gated
<1>2. CASE ev.type = "merged"
  <2>1. Apply(s, actor, ev) = [AfterMerged(s, ev) EXCEPT !.version = @ + 1]
    BY <1>2, Zenon DEF Apply, Effect
  <2> QED
    BY <1>1, <2>1 DEF AfterMerged, Records
<1>3. CASE ev.type = "reconcile_merged"
  <2>1. Apply(s, actor, ev) = [AfterReconcileMerged(s, ev) EXCEPT !.version = @ + 1]
    BY <1>3 DEF Apply, Effect
  <2> QED
    BY <1>1, <2>1 DEF AfterReconcileMerged, Records
<1> QED
  BY <1>1, <1>2, <1>3, Zenon

-----------------------------------------------------------------------------
\* A pass starts with nothing known.
LEMMA PassIsFresh ==
  /\ Pass \in Passes /\ Pass.pc = "sync" /\ Pass.reply = None
  BY DefaultType, NoneIsOption DEF Pass, Passes, Steps

\* Where a step of the controller leads, and what it keeps.
LEMMA GoFields ==
  ASSUME vessel \in Passes, NEW pc \in Steps, Go(pc)
  PROVE  /\ vessel' \in Passes /\ vessel'.pc = pc
         /\ pc = "sync" => vessel'.reply = None
         /\ pc # "sync" => /\ vessel'.head = vessel.head /\ vessel'.seen = vessel.seen
                           /\ vessel'.reply = vessel.reply
<1>1. CASE pc = "sync"
  BY <1>1, PassIsFresh DEF Go
<1>2. CASE pc # "sync"
  BY <1>2 DEF Go, Passes
<1> QED
  BY <1>1, <1>2

\* A fault is counted.
LEMMA FaultCounts == ASSUME faults \in 0..MaxFaults, Fault PROVE faults' \in 0..MaxFaults
  BY BoundsAssumption DEF Fault

\* A place before the merge path needs nothing but an unreserved record.
LEMMA PlaceEarly ==
  ASSUME NEW v, NEW t, NEW rs, NEW n, NEW m,
         v.pc \in {"sync", "handoff", "fetch"}, v.reply = None
  PROVE  PlaceOK(v, t, rs, n, m)
  BY ReplyAssumption DEF PlaceOK, Free, AfterSend

\* Steps of the controller that leave everything but itself alone.
LEMMA PlaceStep ==
  ASSUME MergeInv, UNCHANGED <<ticket, env, requests, sent>>, pending' \in BOOLEAN,
         faults' \in 0..MaxFaults, vessel' \in Passes,
         PlaceOK(vessel', ticket, requests, sent, merged)
  PROVE  MergeInv'
  BY Zenon DEF MergeInv, SidesOK, env

\* Going back to the start of a pass is always right.
LEMMA RestartStep ==
  ASSUME MergeInv, UNCHANGED <<ticket, env, requests, sent>>, pending' \in BOOLEAN,
         faults' \in 0..MaxFaults, Go("sync")
  PROVE  MergeInv'
<1>1. vessel \in Passes /\ "sync" \in Steps
  BY Zenon DEF MergeInv, SidesOK, Steps
<1>2. vessel' \in Passes /\ vessel'.pc = "sync" /\ vessel'.reply = None
  BY <1>1, GoFields
<1>3. PlaceOK(vessel', ticket, requests, sent, merged)
  BY <1>2, PlaceEarly
<1> QED
  BY <1>2, <1>3, PlaceStep

\* From one place to another that needs no more than the first gives.
LEMMA GoStep ==
  ASSUME MergeInv, UNCHANGED <<ticket, env, requests, sent>>, pending' \in BOOLEAN,
         faults' \in 0..MaxFaults, NEW pc \in Steps \ {"sync"}, Go(pc),
         pc \notin {"handoff", "fetch"} => vessel.head \in Heads,
         pc \in {"readiness", "merge_read", "begin"} => sent < MaxAttempts,
         pc \in Free => ~ticket.merge_pending /\ ticket.phase # "done",
         pc \notin {"confirm", "send", "await"},
         pc = "cancel" => requests = {},
         pc \notin AfterSend => vessel.reply = None,
         pc \in {"reconcile", "record"} => merged # None
  PROVE  MergeInv'
<1>1. vessel \in Passes /\ (vessel.reply = "merged" => merged # None)
  BY Zenon DEF MergeInv, SidesOK, PlaceOK
<1>2. /\ vessel' \in Passes /\ vessel'.pc = pc
      /\ vessel'.head = vessel.head /\ vessel'.reply = vessel.reply
  BY <1>1, GoFields
<1>3. PlaceOK(vessel', ticket, requests, sent, merged)
  BY <1>1, <1>2 DEF PlaceOK
<1> QED
  BY <1>2, <1>3, PlaceStep

\* sync_open_prs and the start of exec: the pass has not looked at the ticket.
LEMMA EarlyStep ==
  ASSUME MergeInv, SyncOpenPrs \/ HandOff \/ PassFails \/ Crash \/ RemoveFromPending
  PROVE  MergeInv'
<1>1. vessel \in Passes /\ pending \in BOOLEAN /\ faults \in 0..MaxFaults
  BY Zenon DEF MergeInv, SidesOK
<1>2. PlaceOK(vessel, ticket, requests, sent, merged)
  BY Zenon DEF MergeInv
<1>3. {"sync", "handoff", "fetch"} \subseteq Steps
  BY DEF Steps
<1>4. CASE SyncOpenPrs
  <2>1. vessel.reply = None
    BY <1>2, <1>4, Zenon DEF PlaceOK, SyncOpenPrs, At, AfterSend
  <2>2. pending' \in BOOLEAN /\ UNCHANGED <<ticket, env, requests, sent>> /\ faults' = faults
    BY <1>1, <1>4, Zenon DEF SyncOpenPrs
  <2>3. Go("handoff")
    BY <1>4, Zenon DEF SyncOpenPrs
  <2> QED
    BY <1>1, <1>3, <2>1, <2>2, <2>3, GoStep, Zenon DEF Free, AfterSend
<1>5. CASE HandOff
  <2>1. vessel.reply = None
    BY <1>2, <1>5, Zenon DEF PlaceOK, HandOff, At, AfterSend
  <2>2. pending' \in BOOLEAN /\ UNCHANGED <<ticket, env, requests, sent>> /\ faults' = faults
    BY <1>1, <1>5 DEF HandOff
  <2>3. CASE Go("fetch")
    BY <1>1, <1>3, <2>1, <2>2, <2>3, GoStep DEF Free, AfterSend
  <2>4. CASE Go("sync")
    BY <1>1, <2>2, <2>4, RestartStep
  <2> QED
    BY <1>5, <2>3, <2>4 DEF HandOff
<1>6. CASE PassFails
  BY <1>1, <1>6, FaultCounts, RestartStep DEF PassFails
<1>7. CASE Crash
  BY <1>1, <1>7, FaultCounts, RestartStep DEF Crash
<1>8. CASE RemoveFromPending
  BY <1>1, <1>8, RestartStep DEF RemoveFromPending
<1> QED
  BY <1>4, <1>5, <1>6, <1>7, <1>8, Zenon

\* exec up to the merge path: reads, and choices between places that need
\* no more than an unreserved record.
LEMMA ExecStep ==
  ASSUME MergeInv, Fetch \/ Read \/ Confirm \/ ListReviews \/ Reread \/ Recheck \/ NeedsRework
  PROVE  MergeInv'
<1>1. vessel \in Passes /\ pending \in BOOLEAN /\ faults \in 0..MaxFaults
  BY Zenon DEF MergeInv, SidesOK
<1>2. PlaceOK(vessel, ticket, requests, sent, merged)
  BY Zenon DEF MergeInv
<1>3. ticket \in Records /\ head \in Heads
  BY Zenon DEF MergeInv, Gated, SidesOK
<1>4. UNCHANGED <<ticket, env, requests, sent>> /\ pending' = pending /\ faults' = faults
  BY Zenon DEF Fetch, Read, ReadTicket, Confirm, ListReviews, Reread, Recheck, NeedsRework
<1>5. CASE Fetch
  <2>1. vessel.reply = None
    BY <1>2, <1>5, Zenon DEF PlaceOK, Fetch, At, AfterSend
  <2>2. vessel' \in Passes /\ vessel'.pc = "read" /\ vessel'.head = head /\ vessel'.reply = None
    BY <1>1, <1>3, <1>5, <2>1, SomeIsOption DEF Fetch, Passes, Steps
  <2>3. PlaceOK(vessel', ticket, requests, sent, merged)
    BY <1>3, <2>2, ReplyAssumption DEF PlaceOK, Free
  <2> QED
    BY <1>1, <1>4, <2>2, <2>3, PlaceStep
<1>6. CASE Read
  <2>1. vessel.reply = None /\ vessel.head \in Heads
    BY <1>2, <1>6, Zenon DEF PlaceOK, Read, ReadTicket, At, AfterSend
  <2>2. /\ vessel' \in Passes /\ vessel'.pc = "confirm" /\ vessel'.head = vessel.head
        /\ vessel'.seen = ticket /\ vessel'.reply = None
    BY <1>1, <1>3, <1>6, <2>1 DEF Read, ReadTicket, Passes, Steps
  <2>3. PlaceOK(vessel', ticket, requests, sent, merged)
    BY <2>1, <2>2, ReplyAssumption DEF PlaceOK, Free
  <2> QED
    BY <1>1, <1>4, <2>2, <2>3, PlaceStep
<1>7. CASE Confirm
  <2>1. /\ vessel.reply = None /\ vessel.head \in Heads
        /\ vessel.seen.merge_pending = ticket.merge_pending
        /\ vessel.seen.phase = "done" <=> ticket.phase = "done"
    BY <1>2, <1>7, Zenon DEF PlaceOK, Confirm, At, AfterSend
  <2>2. \/ Go("sync") \/ Go("remove")
        \/ Go("reconcile") /\ merged # None
        \/ \E pc \in {"return", "poll", "list_reviews"} :
              Go(pc) /\ ~ticket.merge_pending /\ ticket.phase # "done"
    <3>1. Go(IF merged # None
             THEN IF vessel.seen.phase = "done" THEN "remove" ELSE "reconcile"
             ELSE Triage(vessel.seen))
      BY <1>7, Zenon DEF Confirm
    <3>2. CASE merged # None
      BY <3>1, <3>2
    <3>3. CASE merged = None
      <4>1. Go(Triage(vessel.seen))
        BY <3>1, <3>3
      <4>2. \/ Triage(vessel.seen) = "sync"
            \/ /\ Triage(vessel.seen) \in {"return", "poll", "list_reviews"}
               /\ ~vessel.seen.merge_pending /\ vessel.seen.phase = "submit"
        BY Zenon DEF Triage
      <4> QED
        BY <2>1, <4>1, <4>2
    <3> QED
      BY <3>2, <3>3, Zenon
  <2>3. CASE Go("sync")
    BY <1>1, <1>4, <2>3, RestartStep
  <2>4. CASE Go("remove")
    BY <1>1, <1>4, <2>1, <2>4, GoStep DEF Steps, Free
  <2>5. CASE Go("reconcile") /\ merged # None
    BY <1>1, <1>4, <2>1, <2>5, GoStep DEF Steps, Free
  <2>6. ASSUME NEW pc \in {"return", "poll", "list_reviews"}, Go(pc),
               ~ticket.merge_pending, ticket.phase # "done"
        PROVE  MergeInv'
    BY <1>1, <1>4, <2>1, <2>6, GoStep DEF Steps
  <2> QED
    BY <2>2, <2>3, <2>4, <2>5, <2>6
<1>8. ASSUME NEW pc \in {"reread", "rework", "poll", "human", "sentinel"},
             vessel.pc \in {"list_reviews", "reread", "recheck", "rework"}
      PROVE  /\ vessel.reply = None /\ vessel.head \in Heads
             /\ ~ticket.merge_pending /\ ticket.phase # "done"
             /\ pc \in Steps \ {"sync"}
             /\ pc \notin {"readiness", "merge_read", "begin", "confirm", "send", "await",
                           "cancel", "reconcile", "record"}
  BY <1>2, <1>8 DEF PlaceOK, AfterSend, Free, Steps
<1>9. CASE ListReviews
  BY <1>1, <1>4, <1>8, <1>9, GoStep DEF ListReviews, At
<1>10. CASE Recheck
  BY <1>1, <1>4, <1>8, <1>10, GoStep DEF Recheck, At
<1>11. CASE NeedsRework
  <2>1. CASE Go("sync")
    BY <1>1, <1>4, <2>1, RestartStep
  <2>2. CASE Go("poll")
    BY <1>1, <1>4, <1>8, <1>11, <2>2, GoStep DEF NeedsRework, At
  <2> QED
    BY <1>11, <2>1, <2>2 DEF NeedsRework
<1>12. CASE Reread
  <2> DEFINE pc == CASE ~ApprovalApplies(ticket) -> "rework"
                     [] ApprovalApplies(ticket) /\ ticket.pr_human = None -> "human"
                     [] ApprovalApplies(ticket) /\ ticket.pr_human # None -> "sentinel"
  <2>1. pc \in {"rework", "human", "sentinel"}
    BY Zenon
  <2>2. vessel' = [vessel EXCEPT !.seen = ticket, !.pc = pc] /\ vessel.pc = "reread"
    BY <1>12, Zenon DEF Reread, At
  <2> HIDE DEF pc
  <2>3. /\ vessel' \in Passes /\ vessel'.pc = pc /\ vessel'.head = vessel.head
        /\ vessel'.reply = vessel.reply
    BY <1>1, <1>3, <2>1, <2>2 DEF Passes, Steps
  <2>4. PlaceOK(vessel', ticket, requests, sent, merged)
    BY <1>8, <2>1, <2>2, <2>3, ReplyAssumption DEF PlaceOK
  <2> QED
    BY <1>1, <1>4, <2>3, <2>4, PlaceStep
<1> QED
  BY <1>5, <1>6, <1>7, <1>9, <1>10, <1>11, <1>12

\* process_single_pr and handle_conflicts, between two requests.
LEMMA PathStep ==
  ASSUME MergeInv, Poll \/ Readiness \/ MergeRead \/ Await \/ ConflictRead \/ ReworkRead
  PROVE  MergeInv'
<1>1. vessel \in Passes /\ pending \in BOOLEAN /\ faults \in 0..MaxFaults
  BY Zenon DEF MergeInv, SidesOK
<1>2. PlaceOK(vessel, ticket, requests, sent, merged)
  BY Zenon DEF MergeInv
<1>3. ticket \in Records
  BY Zenon DEF MergeInv, Gated
<1>4. UNCHANGED <<ticket, env, requests, sent>> /\ pending' = pending /\ faults' \in 0..MaxFaults
  BY <1>1, FaultCounts DEF Poll, Readiness, MergeRead, Await, ConflictRead, ReworkRead
<1>5. CASE Poll
  <2>1. /\ vessel.reply = None /\ vessel.head \in Heads
        /\ ~ticket.merge_pending /\ ticket.phase # "done"
    BY <1>2, <1>5, Zenon DEF PlaceOK, Poll, At, AfterSend, Free
  <2>2. CASE Go("sync")
    BY <1>1, <1>4, <2>2, RestartStep
  <2>3. CASE Go("readiness") /\ sent < MaxAttempts
    BY <1>1, <1>4, <2>1, <2>3, GoStep DEF Steps
  <2>4. CASE Go("rework_read") \/ Go("conflict_read")
    BY <1>1, <1>4, <2>1, <2>4, GoStep DEF Steps
  <2> QED
    BY <1>5, <2>2, <2>3, <2>4 DEF Poll
<1>6. CASE Readiness
  <2>1. /\ vessel.reply = None /\ vessel.head \in Heads /\ sent < MaxAttempts
        /\ ~ticket.merge_pending /\ ticket.phase # "done"
    BY <1>2, <1>6 DEF PlaceOK, Readiness, At, AfterSend, Free
  <2>2. CASE Go("sync")
    BY <1>1, <1>4, <2>2, RestartStep
  <2>3. CASE Go("merge_read")
    BY <1>1, <1>4, <2>1, <2>3, GoStep DEF Steps
  <2> QED
    BY <1>6, <2>2, <2>3 DEF Readiness
<1>7. CASE MergeRead
  <2>1. /\ vessel.reply = None /\ vessel.head \in Heads /\ sent < MaxAttempts
        /\ ~ticket.merge_pending /\ ticket.phase # "done"
    BY <1>2, <1>7 DEF PlaceOK, MergeRead, At, AfterSend, Free
  <2>2. CASE Go("remove")
    BY <1>1, <1>4, <2>1, <2>2, GoStep DEF Steps, Free
  <2>3. CASE vessel' = [vessel EXCEPT !.seen = ticket, !.pc = "begin"]
    <3>1. /\ vessel' \in Passes /\ vessel'.pc = "begin" /\ vessel'.head = vessel.head
          /\ vessel'.reply = vessel.reply
      BY <1>1, <1>3, <2>3 DEF Passes, Steps
    <3>2. PlaceOK(vessel', ticket, requests, sent, merged)
      BY <2>1, <3>1, ReplyAssumption DEF PlaceOK
    <3> QED
      BY <1>1, <1>4, <3>1, <3>2, PlaceStep
  <2> QED
    BY <1>7, <2>1, <2>2, <2>3 DEF MergeRead
<1>8. CASE Await
  <2>1. /\ vessel.reply # None /\ vessel.head \in Heads /\ requests = {}
        /\ vessel.reply = "merged" => merged # None
    BY <1>2, <1>8 DEF PlaceOK, Await, At
  <2>2. CASE Go("record") /\ vessel.reply = "merged"
    BY <1>1, <1>4, <2>1, <2>2, GoStep DEF Steps, Free, AfterSend
  <2>3. CASE Go("cancel")
    BY <1>1, <1>4, <2>1, <2>3, GoStep DEF Steps, Free, AfterSend
  <2> QED
    BY <1>8, <2>2, <2>3 DEF Await
<1>9. CASE ConflictRead
  <2>2. CASE vessel' = Pass
    <3>1. PlaceOK(vessel', ticket, requests, sent, merged)
      BY <2>2, PassIsFresh, PlaceEarly
    <3> QED
      BY <1>1, <1>4, <2>2, <3>1, PassIsFresh, PlaceStep
  <2>3. CASE Reworkable(ticket) /\ vessel' = [vessel EXCEPT !.pc = "conflict_move", !.seen = ticket]
    <3>1. /\ vessel' \in Passes /\ vessel'.pc = "conflict_move" /\ vessel'.head = vessel.head
          /\ vessel'.reply = vessel.reply
      BY <1>1, <1>3, <2>3 DEF Passes, Steps
    <3>2. ~ticket.merge_pending /\ ticket.phase # "done"
      BY <2>3, Zenon DEF Reworkable
    <3>3. vessel.head \in Heads /\ (vessel.reply = "merged" => merged # None)
      BY <1>2, <1>9, Zenon DEF PlaceOK, ConflictRead, At
    <3>4. PlaceOK(vessel', ticket, requests, sent, merged)
      BY <3>1, <3>2, <3>3, Zenon DEF PlaceOK, AfterSend
    <3> QED
      BY <1>1, <1>4, <3>1, <3>4, PlaceStep
  <2> QED
    BY <1>9, <2>2, <2>3 DEF ConflictRead
<1>10. CASE ReworkRead
  <2>1. vessel.head \in Heads /\ vessel.reply = None
    BY <1>2, <1>10, Zenon DEF PlaceOK, ReworkRead, At, AfterSend
  <2>2. CASE Go("remove")
    BY <1>1, <1>4, <2>1, <2>2, GoStep DEF Steps, Free
  <2>3. CASE Reworkable(ticket) /\ vessel' = [vessel EXCEPT !.pc = "rework_move", !.seen = ticket]
    <3>1. /\ vessel' \in Passes /\ vessel'.pc = "rework_move" /\ vessel'.head = vessel.head
          /\ vessel'.reply = vessel.reply
      BY <1>1, <1>3, <2>3 DEF Passes, Steps
    <3>2. ~ticket.merge_pending /\ ticket.phase # "done"
      BY <2>3, Zenon DEF Reworkable
    <3>3. PlaceOK(vessel', ticket, requests, sent, merged)
      BY <2>1, <3>1, <3>2, ReplyAssumption DEF PlaceOK
    <3> QED
      BY <1>1, <1>4, <3>1, <3>3, PlaceStep
  <2> QED
    BY <1>10, <2>2, <2>3, Zenon DEF ReworkRead
<1> QED
  BY <1>5, <1>6, <1>7, <1>8, <1>9, <1>10

-----------------------------------------------------------------------------
\* Without a reservation, and before the ticket is done, nothing is in flight.
LEMMA FreeIsQuiet ==
  ASSUME MergeInv, ~ticket.merge_pending, ticket.phase # "done"
  PROVE  requests = {}
  BY Zenon DEF MergeInv, FlightOK, Reserved

\* What SharedStore::transition can do to the record and to the controller.
LEMMA TransitionCases ==
  ASSUME faults \in 0..MaxFaults, NEW actor, NEW ev, NEW ok, NEW err,
         Transition(actor, ev, ok, err)
  PROVE  /\ faults' \in 0..MaxFaults
         /\ \/ /\ Accepts(ticket, actor, ev) /\ ticket' = Apply(ticket, actor, ev)
               /\ vessel' = IF ok = "sync" THEN Pass
                            ELSE [vessel EXCEPT !.pc = ok, !.seen = ticket']
            \/ ticket' = ticket /\ Go(err)
            \/ /\ Accepts(ticket, actor, ev) /\ ticket' = Apply(ticket, actor, ev)
               /\ Go(err)
  BY FaultCounts, Zenon DEF Transition, Applicable

\* An acknowledged transition, as a place of the controller.
LEMMA AckFields ==
  ASSUME vessel \in Passes, ticket' \in Records, NEW ok \in Steps,
         vessel' = IF ok = "sync" THEN Pass ELSE [vessel EXCEPT !.pc = ok, !.seen = ticket']
  PROVE  /\ vessel' \in Passes /\ vessel'.pc = ok
         /\ ok = "sync" => vessel'.reply = None
         /\ ok # "sync" => vessel'.head = vessel.head /\ vessel'.reply = vessel.reply
<1>1. CASE ok = "sync"
  BY <1>1, PassIsFresh, Zenon
<1>2. CASE ok # "sync"
  BY <1>2, Zenon DEF Passes
<1> QED
  BY <1>1, <1>2

\* A step that changes the record and the controller only.
LEMMA RecordStep ==
  ASSUME MergeInv, UNCHANGED <<env, requests, sent, pending>>, faults' \in 0..MaxFaults,
         Gated(ticket'), FlightOK(ticket', requests), vessel' \in Passes,
         PlaceOK(vessel', ticket', requests, sent, merged),
         ticket'.phase = "done" => merged # None
  PROVE  MergeInv'
  BY Zenon DEF MergeInv, SidesOK, env

\* An ordinary event of VESSEL on an unreserved record.
LEMMA OrdinaryTransition ==
  ASSUME MergeInv, vessel.pc \in Free, NEW actor, NEW ev, WellFormed(ev), ev.type \in Ordinary,
         NEW ok \in {"sync", "remove", "sentinel", "deliver", "recheck"},
         ok \notin {"sync", "remove"} => vessel.pc # "conflict_move",
         Transition(actor, ev, ok, "sync"), UNCHANGED <<env, requests, sent, pending>>
  PROVE  MergeInv'
<1>1. /\ vessel \in Passes /\ faults \in 0..MaxFaults /\ pending \in BOOLEAN
      /\ Gated(ticket) /\ ticket \in Records
  BY Zenon DEF MergeInv, SidesOK, Gated
<1>2. /\ ~ticket.merge_pending /\ ticket.phase # "done" /\ vessel.head \in Heads
      /\ vessel.pc # "conflict_move" => vessel.reply = None
      /\ vessel.reply = "merged" => merged # None
  BY Zenon DEF MergeInv, PlaceOK, Free, AfterSend
<1>3. requests = {}
  BY <1>2, FreeIsQuiet, Zenon
<1>4. faults' \in 0..MaxFaults
  BY <1>1, TransitionCases, Zenon
<1>5. ok \in Steps /\ "sync" \in Steps
  BY DEF Steps
<1>6. ASSUME ticket' = ticket, Go("sync") PROVE MergeInv'
  BY <1>1, <1>4, <1>6, RestartStep, Zenon
<1>7. ASSUME Accepts(ticket, actor, ev), ticket' = Apply(ticket, actor, ev)
      PROVE  /\ Gated(ticket') /\ ticket' \in Records /\ FlightOK(ticket', requests)
             /\ ~ticket'.merge_pending /\ ticket'.phase # "done"
  <2>1. Gated(ticket') /\ ~ticket'.merge_pending /\ ticket'.phase # "done"
    BY <1>1, <1>7, OrdinaryApply
  <2> QED
    BY <1>3, <2>1 DEF FlightOK, Gated
<1>8. ASSUME Accepts(ticket, actor, ev), ticket' = Apply(ticket, actor, ev), Go("sync")
      PROVE  MergeInv'
  <2>1. vessel' \in Passes /\ PlaceOK(vessel', ticket', requests, sent, merged)
    <3>1. vessel' \in Passes /\ vessel'.pc = "sync" /\ vessel'.reply = None
      BY <1>1, <1>5, <1>8, GoFields
    <3> QED
      BY ONLY <3>1, PlaceEarly
  <2> QED
    BY <1>4, <1>7, <1>8, <2>1, RecordStep
<1>9. ASSUME Accepts(ticket, actor, ev), ticket' = Apply(ticket, actor, ev),
             vessel' = IF ok = "sync" THEN Pass ELSE [vessel EXCEPT !.pc = ok, !.seen = ticket']
      PROVE  MergeInv'
  <2>1. /\ vessel' \in Passes /\ vessel'.pc = ok
        /\ ok = "sync" => vessel'.reply = None
        /\ ok # "sync" => vessel'.head = vessel.head /\ vessel'.reply = vessel.reply
    BY <1>1, <1>5, <1>7, <1>9, AckFields
  <2>2. PlaceOK(vessel', ticket', requests, sent, merged)
    <3>1. CASE ok = "sync"
      <4>1. vessel'.pc \in {"sync", "handoff", "fetch"} /\ vessel'.reply = None
        BY <2>1, <3>1
      <4> QED
        BY ONLY <4>1, PlaceEarly
    <3>2. CASE ok # "sync"
      BY <1>2, <1>7, <1>9, <2>1, <3>2 DEF PlaceOK, AfterSend
    <3> QED
      BY <3>1, <3>2, Zenon
  <2> QED
    BY <1>4, <1>7, <1>9, <2>1, <2>2, RecordStep
<1> QED
  BY <1>1, <1>6, <1>8, <1>9, TransitionCases

\* reconcile_github_approval and the moves back to building.
LEMMA OrdinaryStep ==
  ASSUME MergeInv, \/ ReturnToBuilding \/ RecordHuman \/ RecordSentinel \/ RecordDelivery
                   \/ ConflictMove \/ ReworkMove
  PROVE  MergeInv'
<1>1. vessel \in Passes /\ faults \in 0..MaxFaults /\ pending \in BOOLEAN /\ vessel.seen \in Records
  BY Zenon DEF MergeInv, SidesOK, Passes
<1>2. WellFormed(MoveEvent("building", None)) /\ MoveEvent("building", None).type = "move"
  BY NoneIsOption, Zenon DEF WellFormed, MoveEvent, Phases
<1>3. WellFormed(ApprovalOf(vessel.seen)) /\ ApprovalOf(vessel.seen).type = "decide"
  BY <1>1, Zenon DEF WellFormed, ApprovalOf, DecideEvent, Records, Texts
<1>4. ASSUME NEW r
      PROVE  WellFormed(ReviewDeliveredEvent(r)) /\ ReviewDeliveredEvent(r).type = "review_delivered"
  BY Zenon DEF WellFormed, ReviewDeliveredEvent
<1>5. {"move", "decide", "review_delivered"} \subseteq Ordinary
  BY Zenon DEF Ordinary
<1>6. CASE ReturnToBuilding
  BY <1>2, <1>5, <1>6, OrdinaryTransition DEF ReturnToBuilding, At, Free
<1>7. CASE RecordHuman
  <2> DEFINE ok == IF vessel.seen.pr_decision = None THEN "sentinel" ELSE "deliver"
  <2>1. ok \in {"sentinel", "deliver"}
    BY Zenon
  <2>2. vessel.pc = "human" /\ Transition("human", ApprovalOf(vessel.seen), ok, "sync")
    BY <1>7, Zenon DEF RecordHuman, At
  <2> HIDE DEF ok
  <2> QED
    BY <1>3, <1>5, <1>7, <2>1, <2>2, OrdinaryTransition DEF RecordHuman, Free
<1>8. CASE RecordSentinel
  BY <1>3, <1>5, <1>8, OrdinaryTransition DEF RecordSentinel, At, Free
<1>9. CASE RecordDelivery
  <2>1. vessel.pc = "deliver" /\ UNCHANGED <<env, requests, sent, pending>>
    BY <1>9, Zenon DEF RecordDelivery, At
  <2>2. CASE Go("recheck") /\ UNCHANGED <<ticket, faults>>
    <3>1. /\ ~ticket.merge_pending /\ ticket.phase # "done" /\ vessel.head \in Heads
          /\ vessel.reply = None
      BY <2>1, Zenon DEF MergeInv, PlaceOK, Free, AfterSend
    <3> QED
      BY <1>1, <2>1, <2>2, <3>1, GoStep DEF Steps
  <2>3. CASE Transition("sentinel", ReviewDeliveredEvent(vessel.seen.review_round),
                        "recheck", "sync")
    BY <1>4, <1>5, <2>1, <2>3, OrdinaryTransition DEF Free
  <2> QED
    BY <1>9, <2>2, <2>3 DEF RecordDelivery
<1>10. CASE ConflictMove
  BY <1>2, <1>5, <1>10, OrdinaryTransition DEF ConflictMove, At, Free
<1>11. CASE ReworkMove
  BY <1>2, <1>5, <1>11, OrdinaryTransition DEF ReworkMove, At, Free
<1> QED
  BY <1>6, <1>7, <1>8, <1>9, <1>10, <1>11

\* merge_reviewed reserves the candidate, if it is still the one it read.
LEMMA BeginStep == ASSUME MergeInv, Begin PROVE MergeInv'
<1>1. /\ vessel \in Passes /\ faults \in 0..MaxFaults /\ pending \in BOOLEAN /\ Gated(ticket)
  BY Zenon DEF MergeInv, SidesOK
<1>2. /\ ~ticket.merge_pending /\ ticket.phase # "done" /\ vessel.head \in Heads
      /\ vessel.reply = None /\ sent < MaxAttempts
  BY Zenon DEF MergeInv, PlaceOK, Free, AfterSend, Begin, At
<1>3. requests = {}
  BY <1>2, FreeIsQuiet
<1> DEFINE ev == BeginMergeEvent(vessel.head)
<1>4. Transition("vessel", ev, "send", "remove") /\ UNCHANGED <<env, requests, sent, pending>>
  BY Zenon DEF Begin
<1>5. {"send", "remove"} \subseteq Steps
  BY DEF Steps
<1>6. faults' \in 0..MaxFaults
  BY <1>1, <1>4, TransitionCases, Zenon
<1>7. ASSUME Accepts(ticket, "vessel", ev), ticket' = Apply(ticket, "vessel", ev)
      PROVE  /\ Gated(ticket') /\ ticket' \in Records /\ Reserved(ticket', vessel.head)
             /\ FlightOK(ticket', requests) /\ ticket'.phase # "done"
  <2>1. Gated(ticket') /\ Reserved(ticket', vessel.head)
    BY <1>1, <1>7, BeginApply
  <2> QED
    BY <1>3, <2>1 DEF FlightOK, Gated, Reserved, MergeReady
<1> HIDE DEF ev
<1>8. ASSUME ticket' = ticket, Go("remove") PROVE MergeInv'
  BY <1>1, <1>2, <1>4, <1>5, <1>6, <1>8, GoStep DEF Free, AfterSend
<1>9. ASSUME Accepts(ticket, "vessel", ev), ticket' = Apply(ticket, "vessel", ev), Go("remove")
      PROVE  MergeInv'
  <2>1. vessel' \in Passes /\ vessel'.pc = "remove" /\ vessel'.head = vessel.head
        /\ vessel'.reply = None
    BY <1>1, <1>2, <1>5, <1>9, GoFields
  <2>2. PlaceOK(vessel', ticket', requests, sent, merged)
    BY <1>2, <2>1, ReplyAssumption DEF PlaceOK, Free
  <2> QED
    BY <1>4, <1>6, <1>7, <1>9, <2>1, <2>2, RecordStep
<1>10. ASSUME Accepts(ticket, "vessel", ev), ticket' = Apply(ticket, "vessel", ev),
              vessel' = IF "send" = "sync" THEN Pass
                        ELSE [vessel EXCEPT !.pc = "send", !.seen = ticket']
       PROVE  MergeInv'
  <2>1. vessel' \in Passes /\ vessel'.pc = "send" /\ vessel'.head = vessel.head
        /\ vessel'.reply = None
    BY <1>1, <1>2, <1>5, <1>7, <1>10, AckFields
  <2>2. PlaceOK(vessel', ticket', requests, sent, merged)
    BY <1>2, <1>3, <1>7, <1>10, <2>1, ReplyAssumption DEF PlaceOK, Free
  <2> QED
    BY <1>4, <1>6, <1>7, <1>10, <2>1, <2>2, RecordStep
<1> QED
  BY <1>1, <1>4, <1>8, <1>9, <1>10, TransitionCases

\* The merge request leaves: nothing else is in flight, and the record is
\* reserved for the commit it names.
LEMMA SendStep == ASSUME MergeInv, Send PROVE MergeInv'
<1> DEFINE r == [id |-> sent', head |-> vessel.head]
<1>1. /\ vessel \in Passes /\ sent \in Nat /\ sent < MaxAttempts /\ sent' = sent + 1
      /\ vessel.head \in Heads /\ vessel.reply = None
      /\ Reserved(ticket, vessel.head) /\ requests = {}
  <2>1. vessel \in Passes /\ sent \in 0..MaxAttempts
    BY Zenon DEF MergeInv, SidesOK
  <2>2. vessel.pc = "send" /\ sent' = sent + 1
    BY Zenon DEF Send, At
  <2>3. PlaceOK(vessel, ticket, requests, sent, merged)
    BY Zenon DEF MergeInv
  <2>4. /\ sent < MaxAttempts /\ vessel.head \in Heads /\ vessel.reply = None
        /\ Reserved(ticket, vessel.head) /\ requests = {}
    BY ONLY <2>2, <2>3 DEF PlaceOK, AfterSend
  <2>5. sent \in Nat
    BY <2>1, BoundsAssumption
  <2> QED
    BY <2>1, <2>2, <2>4, <2>5
<1>2. r.id = sent' /\ r.head = vessel.head /\ r \in [id : 1..MaxAttempts, head : Heads]
  BY <1>1, BoundsAssumption
<1>3. requests' = {r} /\ Go("await") /\ UNCHANGED <<ticket, env, pending, faults>>
  BY <1>1 DEF Send
<1> HIDE DEF r
<1>4. /\ vessel' \in Passes /\ vessel'.pc = "await" /\ vessel'.head = vessel.head
      /\ vessel'.reply = None
  BY <1>1, <1>3, GoFields DEF Steps
<1>5. PlaceOK(vessel', ticket, requests', sent', merged)
  BY <1>1, <1>2, <1>3, <1>4, ReplyAssumption DEF PlaceOK, Free
<1>6. FlightOK(ticket, requests')
  BY <1>1, <1>2, <1>3 DEF FlightOK
<1>7. sent' \in 0..MaxAttempts /\ requests' \subseteq [id : 1..MaxAttempts, head : Heads]
  BY <1>1, <1>2, <1>3, BoundsAssumption
<1> QED
  BY <1>3, <1>4, <1>5, <1>6, <1>7 DEF MergeInv, SidesOK, env

\* No usable answer: the reservation stays, whatever became of the request.
LEMMA AwaitFailsStep == ASSUME MergeInv, AwaitFails PROVE MergeInv'
<1>1. /\ vessel \in Passes /\ faults' \in 0..MaxFaults
      /\ vessel.head \in Heads /\ (vessel.reply = "merged" => merged # None)
  BY FaultCounts DEF MergeInv, SidesOK, PlaceOK, AwaitFails, At
<1>2. requests' \subseteq requests /\ UNCHANGED <<ticket, env, sent, pending>>
  BY Zenon DEF AwaitFails
<1>3. PICK pc \in {"remove", "conflict_read"} : Go(pc)
  BY Zenon DEF AwaitFails
<1>4. /\ vessel' \in Passes /\ vessel'.pc = pc /\ vessel'.head = vessel.head
      /\ vessel'.reply = vessel.reply
  BY <1>1, <1>3, GoFields DEF Steps
<1>5. PlaceOK(vessel', ticket, requests', sent, merged)
  BY <1>1, <1>3, <1>4 DEF PlaceOK, Free, AfterSend
<1>6. FlightOK(ticket, requests')
  BY <1>2, Zenon DEF MergeInv, FlightOK
<1> QED
  BY <1>1, <1>2, <1>4, <1>5, <1>6, Zenon DEF MergeInv, SidesOK, env

\* Event::Merged and Event::ReconcileMerged, once GitHub merged.
LEMMA DoneTransition ==
  ASSUME MergeInv, merged # None, vessel.head \in Heads, NEW ev, WellFormed(ev),
         ev.type \in {"merged", "reconcile_merged"},
         NEW err \in {"sync", "remove"}, err = "sync" => vessel.reply = None,
         Transition("vessel", ev, "remove", err), UNCHANGED <<env, requests, sent, pending>>
  PROVE  MergeInv'
<1>1. vessel \in Passes /\ faults \in 0..MaxFaults /\ pending \in BOOLEAN /\ Gated(ticket)
  BY Zenon DEF MergeInv, SidesOK
<1>2. faults' \in 0..MaxFaults
  BY <1>1, TransitionCases
<1>3. err \in Steps /\ "remove" \in Steps
  BY Zenon DEF Steps
<1>4. ASSUME ticket' = ticket, Go(err) PROVE MergeInv'
  <2>1. CASE err = "sync"
    BY <1>1, <1>2, <1>4, <2>1, RestartStep
  <2>2. CASE err = "remove"
    BY <1>1, <1>2, <1>3, <1>4, <2>2, GoStep DEF Free, AfterSend
  <2> QED
    BY <2>1, <2>2
<1>5. ASSUME Accepts(ticket, "vessel", ev), ticket' = Apply(ticket, "vessel", ev)
      PROVE  /\ Gated(ticket') /\ ticket' \in Records /\ ticket'.phase = "done"
             /\ FlightOK(ticket', requests)
  <2>1. Gated(ticket') /\ ticket'.phase = "done"
    BY <1>1, <1>5, DoneApply
  <2> QED
    BY <2>1, Zenon DEF FlightOK, Gated, MergeInv
<1>6. ASSUME ticket'.phase = "done", vessel' \in Passes, vessel'.pc \in {"sync", "remove"},
             vessel'.pc = "sync" => vessel'.reply = None,
             vessel'.pc = "remove" => vessel'.head = vessel.head
      PROVE  PlaceOK(vessel', ticket', requests, sent, merged)
  BY <1>6, Zenon DEF PlaceOK, Free, AfterSend
<1>7. ASSUME Accepts(ticket, "vessel", ev), ticket' = Apply(ticket, "vessel", ev), Go(err)
      PROVE  MergeInv'
  <2>1. /\ vessel' \in Passes /\ vessel'.pc \in {"sync", "remove"}
        /\ vessel'.pc = "sync" => vessel'.reply = None
        /\ vessel'.pc = "remove" => vessel'.head = vessel.head
    BY <1>1, <1>3, <1>7, GoFields
  <2> QED
    BY <1>2, <1>5, <1>6, <1>7, <2>1, RecordStep
<1>8. ASSUME Accepts(ticket, "vessel", ev), ticket' = Apply(ticket, "vessel", ev),
             vessel' = IF "remove" = "sync" THEN Pass
                       ELSE [vessel EXCEPT !.pc = "remove", !.seen = ticket']
      PROVE  MergeInv'
  <2>1. vessel' \in Passes /\ vessel'.pc = "remove" /\ vessel'.head = vessel.head
    BY <1>1, <1>3, <1>5, <1>8, AckFields
  <2> QED
    BY <1>2, <1>5, <1>6, <1>8, <2>1, RecordStep
<1> QED
  BY <1>1, <1>4, <1>7, <1>8, TransitionCases

\* merge_reviewed after a granted merge, and reconcile_merged of a merge that
\* somebody else made.
LEMMA DoneStep == ASSUME MergeInv, Record \/ Reconcile PROVE MergeInv'
<1>1. vessel \in Passes /\ PlaceOK(vessel, ticket, requests, sent, merged)
  BY Zenon DEF MergeInv, SidesOK
<1>2. CASE Record
  <2>1. merged # None /\ vessel.head \in Heads
    BY <1>1, <1>2 DEF PlaceOK, Record, At
  <2>2. /\ WellFormed(MergedEvent(Number, vessel.head, "text"))
        /\ MergedEvent(Number, vessel.head, "text").type = "merged"
    BY Zenon DEF WellFormed, MergedEvent, Texts
  <2> QED
    BY <1>2, <2>1, <2>2, DoneTransition DEF Record
<1>3. CASE Reconcile
  <2>1. merged # None /\ vessel.head \in Heads /\ vessel.reply = None
    BY <1>1, <1>3, Zenon DEF PlaceOK, Reconcile, At, AfterSend
  <2>2. /\ WellFormed(ReconcileMergedEvent(Number, "text"))
        /\ ReconcileMergedEvent(Number, "text").type = "reconcile_merged"
    BY StartAssumption, Zenon DEF WellFormed, ReconcileMergedEvent, Texts
  <2> QED
    BY <1>3, <2>1, <2>2, DoneTransition DEF Reconcile
<1> QED
  BY <1>2, <1>3

\* After a rejection nothing is in flight, so the reservation may be dropped.
LEMMA CancelStep == ASSUME MergeInv, Cancel PROVE MergeInv'
<1>1. vessel \in Passes /\ faults \in 0..MaxFaults /\ pending \in BOOLEAN /\ Gated(ticket)
  BY Zenon DEF MergeInv, SidesOK
<1>2. vessel.head \in Heads /\ requests = {} /\ (vessel.reply = "merged" => merged # None)
  BY Zenon DEF MergeInv, PlaceOK, Cancel, At
<1>3. PICK next \in {"conflict_read", "sync", "remove"} :
        Transition("vessel", CancelMergeEvent, next, "remove")
  BY Zenon DEF Cancel
<1>4. UNCHANGED <<env, requests, sent, pending>>
  BY Zenon DEF Cancel
<1>5. faults' \in 0..MaxFaults
  BY <1>1, <1>3, TransitionCases
<1>6. next \in Steps /\ "remove" \in Steps
  BY Zenon DEF Steps
<1>7. ASSUME ticket' = ticket, Go("remove") PROVE MergeInv'
  BY <1>1, <1>2, <1>4, <1>5, <1>6, <1>7, GoStep DEF Free, AfterSend
<1>8. ASSUME Accepts(ticket, "vessel", CancelMergeEvent),
             ticket' = Apply(ticket, "vessel", CancelMergeEvent)
      PROVE  /\ Gated(ticket') /\ ticket' \in Records /\ FlightOK(ticket', requests)
             /\ ticket'.phase # "done"
  <2>1. Gated(ticket') /\ ticket'.phase # "done"
    BY <1>1, <1>8, CancelApply
  <2> QED
    BY <1>2, <2>1, Zenon DEF FlightOK, Gated
<1>9. ASSUME vessel' \in Passes, vessel'.pc \in {"conflict_read", "remove"},
             vessel'.head = vessel.head, vessel'.reply = vessel.reply
      PROVE  PlaceOK(vessel', ticket', requests, sent, merged)
  BY <1>2, <1>9, Zenon DEF PlaceOK, Free, AfterSend
<1>10. ASSUME Accepts(ticket, "vessel", CancelMergeEvent),
              ticket' = Apply(ticket, "vessel", CancelMergeEvent), Go("remove")
       PROVE  MergeInv'
  <2>1. vessel' \in Passes /\ vessel'.pc = "remove" /\ vessel'.head = vessel.head
        /\ vessel'.reply = vessel.reply
    BY <1>1, <1>6, <1>10, GoFields
  <2> QED
    BY <1>4, <1>5, <1>8, <1>9, <1>10, <2>1, RecordStep
<1>11. ASSUME Accepts(ticket, "vessel", CancelMergeEvent),
              ticket' = Apply(ticket, "vessel", CancelMergeEvent),
              vessel' = IF next = "sync" THEN Pass
                        ELSE [vessel EXCEPT !.pc = next, !.seen = ticket']
       PROVE  MergeInv'
  <2>1. /\ vessel' \in Passes /\ vessel'.pc = next
        /\ next = "sync" => vessel'.reply = None
        /\ next # "sync" => vessel'.head = vessel.head /\ vessel'.reply = vessel.reply
    BY <1>1, <1>6, <1>8, <1>11, AckFields
  <2>2. PlaceOK(vessel', ticket', requests, sent, merged)
    <3>1. CASE next = "sync"
      <4>1. vessel'.pc \in {"sync", "handoff", "fetch"} /\ vessel'.reply = None
        BY <2>1, <3>1
      <4> QED
        BY ONLY <4>1, PlaceEarly
    <3>2. CASE next # "sync"
      BY <1>9, <2>1, <3>2
    <3> QED
      BY <3>1, <3>2
  <2> QED
    BY <1>4, <1>5, <1>8, <1>11, <2>1, <2>2, RecordStep
<1> QED
  BY <1>1, <1>3, <1>7, <1>10, <1>11, TransitionCases

-----------------------------------------------------------------------------
\* GitHub executes or rejects the one request in flight.
LEMMA GitHubStep == ASSUME MergeInv, GitHub PROVE MergeInv'
<1>1. PICK r \in requests : Execute(r)
  BY Zenon DEF GitHub
<1>2. /\ vessel \in Passes /\ requests' = {}
      /\ r \in [id : 1..MaxAttempts, head : Heads]
  BY <1>1, Zenon DEF MergeInv, SidesOK, FlightOK, Execute
<1>3. /\ merged' \in Option(Heads) /\ (merged # None => merged' # None)
      /\ merged' # merged => merged' # None
  BY <1>1, <1>2, HeadsAssumption DEF MergeInv, SidesOK, Execute, Option
<1>4. UNCHANGED <<ticket, head, approvals, sent, pending, faults>>
  BY <1>1, Zenon DEF Execute
<1>5. vessel' \in Passes /\ PlaceOK(vessel', ticket, {}, sent, merged')
  <2>1. CASE vessel' = vessel
    BY <1>2, <1>3, <2>1 DEF MergeInv, PlaceOK
  <2>2. CASE /\ At("await") /\ vessel' = [vessel EXCEPT
                     !.reply = IF merged' = merged THEN "rejected" ELSE "merged"]
    <3> DEFINE a == IF merged' = merged THEN "rejected" ELSE "merged"
    <3>1. a \in {"merged", "rejected"} /\ (a = "merged" => merged' # None)
      BY <1>3, Zenon
    <3>2. vessel' = [vessel EXCEPT !.reply = a]
      BY <2>2, Zenon
    <3> HIDE DEF a
    <3>3. /\ vessel' \in Passes /\ vessel'.pc = "await" /\ vessel'.head = vessel.head
          /\ vessel'.reply = a
      BY <1>2, <2>2, <3>1, <3>2 DEF Passes, At
    <3>4. vessel.head \in Heads /\ Reserved(ticket, vessel.head)
      BY <2>2, Zenon DEF MergeInv, PlaceOK, At
    <3>5. PlaceOK(vessel', ticket, {}, sent, merged')
      BY <3>1, <3>3, <3>4 DEF PlaceOK, Free, AfterSend
    <3> QED
      BY <3>3, <3>5, Zenon
  <2> QED
    BY <1>1, <2>1, <2>2 DEF Execute
<1>6. FlightOK(ticket, {})
  BY Zenon DEF FlightOK
<1> QED
  BY <1>2, <1>3, <1>4, <1>5, <1>6 DEF MergeInv, SidesOK

\* The events of the other actors are ordinary ones.
LEMMA OtherEventsOrdinary ==
  ASSUME NEW s \in Records, NEW ev \in OtherEvents(s)
  PROVE  WellFormed(ev) /\ ev.type \in Ordinary
<1> USE DEF Texts, Ordinary
<1>0. CASE ev = PlanEvent("text")
  BY <1>0, Zenon DEF PlanEvent, WellFormed
<1>1. CASE ev = BlockEvent("text")
  BY <1>1, Zenon DEF BlockEvent, WellFormed
<1>2. ASSUME NEW p \in Phases, NEW h \in Option(Heads), ev = MoveEvent(p, h)
      PROVE  WellFormed(ev) /\ ev.type \in Ordinary
  BY <1>2, Zenon DEF MoveEvent, WellFormed
<1>3. ASSUME NEW p, NEW h \in Option(Heads), NEW ok \in BOOLEAN,
             ev = DecideEvent(p, s.review_round, s.revision, h, ok, "text")
      PROVE  WellFormed(ev) /\ ev.type \in Ordinary
  BY <1>3, Zenon DEF DecideEvent, WellFormed
<1>4. ASSUME NEW h \in Heads, ev = VerifiedEvent(h, "text")
      PROVE  WellFormed(ev) /\ ev.type \in Ordinary
  BY <1>4, Zenon DEF VerifiedEvent, WellFormed
<1>5. ASSUME NEW n \in PRs, ev = PrEvent(n)
      PROVE  WellFormed(ev) /\ ev.type \in Ordinary
  BY <1>5, Zenon DEF PrEvent, WellFormed
<1>6. CASE ev = ReviewDeliveredEvent(s.review_round)
  BY <1>6 DEF ReviewDeliveredEvent, WellFormed
<1>7. \/ ev \in {PlanEvent("text"), BlockEvent("text")}
      \/ \E p \in Phases, h \in Option(Heads) : ev = MoveEvent(p, h)
      \/ \E p \in ReviewPhases, h \in Option(Heads), ok \in BOOLEAN :
           ev = DecideEvent(p, s.review_round, s.revision, h, ok, "text")
      \/ \E h \in Heads : ev = VerifiedEvent(h, "text")
      \/ \E n \in PRs : ev = PrEvent(n)
      \/ ev = ReviewDeliveredEvent(s.review_round)
  BY DEF OtherEvents
<1> QED
  BY <1>0, <1>1, <1>2, <1>3, <1>4, <1>5, <1>6, <1>7

\* The reducer refuses the events of other actors while the ticket is
\* reserved, so nothing is in flight when one is applied.
LEMMA WorkerStep == ASSUME MergeInv, WorkerEvent PROVE MergeInv'
<1>1. Gated(ticket) /\ ticket \in Records
  BY Zenon DEF MergeInv, Gated
<1>2. PICK actor \in {"forge", "sentinel", "human"}, ev \in OtherEvents(ticket) :
        Accepts(ticket, actor, ev) /\ ticket' = Apply(ticket, actor, ev)
  BY Zenon DEF WorkerEvent
<1>3. /\ ~ticket.merge_pending /\ ticket.phase # "done"
      /\ Gated(ticket') /\ ~ticket'.merge_pending /\ ticket'.phase # "done"
  BY <1>1, <1>2, OtherEventsOrdinary, OrdinaryApply
<1>4. requests = {} /\ ticket.merge_pending \in BOOLEAN /\ ticket'.merge_pending \in BOOLEAN
  BY <1>1, <1>3, FreeIsQuiet DEF Gated, Records
<1>5. UNCHANGED <<env, requests, sent, pending, vessel, faults>>
  BY Zenon DEF WorkerEvent
<1>6. PlaceOK(vessel, ticket', requests, sent, merged)
  BY <1>3, <1>4 DEF MergeInv, PlaceOK, Reserved
<1>7. FlightOK(ticket', requests)
  BY <1>4, Zenon DEF FlightOK
<1> QED
  BY <1>3, <1>5, <1>6, <1>7 DEF MergeInv, SidesOK, env

\* People push, approve and merge on GitHub.
LEMMA PeopleStep == ASSUME MergeInv, Push \/ ApproveOnGitHub \/ MergeByHand PROVE MergeInv'
<1>1. /\ head' \in Heads /\ approvals' \subseteq Heads /\ merged' \in Option(Heads)
      /\ merged # None => merged' # None
      /\ UNCHANGED <<ticket, requests, sent, pending, vessel, faults>>
  BY HeadsAssumption, Zenon DEF MergeInv, SidesOK, Push, ApproveOnGitHub, MergeByHand, Option
<1>2. PlaceOK(vessel, ticket, requests, sent, merged')
  BY <1>1, Zenon DEF MergeInv, PlaceOK
<1> QED
  BY <1>1, <1>2 DEF MergeInv, SidesOK

-----------------------------------------------------------------------------
\* A submitted and bound ticket whose pull request is open.
LEMMA InitMerge == Init => MergeInv
<1> SUFFICES ASSUME Init PROVE MergeInv
  BY Zenon
<1>1. Gated(ticket) /\ ticket.phase # "done"
  <2>1. ticket \in InitialRecords
    BY StartAssumption DEF Init, InitialRecords
  <2>2. UnboundSubmit(FirstHead, Number) \in Records
    BY StartAssumption, UnboundSubmitType, Zenon
  <2>3. UnboundSubmit(FirstHead, Number).phase = "submit"
    BY DefaultType, Zenon DEF UnboundSubmit, Records
  <2>4. ticket.phase = "submit"
    BY <2>2, <2>3, Zenon DEF Init, Normalised, Records
  <2> QED
    BY <2>1, <2>4, InitGated
<1>2. vessel \in Passes /\ vessel.pc = "sync" /\ vessel.reply = None
  BY PassIsFresh, Zenon DEF Init
<1>3. PlaceOK(vessel, ticket, requests, sent, merged)
  BY <1>2, PlaceEarly
<1>4. SidesOK
  BY <1>2, StartAssumption, BoundsAssumption, NoneIsOption DEF Init, SidesOK
<1>5. FlightOK(ticket, requests)
  BY Zenon DEF Init, FlightOK
<1> QED
  BY <1>1, <1>3, <1>4, <1>5 DEF MergeInv

\* Every step of anybody keeps the invariant.
LEMMA NextMerge == MergeInv /\ [Next]_vars => MergeInv'
<1> SUFFICES ASSUME MergeInv, [Next]_vars PROVE MergeInv'
  BY Zenon
<1>1. CASE Controller
  <2>1. CASE SyncOpenPrs \/ HandOff \/ PassFails \/ RemoveFromPending
    BY <2>1, EarlyStep
  <2>2. CASE \/ Fetch \/ Read \/ Confirm \/ ListReviews \/ Reread \/ Recheck \/ NeedsRework
    BY <2>2, ExecStep
  <2>3. CASE \/ Poll \/ Readiness \/ MergeRead \/ Await \/ ConflictRead \/ ReworkRead
    BY <2>3, PathStep
  <2>4. CASE \/ ReturnToBuilding \/ RecordHuman \/ RecordSentinel \/ RecordDelivery
             \/ ConflictMove \/ ReworkMove
    BY <2>4, OrdinaryStep
  <2>5. CASE Begin
    BY <2>5, BeginStep
  <2>6. CASE Send
    BY <2>6, SendStep
  <2>7. CASE AwaitFails
    BY <2>7, AwaitFailsStep
  <2>8. CASE Record \/ Reconcile
    BY <2>8, DoneStep
  <2>9. CASE Cancel
    BY <2>9, CancelStep
  <2> QED
    BY <1>1, <2>1, <2>2, <2>3, <2>4, <2>5, <2>6, <2>7, <2>8, <2>9 DEF Controller
<1>2. CASE Crash
  BY <1>2, EarlyStep
<1>3. CASE GitHub
  BY <1>3, GitHubStep
<1>4. CASE WorkerEvent
  BY <1>4, WorkerStep
<1>5. CASE Push \/ ApproveOnGitHub \/ MergeByHand
  BY <1>5, PeopleStep
<1>6. CASE UNCHANGED vars
  BY <1>6, Zenon DEF vars, MergeInv, SidesOK
<1> QED
  BY <1>1, <1>2, <1>3, <1>4, <1>5, <1>6 DEF Next

\* The inductive invariant holds throughout: at every place of a pass the
\* controller may rely on what it read, reserved and sent before.
THEOREM MergeInvAlways == Spec => []MergeInv
<1>1. Init => MergeInv
  BY InitMerge, Zenon
<1>2. MergeInv /\ [Next]_vars => MergeInv'
  BY NextMerge, Zenon
<1> QED
  BY <1>1, <1>2, PTL DEF Spec

\* Every variable keeps its type, whatever the order of crashes, replies and
\* events.
THEOREM MergeTypes == Spec => []TypeOK
<1>1. MergeInv => TypeOK
  BY DEF MergeInv, SidesOK, Gated, Passes, TypeOK
<1> QED
  BY <1>1, MergeInvAlways, PTL

\* merge_reviewed asks GitHub for a merge only after begin_merge, and no event
\* but the outcome of the merge ends the reservation: what GitHub may still
\* merge is the approved candidate of the record.
THEOREM MergesAreReserved == Spec => []InFlightIsReserved
<1>1. MergeInv => InFlightIsReserved
  BY DEF MergeInv, FlightOK, Reserved, InFlightIsReserved
<1> QED
  BY <1>1, MergeInvAlways, PTL

\* A reservation left behind by an unknown outcome keeps every later pass from
\* sending a second request.
THEOREM MergesAreSingle == Spec => []OneRequestInFlight
<1>1. MergeInv => OneRequestInFlight
  <2> SUFFICES ASSUME MergeInv PROVE Cardinality(requests) <= 1
    BY Zenon DEF OneRequestInFlight
  <2>1. CASE requests = {}
    BY <2>1, FS_EmptySet
  <2>2. CASE requests # {}
    <3>1. PICK r : r \in requests
      BY <2>2, Zenon
    <3>2. requests = {r}
      BY <3>1, Zenon DEF MergeInv, FlightOK
    <3>3. Cardinality({r}) = 1
      BY FS_Singleton, Zenon
    <3> QED
      BY <3>2, <3>3
  <2> QED
    BY <2>1, <2>2, Zenon
<1> QED
  BY <1>1, MergeInvAlways, PTL

\* VESSEL records merged and reconcile_merged only with GitHub's word for it.
THEOREM DoneMeansMerged == Spec => []DoneIsMerged
<1>1. MergeInv => DoneIsMerged
  BY Zenon DEF MergeInv, DoneIsMerged
<1> QED
  BY <1>1, MergeInvAlways, PTL

-----------------------------------------------------------------------------
\* reconcile_github_approval holds an approval of the head it fetched, and
\* speaks to the record it read for that head only.
Approving == {"reread", "human", "sentinel"}
Named(v, ap) ==
    /\ v.pc \in Approving => v.head \in ap
    /\ v.pc \in {"human", "sentinel"} => v.seen.head = v.head

\* An approval SENTINEL or a human records keeps the head of the record.
LEMMA ApprovalApply ==
  ASSUME NEW s, Gated(s), NEW seen \in Records, NEW actor,
         Accepts(s, actor, ApprovalOf(seen))
  PROVE  LET t == Apply(s, actor, ApprovalOf(seen))
         IN  s.phase = "submit" /\ s.head = seen.head /\ t.head = s.head
<1> DEFINE ev == ApprovalOf(seen)
           r == Recorded(s, actor, ev)
<1>1. /\ ev.type = "decide" /\ ev.phase = "submit" /\ ev.head = seen.head /\ ev.approved = TRUE
      /\ ev.head \in Option(Heads)
  BY Zenon DEF ApprovalOf, DecideEvent, Records
<1>2. ev.approved \in BOOLEAN
  BY <1>1
<1> HIDE DEF ev
<1>3. MayDecide(s, actor, ev) /\ s \in Records
  BY <1>1, Zenon DEF Accepts, Gated, ev
<1>4. s.phase = "submit" /\ s.head = ev.head
  BY <1>1, <1>3, Zenon DEF MayDecide, SameReview
<1>5. r \in Records /\ r.head = s.head
  <2>1. Verdict(s, actor, ev)
    BY <1>1, <1>2, <1>3 DEF Verdict
  <2>2. SameFrame(s, Recorded(s, actor, ev))
    BY ONLY <2>1, RecordedFrame
  <2> QED
    BY <2>2, Zenon DEF r, SameFrame
<1>6. Effect(s, actor, ev) = r
  BY <1>1, Zenon DEF Effect, AfterDecide
<1> HIDE DEF r
<1>7. Apply(s, actor, ev) = [r EXCEPT !.version = @ + 1]
  BY <1>1, <1>6 DEF Apply
<1> QED
  BY <1>1, <1>4, <1>5, <1>7 DEF Records, ev

\* Every step keeps it.
LEMMA NamedStep ==
  ASSUME MergeInv, Named(vessel, approvals), [Next]_vars
  PROVE  Named(vessel', approvals')
<1>1. vessel \in Passes /\ Gated(ticket) /\ ticket \in Records /\ vessel.seen \in Records
      /\ faults \in 0..MaxFaults
  BY Zenon DEF MergeInv, SidesOK, Gated, Passes
<1>2. ASSUME vessel'.pc \notin Approving PROVE Named(vessel', approvals')
  BY <1>2, Zenon DEF Named, Approving
<1>3. ASSUME NEW pc \in Steps \ Approving, Go(pc) PROVE Named(vessel', approvals')
  BY <1>1, <1>2, <1>3, GoFields
<1>4. ASSUME vessel' = vessel, approvals \subseteq approvals' PROVE Named(vessel', approvals')
  BY <1>4, Zenon DEF Named
<1>5. ASSUME NEW actor, NEW ev, NEW ok \in Steps \ Approving, NEW err \in Steps \ Approving,
             Transition(actor, ev, ok, err)
      PROVE  Named(vessel', approvals')
  <2>1. CASE Go(err)
    BY <1>3, <2>1
  <2>2. CASE vessel' = IF ok = "sync" THEN Pass ELSE [vessel EXCEPT !.pc = ok, !.seen = ticket']
    <3>1. vessel'.pc = ok
      BY <1>1, <2>2, PassIsFresh DEF Passes
    <3> QED
      BY <1>2, <3>1
  <2> QED
    BY <1>1, <1>5, <2>1, <2>2, TransitionCases
<1>6. {"sync", "handoff", "fetch", "remove", "reconcile", "return", "poll", "list_reviews",
       "rework", "recheck", "readiness", "merge_read", "send", "await", "record", "cancel",
       "conflict_read", "rework_read", "deliver"} \subseteq Steps \ Approving
  BY DEF Steps, Approving
<1>7. CASE SyncOpenPrs \/ HandOff \/ PassFails \/ RemoveFromPending \/ Crash
  BY <1>3, <1>6, <1>7, Zenon DEF SyncOpenPrs, HandOff, PassFails, RemoveFromPending, Crash
<1>8. CASE Fetch \/ Read
  BY <1>1, <1>2, <1>8, Zenon DEF Fetch, Read, ReadTicket, Passes, Approving
<1>9. CASE Confirm
  <2>1. Triage(vessel.seen) \in {"sync", "return", "poll", "list_reviews"}
    BY <1>1, Zenon DEF Triage, Records
  <2> QED
    BY <1>3, <1>6, <1>9, <2>1, Zenon DEF Confirm
<1>10. CASE Recheck \/ NeedsRework \/ Poll \/ Readiness
  BY <1>3, <1>6, <1>10 DEF Recheck, NeedsRework, Poll, Readiness
<1>11. CASE MergeRead \/ ReworkRead
  <2>1. CASE Go("remove")
    BY <1>3, <1>6, <2>1
  <2>2. CASE \E pc \in {"send", "begin"} : vessel' = [vessel EXCEPT !.seen = ticket, !.pc = pc]
    BY <1>1, <1>2, <2>2 DEF Passes, Approving
  <2>3. CASE vessel' = [vessel EXCEPT !.pc = "rework_move", !.seen = ticket]
    BY <1>1, <1>2, <2>3 DEF Passes, Approving
  <2> QED
    BY <1>11, <2>1, <2>2, <2>3 DEF MergeRead, ReworkRead
<1>12. CASE ConflictRead
  <2>1. CASE vessel' = Pass
    BY <1>2, <2>1, PassIsFresh DEF Approving
  <2>2. CASE vessel' = [vessel EXCEPT !.pc = "conflict_move", !.seen = ticket]
    BY <1>1, <1>2, <2>2 DEF Passes, Approving
  <2> QED
    BY <1>12, <2>1, <2>2 DEF ConflictRead
<1>13. CASE Send \/ Await \/ AwaitFails
  BY <1>3, <1>6, <1>13 DEF Send, Await, AwaitFails
<1>14. CASE Reconcile \/ ReturnToBuilding \/ RecordSentinel \/ Begin \/ Record \/ Cancel
            \/ ConflictMove \/ ReworkMove
  BY <1>5, <1>6, <1>14
     DEF Reconcile, ReturnToBuilding, RecordSentinel, Begin, Record, Cancel, ConflictMove, ReworkMove
<1>15. CASE RecordDelivery
  BY <1>3, <1>5, <1>6, <1>15 DEF RecordDelivery
<1>16. CASE ListReviews
  <2>1. CASE Go("rework")
    BY <1>3, <1>6, <2>1
  <2>2. CASE vessel.head \in approvals /\ Go("reread")
    <3>1. vessel'.pc = "reread" /\ vessel'.head = vessel.head
      BY <1>1, <2>2, GoFields DEF Steps
    <3>2. approvals' = approvals
      BY <1>16, Zenon DEF ListReviews, env
    <3> QED
      BY <2>2, <3>1, <3>2 DEF Named
  <2> QED
    BY <1>16, <2>1, <2>2 DEF ListReviews
<1>17. CASE Reread
  <2> DEFINE pc == CASE ~ApprovalApplies(ticket) -> "rework"
                     [] ApprovalApplies(ticket) /\ ticket.pr_human = None -> "human"
                     [] ApprovalApplies(ticket) /\ ticket.pr_human # None -> "sentinel"
  <2>1. pc \in {"rework", "human", "sentinel"} /\ (pc # "rework" => ticket.head = vessel.head)
    BY Zenon DEF ApprovalApplies
  <2>2. /\ vessel' = [vessel EXCEPT !.seen = ticket, !.pc = pc] /\ vessel.pc = "reread"
        /\ approvals' = approvals
    BY <1>17, Zenon DEF Reread, At, env
  <2> HIDE DEF pc
  <2>3. vessel'.pc = pc /\ vessel'.head = vessel.head /\ vessel'.seen = ticket
    BY <1>1, <2>2 DEF Passes
  <2> QED
    BY <2>1, <2>2, <2>3 DEF Named, Approving
<1>18. CASE RecordHuman
  <2> DEFINE ok == IF vessel.seen.pr_decision = None THEN "sentinel" ELSE "deliver"
             ev == ApprovalOf(vessel.seen)
  <2>1. /\ vessel.pc = "human" /\ Transition("human", ev, ok, "sync")
        /\ approvals' = approvals
    BY <1>18, Zenon DEF RecordHuman, At, env
  <2>2. vessel.head \in approvals /\ vessel.seen.head = vessel.head
    BY <2>1, Zenon DEF Named, Approving
  <2>3. ok \in {"sentinel", "deliver"}
    BY Zenon
  <2> HIDE DEF ok
  <2>4. CASE Go("sync")
    BY <1>3, <1>6, <2>4
  <2>5. ASSUME Accepts(ticket, "human", ev), ticket' = Apply(ticket, "human", ev),
               vessel' = IF ok = "sync" THEN Pass ELSE [vessel EXCEPT !.pc = ok, !.seen = ticket']
        PROVE  Named(vessel', approvals')
    <3>1. ticket'.head = vessel.head
      BY <1>1, <2>2, <2>5, ApprovalApply
    <3>2. vessel'.head = vessel.head /\ vessel'.seen = ticket'
      BY <1>1, <2>3, <2>5, Zenon DEF Passes
    <3> QED
      BY <2>1, <2>2, <3>1, <3>2 DEF Named
  <2> QED
    BY <1>1, <2>1, <2>4, <2>5, TransitionCases
<1>19. CASE GitHub
  <2>1. PICK r \in requests : Execute(r)
    BY <1>19 DEF GitHub
  <2>2. CASE vessel' = vessel
    BY <1>4, <2>1, <2>2 DEF Execute
  <2>3. CASE At("await") /\ \E a : vessel' = [vessel EXCEPT !.reply = a]
    BY <1>1, <1>2, <2>3 DEF Passes, At, Approving
  <2> QED
    BY <2>1, <2>2, <2>3, Zenon DEF Execute
<1>20. CASE WorkerEvent \/ Push \/ ApproveOnGitHub \/ MergeByHand \/ UNCHANGED vars
  BY <1>4, <1>20 DEF WorkerEvent, Push, ApproveOnGitHub, MergeByHand, vars, env
<1> QED
  BY <1>7, <1>8, <1>9, <1>10, <1>11, <1>12, <1>13, <1>14, <1>15, <1>16, <1>17, <1>18,
     <1>19, <1>20 DEF Next, Controller

\* What such a step may rely on.
LEMMA ApprovalStep ==
  ASSUME MergeInv, Named(vessel, approvals), [Next]_vars,
         At("human") \/ At("sentinel"), ticket'.version # ticket.version, vessel' # vessel
  PROVE  /\ ticket.head \in approvals /\ ticket.head = vessel.head
         /\ Approved(ticket.test_decision)
<1>1. vessel \in Passes /\ Gated(ticket) /\ vessel.seen \in Records /\ faults \in 0..MaxFaults
  BY DEF MergeInv, SidesOK, Passes
<1>2. RecordHuman \/ RecordSentinel
  BY Zenon
     DEF Next, Controller, At, SyncOpenPrs, HandOff, PassFails, RemoveFromPending, Crash, Fetch,
         Read, ReadTicket, Confirm, Recheck, NeedsRework, Poll, Readiness, MergeRead, ReworkRead,
         ConflictRead, Send, Await, AwaitFails, Reconcile, ReturnToBuilding, Begin, Record,
         Cancel, ConflictMove, ReworkMove, RecordDelivery, ListReviews, Reread, GitHub, Execute,
         WorkerEvent, Push, ApproveOnGitHub, MergeByHand, vars
<1>3. PICK actor \in {"human", "sentinel"} : Accepts(ticket, actor, ApprovalOf(vessel.seen))
  BY <1>1, <1>2, TransitionCases DEF RecordHuman, RecordSentinel
<1>4. ticket.phase = "submit" /\ ticket.head = vessel.seen.head
  BY <1>1, <1>3, ApprovalApply
<1>5. vessel.head \in approvals /\ vessel.seen.head = vessel.head
  BY Zenon DEF Named, Approving, At
<1> QED
  BY <1>1, <1>4, <1>5 DEF Gated, TestGate

\* Pushes, verdicts and events of other actors between the reads of
\* reconcile_github_approval never turn an approval of one commit into a
\* verdict on another.
THEOREM ApprovalsNameCandidates == Spec => ApprovalNamesCandidate
<1> DEFINE Inv == MergeInv /\ Named(vessel, approvals)
<1>1. Init => Inv
  BY InitMerge, PassIsFresh DEF Init, Named, Approving
<1>2. Inv /\ [Next]_vars => Inv'
  BY NextMerge, NamedStep, Zenon
<1>3. Inv /\ [Next]_vars =>
        [ (At("human") \/ At("sentinel")) /\ ticket'.version # ticket.version /\ vessel' # vessel
            => /\ ticket.head \in approvals
               /\ ticket.head = vessel.head
               /\ Approved(ticket.test_decision) ]_vars
  BY ApprovalStep, Zenon
<1> QED
  BY <1>1, <1>2, <1>3, PTL DEF Spec, ApprovalNamesCandidate
=============================================================================
