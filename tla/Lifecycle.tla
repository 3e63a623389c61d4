------------------------------ MODULE Lifecycle ------------------------------
(***************************************************************************)
(* The lifecycle of one ticket, each event applied atomically to the       *)
(* authoritative record by whichever actor issues it, in any order and     *)
(* with current or stale arguments.  One action per Event of               *)
(* config::lifecycle.                                                      *)
(***************************************************************************)
EXTENDS LifecycleReducer

CONSTANT MaxVersion    \* bound on the number of accepted events

ASSUME MaxVersionAssumption == MaxVersion \in Nat

VARIABLE ticket

Init == ticket \in InitialRecords

Commit(actor, ev) ==
    /\ ticket.version < MaxVersion
    /\ Accepts(ticket, actor, ev)
    /\ ticket' = Apply(ticket, actor, ev)

\* The reviewer's arguments come from an earlier status read: current or old.
Current(n) == {n - 1, n} \cap Nat

Plan(actor) == \E content \in Texts : Commit(actor, PlanEvent(content))

Move(actor) ==
    \E phase \in Phases, head \in Option(Heads) :
        Commit(actor, MoveEvent(phase, head))

Block(actor) == \E reason \in Texts : Commit(actor, BlockEvent(reason))

Decide(actor) ==
    \E phase \in ReviewPhases, round \in Current(ticket.review_round),
       revision \in Current(ticket.revision), head \in Option(Heads),
       approved \in BOOLEAN, report \in Texts :
        Commit(actor, DecideEvent(phase, round, revision, head, approved, report))

Verified(actor) ==
    \E head \in Heads, task \in Texts : Commit(actor, VerifiedEvent(head, task))

Pr(actor) == \E number \in PRs \cup {0} : Commit(actor, PrEvent(number))

ReviewDelivered(actor) ==
    \E round \in Current(ticket.review_round) :
        Commit(actor, ReviewDeliveredEvent(round))

BeginMerge(actor) == \E head \in Heads : Commit(actor, BeginMergeEvent(head))

CancelMerge(actor) == Commit(actor, CancelMergeEvent)

ReconcileMerged(actor) ==
    \E number \in PRs \cup {0}, sha \in Texts :
        Commit(actor, ReconcileMergedEvent(number, sha))

Merged(actor) ==
    \E number \in PRs, head \in Heads, sha \in Texts :
        Commit(actor, MergedEvent(number, head, sha))

Next ==
    \E actor \in Actors :
        \/ Plan(actor)
        \/ Move(actor)
        \/ Block(actor)
        \/ Decide(actor)
        \/ Verified(actor)
        \/ Pr(actor)
        \/ ReviewDelivered(actor)
        \/ BeginMerge(actor)
        \/ CancelMerge(actor)
        \/ ReconcileMerged(actor)
        \/ Merged(actor)

Spec == Init /\ [][Next]_ticket

-----------------------------------------------------------------------------
\* Type invariant of the stored record (struct Lifecycle).
TypeOK == ticket \in Records

\* merge_ready looks at five fields only.  It nevertheless implies every gate
\* of the workflow: an approved plan of this revision, verification and a
\* testing approval of this head, and two approvals given on exactly this
\* head, revision, review round and pull request.
MergeReadyImpliesGates ==
    \A head \in Heads :
        MergeReady(ticket, head) =>
            /\ PlanGate(ticket)
            /\ TestGate(ticket)
            /\ ticket.pr_number # None
            /\ About(ticket, ticket.pr_decision)
            /\ About(ticket, ticket.pr_human)

\* A merge reservation (BeginMerge) is only ever held on a candidate that is
\* still ready to merge, so the head VESSEL asks GitHub to merge cannot lose
\* an approval while the request is in flight.
ReservationIsReady == ticket.merge_pending => MergeReady(ticket, ticket.head)

\* A queued review delivery can never wedge the ticket: unless the ticket is
\* done it is deliverable now, or it is an approval that waits for the human
\* gate on the same candidate.
DeliveryNeverStuck ==
    (ticket.pr_delivery # None /\ ticket.phase # "done") =>
        \/ Deliverable(ticket)
        \/ /\ ticket.phase = "submit"
           /\ ticket.pr_delivery = ticket.pr_decision
           /\ Approved(ticket.pr_delivery)
           /\ ~Approved(ticket.pr_human)

\* FORGE's own moves out of the two review phases are never enabled: only a
\* recorded verdict passes the plan gate and the testing gate, in the same
\* update (Event::Decide moves the phase itself).
OnlyVerdictsPassGates ==
    \A head \in Option(Heads) :
        /\ ticket.phase = "plan_ready" => ~Permitted(ticket, "building", head)
        /\ ticket.phase = "testing" => ~Permitted(ticket, "submit", head)

\* Work is only ever built, tested or submitted under an approved plan of the
\* current revision.
WorkHasApprovedPlan ==
    ticket.phase \in {"building", "testing", "submit"} => PlanGate(ticket)

\* Replacing the candidate drops every piece of evidence about the old one:
\* after a step that changes the head no verification and no verdict on a
\* commit is left, whatever path led to the change.
HeadChangeDropsEvidence ==
    [][ ticket'.head # ticket.head =>
          /\ ticket'.verified_head = None
          /\ ticket'.test_decision = None
          /\ ticket'.test_human = None
          /\ ticket'.pr_decision = None
          /\ ticket'.pr_human = None ]_ticket

\* What a human or SENTINEL said about a pull request is forgotten or kept,
\* never carried over to another pull request, review round or revision.
VerdictsNotTransferred ==
    [][ \A d \in {ticket.pr_decision, ticket.pr_human} \ {None} :
          d \in {ticket'.pr_decision, ticket'.pr_human} =>
             \/ ticket'.phase = "done"
             \/ /\ ticket'.pr_number = ticket.pr_number
                /\ ticket'.review_round = ticket.review_round
                /\ ticket'.revision = ticket.revision ]_ticket
=============================================================================
