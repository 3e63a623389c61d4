----------------------------- MODULE MCProgress -----------------------------
(***************************************************************************)
(* The components that also have to make progress, in one run: a behaviour *)
(* exercises one of them, the part, whose variables are the shared x1, x2  *)
(* and so on, under the fairness of its own steps.                         *)
(***************************************************************************)
EXTENDS Integers, FiniteSets

VARIABLES part,  \* the component this behaviour exercises
          x1, x2, x3, x4, x5, x6, x7, x8, x9, x10, x11, x12, x13, x14, x15  \* its variables, in the order it declares them

CONSTANT NoValue  \* an absent value, and the value of a variable that a part does not use

\* CI and mergeability of the commits FORGE may push: fine, failing, or in conflict with
\* main and without an end of CI.
HeadsPushed == {<<"pass", FALSE>>, <<"fail", FALSE>>, <<"slow", TRUE>>}

Outbox == INSTANCE Outbox WITH
    event <- x1, owned <- x2, claim <- x3, last <- x4, did <- x5,
    Events <- {1, 2}, Owning <- {1}, Workers <- {"a", "b"}, MaxMishaps <- 1

Tenants == INSTANCE TenantWorkspaces WITH
    tenantRow <- x1, wsRow <- x2, upstream <- x3, work <- x4, run <- x5, capacity <- x6,
    lostWork <- x7, mischief <- x8,
    Attempts <- {1, 2}, MaxTries <- 1, MaxWorkers <- 1,
    MaxRequests <- 2, MaxFaults <- 1

RuntimeChats == INSTANCE RuntimeChats WITH
    ask <- x1, caller <- x2, chatRow <- x3, sentRows <- x4, talk <- x5, wsGen <- x6,
    nexusChat <- x7, miscarried <- x8,
    Callers <- {1, 2}, Chats <- {1, 2, 3}, MaxItems <- 2, MaxMiscarry <- 2

Fleet == INSTANCE WorkerFleet WITH
    slot <- x1, board <- x2, space <- x3, wkey <- x4, tries <- x5, directive <- x6,
    prs <- x7, stage <- x8, seen <- x9, snap <- x10, todo <- x11, decision <- x12,
    fresh <- x13, torn <- x14, mishaps <- x15,
    Forges <- {"forge-1", "forge-2"}, Tickets <- {1}, MaxMishaps <- 1

Reviews == INSTANCE SentinelReviews WITH
    life <- x1, conv <- x2, session <- x3, alias <- x4, sentinel <- x5, wsId <- x6,
    wsUp <- x7, pollLease <- x8, poll <- x9, lostPoll <- x10, faults <- x11,
    Pollers <- {"p1", "p2"}, Sentinels <- {"s1", "s2"}, Paired <- "s1",
    Chats <- 1..4, Slow <- FALSE, MaxFaults <- 1

Rework == INSTANCE PullRequestRework WITH
    gh <- x1, entry <- x2, rec <- x3, builder <- x4, round <- x5, spent <- x6,
    MAX_CI_FIX_ATTEMPTS <- 1, MAX_CONFLICT_RESOLUTION_ATTEMPTS <- 1,
    MAX_ADDRESS_REVIEW_ATTEMPTS <- 1, MAX_ATTEMPTS <- 2, Heads <- HeadsPushed,
    MaxFeedback <- 1, MaxMeddling <- 1

Turns == INSTANCE AgentTurns WITH
    record <- x1, filed <- x2, turn <- x3, draft <- x4, tree <- x5, pulls <- x6,
    early <- x7, slips <- x8,
    None <- NoValue, Heads <- {"h1"}, PRs <- {1}, MaxSlips <- 2

Chats == INSTANCE NexusChats WITH
    convs <- x1, chatKey <- x2, chatAction <- x3, dispatched <- x4, rework <- x5,
    asked <- x6, slotWs <- x7, pending <- x8, instructed <- x9, gate <- x10,
    nexusAt <- x11, nudges <- x12, strayed <- x13, mischance <- x14,
    CREATE_CHAT_MAX_ATTEMPTS <- 2, CHAT_RESUME_MAX_ATTEMPTS <- 2, MaxWorkspaces <- 2,
    MaxDirectives <- 1, MaxMischance <- 1

CiGate == INSTANCE CiGate WITH
    setting <- x1, repo <- x2, board <- x3, slots <- x4, pass <- x5, ci_readiness <- x6,
    comments <- x7, unsure <- x8, dropped <- x9, faults <- x10, changes <- x11,
    None <- NoValue, Issues <- {1, 2}, Lookalikes <- {2}, Workers <- {"f1", "f2"}, MAX_ATTEMPTS <- 2,
    MaxFaults <- 1, MaxChanges <- 1

Loop == INSTANCE ControllerLoop WITH
    at <- x1, lore <- x2, pass <- x3, clock <- x4, owed <- x5, changes <- x6, faults <- x7,
    max_steps <- 4, max_visits <- 2, Poll <- 2, MinDelay <- 1, MaxChanges <- 1, MaxFaults <- 2

\* The variables that a component does not use.
After5 == <<x6, x7, x8, x9, x10, x11, x12, x13, x14, x15>>
After6 == <<x7, x8, x9, x10, x11, x12, x13, x14, x15>>
After7 == <<x8, x9, x10, x11, x12, x13, x14, x15>>
After8 == <<x9, x10, x11, x12, x13, x14, x15>>
After11 == <<x12, x13, x14, x15>>
After14 == <<x15>>

Init ==
  \/ part = "outbox" /\ Outbox!Init /\ x6 = NoValue /\ x7 = NoValue /\ x8 = NoValue /\ x9 = NoValue /\ x10 = NoValue /\ x11 = NoValue /\ x12 = NoValue /\ x13 = NoValue /\ x14 = NoValue /\ x15 = NoValue
  \/ part = "tenant workspaces" /\ Tenants!Init /\ x9 = NoValue /\ x10 = NoValue /\ x11 = NoValue /\ x12 = NoValue /\ x13 = NoValue /\ x14 = NoValue /\ x15 = NoValue
  \/ part = "runtime chats" /\ RuntimeChats!Init /\ x9 = NoValue /\ x10 = NoValue /\ x11 = NoValue /\ x12 = NoValue /\ x13 = NoValue /\ x14 = NoValue /\ x15 = NoValue
  \/ part = "worker fleet" /\ Fleet!Init
  \/ part = "reviews" /\ Reviews!Init /\ x12 = NoValue /\ x13 = NoValue /\ x14 = NoValue /\ x15 = NoValue
  \/ part = "rework" /\ Rework!Init /\ x7 = NoValue /\ x8 = NoValue /\ x9 = NoValue /\ x10 = NoValue /\ x11 = NoValue /\ x12 = NoValue /\ x13 = NoValue /\ x14 = NoValue /\ x15 = NoValue
  \/ part = "agent turns" /\ Turns!Init /\ x9 = NoValue /\ x10 = NoValue /\ x11 = NoValue /\ x12 = NoValue /\ x13 = NoValue /\ x14 = NoValue /\ x15 = NoValue
  \/ part = "nexus chats" /\ Chats!Init /\ x15 = NoValue
  \/ part = "ci gate" /\ CiGate!Init /\ x12 = NoValue /\ x13 = NoValue /\ x14 = NoValue /\ x15 = NoValue
  \/ part = "controller loop" /\ Loop!Init /\ x8 = NoValue /\ x9 = NoValue /\ x10 = NoValue /\ x11 = NoValue /\ x12 = NoValue /\ x13 = NoValue /\ x14 = NoValue /\ x15 = NoValue

vars == <<part, x1, x2, x3, x4, x5, x6, x7, x8, x9, x10, x11, x12, x13, x14, x15>>

OutboxNext ==
  /\ part = "outbox" /\ Outbox!Next
  /\ UNCHANGED part /\ UNCHANGED After5

TenantsNext ==
  /\ part = "tenant workspaces" /\ Tenants!Next
  /\ UNCHANGED part /\ UNCHANGED After8

RuntimeChatsNext ==
  /\ part = "runtime chats" /\ RuntimeChats!Next
  /\ UNCHANGED part /\ UNCHANGED After8

FleetNext ==
  /\ part = "worker fleet" /\ Fleet!Next
  /\ UNCHANGED part

ReviewsNext ==
  /\ part = "reviews" /\ Reviews!Next
  /\ UNCHANGED part /\ UNCHANGED After11

ReworkNext ==
  /\ part = "rework" /\ Rework!Next
  /\ UNCHANGED part /\ UNCHANGED After6

TurnsNext ==
  /\ part = "agent turns" /\ Turns!Next
  /\ UNCHANGED part /\ UNCHANGED After8

ChatsNext ==
  /\ part = "nexus chats" /\ Chats!Next
  /\ UNCHANGED part /\ UNCHANGED After14

CiGateNext ==
  /\ part = "ci gate" /\ CiGate!Next
  /\ UNCHANGED part /\ UNCHANGED After11

LoopNext ==
  /\ part = "controller loop" /\ Loop!Next
  /\ UNCHANGED part /\ UNCHANGED After7

Next == \/ OutboxNext
        \/ TenantsNext
        \/ RuntimeChatsNext
        \/ FleetNext
        \/ ReviewsNext
        \/ ReworkNext
        \/ TurnsNext
        \/ ChatsNext
        \/ CiGateNext
        \/ LoopNext

\* The steps of this part that the program takes of itself.
OutboxSteps ==
  /\ part = "outbox"
  /\ \/ \E e \in {1, 2} : Outbox!RetryDue(e)
     \/ \E e \in {1, 2} : Outbox!LeaseExpires(e)
     \/ \E w \in {"a", "b"} : Outbox!claim_filtered(w)
     \/ \E w \in {"a", "b"} : Outbox!process(w, "ok") \/ Outbox!process(w, "permanent")
     \/ \E w \in {"a", "b"} : Outbox!Settle(w)

\* The steps of this part that the program takes of itself.
RuntimeChatsSteps ==
  /\ part = "runtime chats"
  /\ \/ RuntimeChats!Begins
     \/ \E c \in {1, 2} : RuntimeChats!Handles(c)

\* The steps of this part that the program takes of itself.
TurnsSteps ==
  /\ part = "agent turns"
  /\ \/ Turns!pre_tool_use("forge")
     \/ Turns!pre_tool_use("sentinel")
     \/ Turns!Runs
     \/ Turns!Controller

\* The steps of this part that the program takes of itself.
ChatsSteps ==
  /\ part = "nexus chats"
  /\ Chats!Poll

\* The steps of this part that the program takes of itself.
LoopSteps ==
  /\ part = "controller loop"
  /\ Loop!Steps

Spec == /\ Init /\ [][Next]_vars
        /\ WF_(Tenants!vars)(part = "tenant workspaces" /\ Tenants!Claimed)
        /\ \A a \in {1, 2} : WF_(Tenants!vars)(part = "tenant workspaces" /\ Tenants!Continued(a))
        /\ WF_(Tenants!vars)(part = "tenant workspaces" /\ Tenants!Due)
        /\ SF_(Tenants!vars)(part = "tenant workspaces" /\ Tenants!SomeProvisions)
        /\ \A r \in {"nexus", "worker"} : WF_(Tenants!vars)(part = "tenant workspaces" /\ (Tenants!Register(r) \/ Tenants!heartbeat(r)))
        /\ \A r \in {"nexus", "worker"} : WF_(Tenants!vars)(part = "tenant workspaces" /\ Tenants!Lapse(r))
        /\ ([](part # "worker fleet") \/ []<><<part = "worker fleet" /\ Fleet!Moves>>_vars)
        /\ WF_(Reviews!vars)(part = "reviews" /\ Reviews!Poll)
        /\ WF_(Reviews!vars)(part = "reviews" /\ Reviews!LeaseExpires)
        /\ \A c \in 1..4 : WF_(Reviews!vars)(part = "reviews" /\ Reviews!TurnEnds(c))
        /\ \A s \in {"s1", "s2"} : WF_(Reviews!vars)(part = "reviews" /\ Reviews!OtherLeaves(s))
        /\ \A s \in {"s1", "s2"} : WF_(Reviews!vars)(part = "reviews" /\ Reviews!Recovered(s))
        /\ WF_(Rework!vars)(part = "rework" /\ Rework!Controller)
        /\ WF_(Rework!vars)(part = "rework" /\ Rework!Forge)
        /\ WF_(Rework!vars)(part = "rework" /\ Rework!Approval)
        /\ WF_(CiGate!vars)(part = "ci gate" /\ CiGate!Controller)
        /\ WF_(CiGate!vars)(part = "ci gate" /\ CiGate!SomeFinish)
        /\ WF_(Outbox!vars)(OutboxSteps)
        /\ WF_(RuntimeChats!vars)(RuntimeChatsSteps)
        /\ WF_(Turns!vars)(TurnsSteps)
        /\ WF_(Chats!vars)(ChatsSteps)
        /\ WF_(Loop!vars)(LoopSteps)

(* Every component keeps the types of its rows, claims and messages.        *)
TypeOK == /\ (part = "outbox" => Outbox!TypeOK)
          /\ (part = "tenant workspaces" => Tenants!TypeOK)
          /\ (part = "runtime chats" => RuntimeChats!TypeOK)
          /\ (part = "worker fleet" => Fleet!TypeOK)
          /\ (part = "reviews" => Reviews!TypeOK)
          /\ (part = "rework" => Rework!TypeOK)
          /\ (part = "agent turns" => Turns!TypeOK)
          /\ (part = "nexus chats" => Chats!TypeOK)
          /\ (part = "ci gate" => CiGate!TypeOK)
          /\ (part = "controller loop" => Loop!TypeOK)

(* The manager keeps one conversation per workspace and ticket.             *)
RuntimeChatsOneConversation == part = "runtime chats" => RuntimeChats!OneConversation

(* A message key is enqueued once in a conversation.                        *)
RuntimeChatsKeyEnqueuedOnce == part = "runtime chats" => RuntimeChats!KeyEnqueuedOnce

(* NEXUS never hands a ticket that a FORGE slot holds to a second slot.     *)
FleetOneForgePerTicket == part = "worker fleet" => Fleet!OneForgePerTicket

(* Between passes an assigned ticket is the one its slot works on.          *)
FleetAssignedTicketIsHeld == part = "worker fleet" => Fleet!AssignedTicketIsHeld

(* A ticket has one SENTINEL conversation at a time.                        *)
ReviewsOneConversation == part = "reviews" => Reviews!OneConversation

(* FORGE edits no source that is being tested or reviewed.                  *)
TurnsSourceFrozen == part = "agent turns" => Turns!SourceFrozen

(* SENTINEL submits its first pull-request verdict after its report.        *)
TurnsVerdictFollowsReport == part = "agent turns" => Turns!VerdictFollowsReport

(* However often pr create is retried, the branch has one pull request.     *)
TurnsOnePullRequest == part = "agent turns" => Turns!OnePullRequest

(* A workspace never runs two FORGE conversations of a ticket.              *)
ChatsOneConversation == part = "nexus chats" => Chats!OneConversation

(* A stored rework directive is dropped only once a chat was started with   *)
(* it.                                                                      *)
ChatsDirectiveCarried == part = "nexus chats" => Chats!DirectiveCarried

(* A chat that waits is followed up once.                                   *)
ChatsNudgedOnce == part = "nexus chats" => Chats!NudgedOnce

(* No chat starts in a workspace before its instructions are there.         *)
ChatsInstructedFirst == part = "nexus chats" => Chats!InstructedFirst

(* A pass ends for want of a route only when NEXUS has nothing left to do.  *)
LoopEveryActionRouted == part = "controller loop" => Loop!EveryActionRouted

(* LORE runs after a merge in the same pass, unless the pass was cut short  *)
(* or had more pressing work.                                               *)
LoopMergeReachesLore == part = "controller loop" => Loop!MergeReachesLore


(* A directive or a round is dropped only after it was read.                *)
RuntimeChatsNothingDropped == part = "runtime chats" => RuntimeChats!NothingDropped

(* NEXUS hands no ticket that waits for a human to a worker.                *)
FleetEscalationHolds == part = "worker fleet" => Fleet!EscalationHolds

(* A FORGE slot that NEXUS frees leaves no workspace behind.                *)
FleetReleasedSlotLeavesNothing == part = "worker fleet" => Fleet!ReleasedSlotLeavesNothing

(* A SENTINEL at work on one review round is not handed the next.           *)
ReviewsNoRoundOverAnother == part = "reviews" => Reviews!NoRoundOverAnother

(* An escalated pull request is taken up again only after someone           *)
(* intervened.                                                              *)
ReworkEscalationHolds == part = "rework" => Rework!EscalationHolds

(* Two passes are never closer than the minimum delay, but for a receive    *)
(* that fails.                                                              *)
LoopPassesArePaced == part = "controller loop" => Loop!PassesArePaced


(* Every outbox event is in the end delivered or failed.                    *)
OutboxEverySettled == \A e \in {1, 2} : []<>(part = "outbox" => Outbox!Settled(e))

(* A requested tenant deletion is finished.                                 *)
TenantsDeletionFinishes == []<>(part = "tenant workspaces" => Tenants!NoDeletionDue)

(* A requested tenant start comes to an end.                                *)
TenantsStartSettles == []<>(part = "tenant workspaces" => Tenants!NoStartDue)

(* Every directive and every round is delivered.                            *)
RuntimeChatsDelivered == \A i \in 1..2 : []<>(part = "runtime chats" => RuntimeChats!Answered(i))

(* A busy FORGE slot without a workspace gets one or is given up.           *)
FleetBusySlotSettles == \A f \in {"forge-1", "forge-2"} : []<>(part = "worker fleet" => Fleet!IsSettled(f))

(* The workspace of a merged ticket is destroyed in the end.                *)
FleetMergedLeavesNoWorkspace == \A t \in {1} : []<>(part = "worker fleet" => Fleet!NothingLeft(t))

(* A review that is due is put to a SENTINEL in the current workspace.      *)
ReviewsReviewIsAsked == []<>(part = "reviews" => Reviews!Asked)

(* A pull request under rework is in the end merged, escalated or given up. *)
ReworkSettles == []<>(part = "rework" => Rework!Settled)

(* Agents that follow the hooks' guidance bring the ticket to done.         *)
TurnsGuidanceLeadsToDone == []<>(part = "agent turns" => Turns!Finished)

(* An assigned ticket keeps coming back to a chat on its workspace.         *)
ChatsChatReplaced == []<>(part = "nexus chats" => Chats!BoundToWorkspace)

(* No open ticket is held back for ever, unless only a human can bring CI.  *)
CiGateEveryTicketTaken == []<>(part = "ci gate" => CiGate!AllTaken)

(* Again and again the controller waits and every change was followed by a  *)
(* pass.                                                                    *)
LoopPassesGoOn == []<>(part = "controller loop" => Loop!Reconciled)

(* Under the fairness of the program's own steps every part reaches its     *)
(* goal again and again: operations settle, tenants start or are deleted,   *)
(* messages are delivered, slots are freed, reviews are asked for and       *)
(* answered, tickets are taken and the controller reconciles. One conjunct  *)
(* per part, stated above.                                                  *)
WorkGoesOn ==
  /\ OutboxEverySettled
  /\ TenantsDeletionFinishes
  /\ TenantsStartSettles
  /\ RuntimeChatsDelivered
  /\ FleetBusySlotSettles
  /\ FleetMergedLeavesNoWorkspace
  /\ ReviewsReviewIsAsked
  /\ ReworkSettles
  /\ TurnsGuidanceLeadsToDone
  /\ ChatsChatReplaced
  /\ CiGateEveryTicketTaken
  /\ LoopPassesGoOn

=============================================================================
