----------------------------- MODULE AgentTurns -----------------------------
(***************************************************************************)
(* The turns FORGE and SENTINEL take on one ticket: a tool call is put to  *)
(* the lifecycle hooks (agent-nexus/src/hooks), which decide on it from    *)
(* the ticket's stored state, and if they allow it, it runs, mostly as an  *)
(* openflows-harness command (openflows-harness/src/main.rs, store.rs,     *)
(* github_pr.rs) that applies one event of LifecycleReducer and may write  *)
(* more keys afterwards.  The two agents, a human reviewer and the         *)
(* controller interleave; a tool may die between any two of its writes,    *)
(* and a hook may answer too late.                                         *)
(*                                                                         *)
(* A call is what it does: the shell text it is recognised from is left    *)
(* out, and so are calls that do several things.  Guidance, the audit tail *)
(* and kicks are advice that no decision reads: left out.  The compare and *)
(* set of one command is TicketStore's subject: here it is one step.       *)
(***************************************************************************)
EXTENDS LifecycleReducer

CONSTANT MaxSlips  \* bound on rejections, detours, late hooks and dead tools

VARIABLES record,  \* ticket:T:status, the lifecycle record
          filed,   \* the other keys: pair:T:plan, T:pr, T:hooks:review_report
          turn,    \* the call each agent is making
          draft,   \* the plan file of FORGE's chat exists
          tree,    \* FORGE's checkout
          pulls,   \* open pull requests of the branch on GitHub
          early,   \* a PR verdict was submitted before any report
          slips

vars == <<record, filed, turn, draft, tree, pulls, early, slips>>

Agents == {"forge", "sentinel"}

Acts == {"none", "plan_file", "source", "commit", "plan write", "status planning", "status plan_ready",
         "status building", "status testing", "status blocked", "pr create", "pr opened",
         "report", "verify request", "gate approve", "gate reject", "review approve", "review reject"}

Tools == {"none", "write", "bash", "execute"}

\* round: the review a verdict is meant for.
NoTurn == [pc |-> "idle", act |-> "none", tool |-> "none", round |-> 0]

TypeOK ==
  /\ record \in Records
  /\ filed \in [plan : BOOLEAN, pr : BOOLEAN, report : BOOLEAN]
  /\ turn \in [Agents -> [pc : {"idle", "allowed", "found", "half", "ran"}, act : Acts,
                          tool : Tools, round : Nat]]
  /\ draft \in BOOLEAN /\ tree \in {"clean", "edited"} /\ pulls \in 0..2
  /\ early \in BOOLEAN /\ slips \in 0..MaxSlips

Init ==
  /\ record = Default
  /\ filed = [plan |-> FALSE, pr |-> FALSE, report |-> FALSE]
  /\ turn = [a \in Agents |-> NoTurn]
  /\ draft = FALSE /\ tree = "clean" /\ pulls = 0 /\ early = FALSE /\ slips = 0

Slip == slips < MaxSlips /\ slips' = slips + 1

(***************************************************************************)
(* What the hooks read.                                                    *)
(***************************************************************************)
plan_exists == record.plan # "" \/ filed.plan

gate_approved == Approved(record.plan_decision)

sentinel_job ==
  CASE record.phase = "plan_ready" /\ ~gate_approved -> "plan gate"
    [] record.phase = "testing" -> "testing"
    [] record.phase = "submit" /\ filed.pr -> "pr review"
    [] OTHER -> "idle"

(***************************************************************************)
(* phase_guard: what is denied to FORGE.                                   *)
(***************************************************************************)
is_write_attempt(c) == c.act \in {"source", "plan_file"}

is_plan_write(c) == c.act = "plan_file"

is_plan_recovery_command(c) == c.act \in {"plan write", "status planning", "status blocked"}

\* Mutant: a blocked worker may only hold.
HoldOnly(c) == c.act = "status blocked"

is_exact_replan(c) == c.act \in {"status planning", "status blocked"}

\* "plan write" is on the list of probes.
is_probe_command(c) == c.act = "plan write"

\* Mutant: the checkout is frozen in testing only.
FrozenInTestingOnly(c) ==
  CASE record.phase \in {"planning", "plan_ready", "plan_rejected"} ->
         is_write_attempt(c) /\ ~(record.phase # "plan_ready" /\ is_plan_write(c))
    [] record.phase = "building" ->
         ~plan_exists /\ ~is_plan_write(c) /\ ~is_plan_recovery_command(c)
    [] record.phase = "testing" ->
         is_write_attempt(c) \/ (~plan_exists /\ ~is_plan_recovery_command(c))
    [] record.phase = "submit" -> FALSE
    [] record.phase = "blocked" -> ~is_probe_command(c) /\ ~is_exact_replan(c)
    [] record.phase = "done" -> TRUE

phase_guard(c) ==
  CASE record.phase \in {"planning", "plan_ready", "plan_rejected"} ->
         is_write_attempt(c) /\ ~(record.phase # "plan_ready" /\ is_plan_write(c))
    [] record.phase = "building" ->
         ~plan_exists /\ ~is_plan_write(c) /\ ~is_plan_recovery_command(c)
    [] record.phase = "testing" ->
         is_write_attempt(c) \/ (~plan_exists /\ ~is_plan_recovery_command(c))
    [] record.phase = "submit" -> is_write_attempt(c)
    [] record.phase = "blocked" -> ~is_probe_command(c) /\ ~is_exact_replan(c)
    [] record.phase = "done" -> TRUE

(***************************************************************************)
(* sentinel_phase_guard: what is denied to SENTINEL.  Its ordering rules   *)
(* look at the shells bash, sh, shell and exec, not at execute.            *)
(***************************************************************************)
ReviewSubmit == {"review approve", "review reject"}
Verdicts == ReviewSubmit \cup {"gate approve", "gate reject"}

\* Mutant: the report is not asked for.
SubmitUnreported(c) == c.act \in ReviewSubmit /\ sentinel_job # "pr review"

SubmitOutOfOrder(c) ==
  c.act \in ReviewSubmit /\ (sentinel_job # "pr review" \/ ~filed.report)

sentinel_phase_guard(c) ==
  \/ c.tool = "write" /\ c.act # "report"
  \/ c.act = "verify request" /\ sentinel_job # "testing"
  \/ c.tool = "bash" /\ SubmitOutOfOrder(c)

Denied(a, c) == IF a = "sentinel" THEN sentinel_phase_guard(c) ELSE phase_guard(c)

(***************************************************************************)
(* What the agents are told to do next (phase_guidance, sentinel_guidance).*)
(***************************************************************************)
phase_guidance ==
  CASE record.phase = "planning" /\ record.plan = "" /\ ~draft -> {"plan_file"}
    [] record.phase = "planning" /\ record.plan = "" /\ draft -> {"plan write"}
    [] record.phase = "planning" /\ record.plan # "" -> {"status plan_ready"}
    [] record.phase \in {"plan_rejected", "blocked"} -> {"status planning"}
    [] record.phase = "building" /\ ~plan_exists -> {"status planning"}
    [] record.phase = "building" /\ plan_exists ->
         IF tree = "clean" THEN {"status testing"} ELSE {"commit"}
    [] record.phase = "submit" /\ ~filed.pr -> {"pr create"}
    [] OTHER -> {}

sentinel_guidance ==
  CASE record.phase = "plan_ready" -> {"gate approve"}
    [] record.phase = "testing" /\ record.verified_head # record.head -> {"verify request"}
    [] record.phase = "testing" /\ record.verified_head = record.head -> {"gate approve"}
    [] record.phase = "submit" /\ record.pr_number # None /\ ~Approved(record.pr_decision) ->
         IF filed.report THEN {"review approve"} ELSE {"report"}
    [] OTHER -> {}

Guidance(a) == IF a = "sentinel" THEN sentinel_guidance ELSE phase_guidance

\* Calls an agent may make of its own accord.
Unguided(a) ==
  IF a = "forge"
  THEN {"source", "status planning", "status building", "status testing", "status blocked", "pr create"}
       \cup (IF pulls > 0 THEN {"pr opened"} ELSE {})
  ELSE {"source", "report", "verify request", "gate reject", "review approve", "review reject"}

ToolFor(act) == IF act \in {"plan_file", "source", "report"} THEN {"write"} ELSE {"bash", "execute"}

(***************************************************************************)
(* pre_tool_use: the decision, and a hook that answers too late denies.    *)
(***************************************************************************)
Authorise(a, act, tool, late) ==
  LET c == [pc |-> "allowed", act |-> act, tool |-> tool,
            round |-> IF act \in Verdicts THEN record.review_round ELSE 0]
  IN turn' = [turn EXCEPT ![a] = IF late \/ Denied(a, c) THEN NoTurn ELSE c]

pre_tool_use(a) ==
  /\ turn[a].pc = "idle" /\ record.phase # "done"
  /\ \/ \E act \in Guidance(a), late \in BOOLEAN : \E tool \in ToolFor(act) :
          /\ IF late THEN Slip ELSE UNCHANGED slips
          /\ Authorise(a, act, tool, late)
     \/ \E act \in Unguided(a) : \E tool \in ToolFor(act) : Slip /\ Authorise(a, act, tool, FALSE)
  /\ UNCHANGED <<record, filed, draft, tree, pulls, early>>

(***************************************************************************)
(* The tool runs.                                                          *)
(***************************************************************************)
Doing(a, pc, acts) == turn[a].pc = pc /\ turn[a].act \in acts

GoTo(a, pc) == turn' = [turn EXCEPT ![a].pc = pc]

Ended(a) == turn' = [turn EXCEPT ![a] = NoTurn]

\* transition: apply the event if the reducer accepts it.
transition(actor, ev) ==
  record' = IF Accepts(record, actor, ev)
            THEN [Apply(record, actor, ev) EXCEPT !.version = 0] ELSE record

WriteFile ==
  /\ Doing("forge", "allowed", {"plan_file", "source", "commit"})
  /\ draft' = (draft \/ turn["forge"].act = "plan_file")
  /\ tree' = CASE turn["forge"].act = "source" -> "edited"
              [] turn["forge"].act = "commit" -> "clean"
              [] OTHER -> tree
  /\ Ended("forge")
  /\ UNCHANGED <<record, filed, pulls, early, slips>>

PhaseOf(act) ==
  CASE act = "status planning" -> "planning"
    [] act = "status plan_ready" -> "plan_ready"
    [] act = "status building" -> "building"
    [] act = "status testing" -> "testing"
    [] act = "status blocked" -> "blocked"

checkout_head == tree = "clean"

status_set ==
  /\ Doing("forge", "allowed", {"status planning", "status plan_ready", "status building",
                                "status testing", "status blocked"})
  /\ LET to == PhaseOf(turn["forge"].act)
     IN CASE to = "testing" /\ checkout_head -> \E h \in Heads : transition("forge", MoveEvent(to, h))
          [] to = "testing" /\ ~checkout_head -> UNCHANGED record
          [] to # "testing" -> transition("forge", MoveEvent(to, None))
  /\ Ended("forge")
  /\ UNCHANGED <<filed, draft, tree, pulls, early, slips>>

\* The record first, then the copy under pair:T:plan.
plan_write ==
  \/ /\ Doing("forge", "allowed", {"plan write"})
     /\ transition("forge", PlanEvent("text"))
     /\ IF Accepts(record, "forge", PlanEvent("text")) THEN GoTo("forge", "half") ELSE Ended("forge")
     /\ UNCHANGED <<filed, draft, tree, pulls, early, slips>>
  \/ /\ Doing("forge", "half", {"plan write"})
     /\ filed' = [filed EXCEPT !.plan = TRUE]
     /\ Ended("forge")
     /\ UNCHANGED <<record, draft, tree, pulls, early, slips>>

ensure_pr_creation_allowed == record.phase = "submit" /\ record.pr_number = None

\* Mutant: created without looking for an open one first.
CreateAnother == IF pulls < 2 THEN pulls + 1 ELSE pulls

create_or_find == IF pulls = 0 THEN 1 ELSE pulls

pr_create ==
  /\ Doing("forge", "allowed", {"pr create"})
  /\ IF ensure_pr_creation_allowed
     THEN pulls' = create_or_find /\ GoTo("forge", "found")
     ELSE pulls' = pulls /\ Ended("forge")
  /\ UNCHANGED <<record, filed, draft, tree, early, slips>>

\* The record first, then ticket:T:pr.
pr_opened ==
  \/ /\ Doing("forge", "found", {"pr create"}) \/ Doing("forge", "allowed", {"pr opened"})
     /\ \E n \in PRs :
          /\ transition("forge", PrEvent(n))
          /\ IF Accepts(record, "forge", PrEvent(n)) THEN GoTo("forge", "half") ELSE Ended("forge")
     /\ UNCHANGED <<filed, draft, tree, pulls, early, slips>>
  \/ /\ Doing("forge", "half", {"pr create", "pr opened"})
     /\ filed' = [filed EXCEPT !.pr = TRUE]
     /\ Ended("forge")
     /\ UNCHANGED <<record, draft, tree, pulls, early, slips>>

\* The A2A round trip (A2ARelay) ends in the Verified event, or not.
verify_request ==
  /\ Doing("sentinel", "allowed", {"verify request"})
  /\ IF record.phase = "testing" /\ record.head # None
     THEN transition("sentinel", VerifiedEvent(record.head, "text")) ELSE UNCHANGED record
  /\ Ended("sentinel")
  /\ UNCHANGED <<filed, draft, tree, pulls, early, slips>>

\* The verdict names the review that was open when SENTINEL made the call.
Verdict(c) ==
  DecideEvent(record.phase, c.round, record.revision,
              IF record.phase = "plan_ready" THEN None ELSE record.head,
              c.act \in {"gate approve", "review approve"}, "text")

gate_decide ==
  /\ Doing("sentinel", "allowed", {"gate approve", "gate reject"})
  /\ IF record.phase \in {"plan_ready", "testing"}
     THEN transition("sentinel", Verdict(turn["sentinel"])) ELSE UNCHANGED record
  /\ Ended("sentinel")
  /\ UNCHANGED <<filed, draft, tree, pulls, early, slips>>

review_submit ==
  /\ Doing("sentinel", "allowed", ReviewSubmit)
  /\ LET accepted == record.phase = "submit" /\ Accepts(record, "sentinel", Verdict(turn["sentinel"]))
     IN /\ IF accepted THEN transition("sentinel", Verdict(turn["sentinel"])) ELSE UNCHANGED record
        /\ early' = (early \/ (accepted /\ turn["sentinel"].tool = "bash" /\ ~filed.report))
  /\ Ended("sentinel")
  /\ UNCHANGED <<filed, draft, tree, pulls, slips>>

\* SENTINEL's report is a file; post_tool_use notes it, unless it is too late.
WriteReport ==
  /\ Doing("sentinel", "allowed", {"report"})
  /\ GoTo("sentinel", "ran")
  /\ UNCHANGED <<record, filed, draft, tree, pulls, early, slips>>

post_tool_use ==
  /\ Doing("sentinel", "ran", {"report"})
  /\ \/ filed' = [filed EXCEPT !.report = TRUE] /\ UNCHANGED slips
     \/ filed' = filed /\ Slip
  /\ Ended("sentinel")
  /\ UNCHANGED <<record, draft, tree, pulls, early>>

\* The workspace or the tool dies with the call.
ToolDies(a) ==
  /\ turn[a].pc # "idle" /\ Slip
  /\ Ended(a)
  /\ UNCHANGED <<record, filed, draft, tree, pulls, early>>

Runs == \/ WriteFile \/ status_set \/ plan_write \/ pr_create \/ pr_opened
        \/ verify_request \/ gate_decide \/ review_submit \/ WriteReport \/ post_tool_use

(***************************************************************************)
(* The others: a human's verdict, SENTINEL's delivery, VESSEL's rework and *)
(* merge.                                                                  *)
(***************************************************************************)
Others == UNCHANGED <<filed, turn, draft, tree, pulls, early>>

HumanVerdict(approved) ==
  LET ev == DecideEvent("submit", record.review_round, record.revision, record.head, approved, "text")
  IN /\ Accepts(record, "human", ev) /\ ~Approved(record.pr_human)
     /\ transition("human", ev)
     /\ IF approved THEN UNCHANGED slips ELSE Slip
     /\ Others

DeliverReview ==
  /\ Deliverable(record)
  /\ transition("sentinel", ReviewDeliveredEvent(record.review_round))
  /\ Others /\ UNCHANGED slips

VesselReworks ==
  /\ record.phase = "submit" /\ record.pr_number # None /\ Slip
  /\ transition("vessel", MoveEvent("building", None))
  /\ Others

VesselMerges ==
  /\ MergeReady(record, record.head)
  /\ transition("vessel", MergedEvent(record.pr_number, record.head, "text"))
  /\ Others /\ UNCHANGED slips

Controller == HumanVerdict(TRUE) \/ DeliverReview \/ VesselMerges

Next ==
  \/ \E a \in Agents : pre_tool_use(a) \/ ToolDies(a)
  \/ Runs \/ Controller \/ HumanVerdict(FALSE) \/ VesselReworks

Fairness ==
  /\ \A a \in Agents : WF_vars(pre_tool_use(a))
  /\ WF_vars(Runs) /\ WF_vars(Controller)

Spec == Init /\ [][Next]_vars /\ Fairness

(***************************************************************************)
(* Properties.                                                             *)
(***************************************************************************)
\* phase_guard and checkout_head together keep the checkout at the commit that
\* is tested and reviewed, whatever FORGE tries meanwhile.
SourceFrozen == record.phase \in {"testing", "submit"} => tree = "clean"

\* SENTINEL's first PR verdict through a shell the hooks coordinate comes after
\* an evaluation report (sentinel.rs: "review submit requires the evaluation
\* report to have been written first").
VerdictFollowsReport == ~early

\* A tool that dies between GitHub's answer and the record, and is run again,
\* opens no second pull request (github_pr.rs, create_or_find).
OnePullRequest == pulls <= 1

\* pr_opened died between the record and ticket:T:pr: the hooks see no pull
\* request, pr create refuses, and only an explicit pr opened mends it.
HalfRecorded == record.phase = "submit" /\ record.pr_number # None /\ ~filed.pr

Finished == record.phase = "done" \/ HalfRecorded

\* The hooks never forbid the step they tell an agent to take next: agents that
\* follow their guidance finish the ticket, whatever was rejected, blocked or
\* lost on the way.
GuidanceLeadsToDone == []<>Finished
=============================================================================
