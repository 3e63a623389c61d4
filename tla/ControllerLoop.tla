---------------------------- MODULE ControllerLoop ----------------------------
(***************************************************************************)
(* The paced loop of the controller (binary/src/bin/agentflow.rs, run_     *)
(* controller) and the passes of its flow (pocketflow-core/src/flow.rs).   *)
(* A pass starts at NEXUS and follows the actions the nodes return, with a *)
(* cap on its steps and on the visits of a node; then the loop waits for   *)
(* the poll interval or for a kick of a lifecycle hook (kick_bus.rs).      *)
(* Workers and hooks change the store at any time, kicks get lost, nodes   *)
(* fail.                                                                   *)
(***************************************************************************)
EXTENDS Integers, Sequences, FiniteSets

CONSTANTS max_steps, max_visits,  \* caps of a pass (1000 and 20 in the code)
          Poll,        \* CONTROLLER_POLL_INTERVAL, in ticks
          MinDelay,    \* MIN_HOOK_WAKE_DELAY, in ticks
          MaxChanges,  \* bound on the changes workers and hooks make
          MaxFaults    \* bound on failing nodes and unreadable kicks

VARIABLES at,      \* "pass", "wait", "woken" (a kick is in hand)
          lore,    \* whether the flow has a LORE node
          pass,    \* this pass: node, steps, visits, how it ended; as a ghost,
                   \* whether it merged what LORE has not been told of
          clock,   \* ticks since the last pass ended
          owed,    \* ghosts: the store changed since the last pass began; a
                   \* receive failed and started a pass early
          changes, faults

vars == <<at, lore, pass, clock, owed, changes, faults>>

Nodes == {"nexus", "forge_pair", "sentinel", "vessel", "lore"}

-----------------------------------------------------------------------------
(* The flow graph and what its nodes return.                                *)

Pause == "__pause__"

\* Mutant: deployments always go to LORE.
LoreRoute(hasLore) == "lore"

\* Deployments go to LORE when it is enabled and could be set up.
DeployedTo(hasLore) == IF hasLore THEN "lore" ELSE "nexus"

\* "none" stands for a missing route.
Routes(n, a, hasLore) ==
  CASE n = "nexus" ->
         (CASE a \in {"work_assigned", "approve_command", "rework_assigned"} -> "forge_pair"
            [] a = "merge_prs" -> "vessel"
            [] a = "reject_command" -> "nexus"
            [] a = "sentinel_spawned" -> "sentinel"
            [] OTHER -> "none")
    [] n = "forge_pair" ->
         (CASE a = "pr_opened" -> "sentinel"
            [] a \in {"planning_gate", "review_ready", "failed", "no_tickets", "suspended"} -> "nexus"
            [] OTHER -> "none")
    [] n = "sentinel" ->
         (CASE a = "review_approve" -> "vessel"
            [] a = "review_reject" -> "forge_pair"
            [] a = "no_work" -> "nexus"
            [] OTHER -> "none")
    [] n = "vessel" ->
         (CASE a = "deployed" -> DeployedTo(hasLore)
            [] a \in {"deploy_failed", "merge_blocked", "rework_provision_needed",
                      "awaiting_human", "no_work"} -> "nexus"
            [] a \in {"ci_fix_needed", "conflicts_detected", "address_review_dispatched"} -> "forge_pair"
            [] OTHER -> "none")
    [] n = "lore" -> IF a \in {"docs_complete", "no_work"} THEN "nexus" ELSE "none"

\* What NEXUS decides; "no_work" is what is left of merge_prs when no pull
\* request is pending any more.
nexus_post == {"work_assigned", "merge_prs", "rework_assigned", "sentinel_spawned", "no_work", Pause}

forge_post == {"pr_opened", "planning_gate", "review_ready", "failed", "no_tickets", Pause}

sentinel_post == {"review_approve", "review_reject", Pause}

lore_post == {"docs_complete", "no_work"}

\* The outcomes of a batch of pull requests that decide what VESSEL returns.
Outcomes == {"awaiting_human", "conflicts", "provision", "address_review", "needs_review",
             "merged", "ci_fix", "failure"}


\* The outcomes, the most pressing first.
Priority ==
  <<"awaiting_human", "conflicts", "provision", "address_review", "needs_review", "merged",
    "ci_fix", "failure">>

ActionOf == [awaiting_human |-> "awaiting_human", conflicts |-> "conflicts_detected",
             provision |-> "rework_provision_needed",
             address_review |-> "address_review_dispatched", needs_review |-> Pause,
             merged |-> "deployed", ci_fix |-> "ci_fix_needed", failure |-> "deploy_failed"]

\* The action of a batch is that of its most pressing outcome.
vessel_post(batch) ==
  LET first == {i \in DOMAIN Priority : /\ Priority[i] \in batch
                                        /\ \A k \in 1..(i - 1) : Priority[k] \notin batch}
  IN  IF batch = {} THEN "no_work" ELSE ActionOf[Priority[CHOOSE i \in first : TRUE]]

\* The outcomes that keep a batch with a merge from being reported as deployed.
Pressing == {"awaiting_human", "conflicts", "provision", "address_review", "needs_review"}

-----------------------------------------------------------------------------
(* A pass.                                                                  *)

NewPass == [node |-> "nexus", steps |-> 0, visits |-> [n \in Nodes |-> 0], ended |-> "no",
            merged |-> FALSE]

Init ==
  /\ at = "pass" /\ lore \in BOOLEAN /\ pass = NewPass /\ clock = 0
  /\ owed = [change |-> FALSE, unread |-> FALSE]
  /\ changes = 0 /\ faults = 0

\* Mutant: neither cap is looked at.
NeverCapped(p) == FALSE

\* The step cap, then the visits of the node including this one.
Capped(p) == p.steps >= max_steps \/ p.visits[p.node] + 1 > max_visits

EndPass(how, p) ==
  /\ at' = "wait" /\ clock' = 0 /\ pass' = [p EXCEPT !.ended = how]

\* Both counters stay at the cap that ends the pass.
Visited(p) ==
  [p EXCEPT !.visits[p.node] = IF @ < max_visits THEN @ + 1 ELSE @]

Routed(a, p) ==
  LET next == Routes(p.node, a, lore)
  IN  IF a = Pause THEN EndPass("paused", p)
      ELSE IF next = "none" THEN EndPass("unrouted", p)
      ELSE /\ pass' = [p EXCEPT !.node = next, !.steps = IF @ < max_steps THEN @ + 1 ELSE @]
           /\ UNCHANGED <<at, clock>>

CapPass ==
  /\ at = "pass" /\ Capped(pass) /\ EndPass("capped", pass)
  /\ UNCHANGED <<lore, owed, changes, faults>>

\* A node other than VESSEL and LORE runs and its action is routed.
RunNode ==
  /\ at = "pass" /\ ~Capped(pass) /\ pass.node \in {"nexus", "forge_pair", "sentinel"}
  /\ \E a \in CASE pass.node = "nexus" -> nexus_post
               [] pass.node = "forge_pair" -> forge_post
               [] OTHER -> sentinel_post : Routed(a, Visited(pass))
  /\ UNCHANGED <<lore, owed, changes, faults>>

\* VESSEL works through its batch; without ready work it pauses as long as
\* pull requests are pending.
RunVessel ==
  /\ at = "pass" /\ ~Capped(pass) /\ pass.node = "vessel"
  /\ \E batch \in {b \in SUBSET Outcomes : Cardinality(b) <= 2} :
       LET p == [Visited(pass) EXCEPT
                   !.merged = @ \/ (lore /\ "merged" \in batch /\ batch \cap Pressing = {})]
       IN  \/ Routed(vessel_post(batch), p)
           \/ batch = {} /\ Routed(Pause, p)
  /\ UNCHANGED <<lore, owed, changes, faults>>

\* LORE reads every event since its last run.
RunLore ==
  /\ at = "pass" /\ ~Capped(pass) /\ pass.node = "lore"
  /\ \E a \in lore_post : Routed(a, [Visited(pass) EXCEPT !.merged = FALSE])
  /\ UNCHANGED <<lore, owed, changes, faults>>

\* An error of a node ends the pass, never the loop.
PassFailed == EndPass("error", pass)

NodeFails ==
  /\ at = "pass" /\ ~Capped(pass) /\ faults < MaxFaults
  /\ faults' = faults + 1 /\ PassFailed
  /\ UNCHANGED <<lore, owed, changes>>

-----------------------------------------------------------------------------
(* The loop.                                                                *)

BeginPass ==
  /\ at' = "pass" /\ pass' = NewPass
  /\ owed' = [owed EXCEPT !.change = FALSE]
  /\ UNCHANGED <<lore, clock, changes, faults>>

\* Time passes in the wait: sleep and recv are both awaited.
Tick ==
  /\ at \in {"wait", "woken"} /\ clock < Poll
  /\ (at = "woken" => clock < MinDelay)
  /\ clock' = clock + 1 /\ UNCHANGED <<at, lore, pass, owed, changes, faults>>

\* The poll interval is over.
PollElapsed == at = "wait" /\ clock >= Poll /\ BeginPass


\* The rest of the minimum delay after a kick is slept.
Rested == clock >= MinDelay

WokenPass == at = "woken" /\ Rested /\ BeginPass

\* A worker or a hook writes to the store; the kick that follows reaches the
\* controller only while it waits: message_rx subscribes anew for every wait.
Change ==
  /\ changes < MaxChanges /\ changes' = changes + 1
  /\ owed' = [owed EXCEPT !.change = TRUE]
  /\ UNCHANGED <<at, lore, pass, clock, faults>>

\* recv returns a kick.
Kicked ==
  /\ at = "wait" /\ owed.change /\ at' = "woken"
  /\ UNCHANGED <<lore, pass, clock, owed, changes, faults>>

\* recv returns None, for a message that is no kick or a receiver that lagged
\* or closed: the select falls through to the next pass without a delay.
Unreadable ==
  /\ at = "wait" /\ faults < MaxFaults
  /\ at' = "pass" /\ pass' = NewPass /\ faults' = faults + 1
  /\ owed' = [owed EXCEPT !.change = FALSE, !.unread = clock < MinDelay]
  /\ UNCHANGED <<lore, clock, changes>>

Next == \/ CapPass \/ RunNode \/ RunVessel \/ RunLore \/ NodeFails
        \/ Tick \/ PollElapsed \/ WokenPass \/ Change \/ Kicked \/ Unreadable

\* What the controller does of itself; a kick is never owed to it.
Steps == CapPass \/ RunNode \/ RunVessel \/ RunLore \/ Tick \/ PollElapsed \/ WokenPass

-----------------------------------------------------------------------------
TypeOK ==
  /\ at \in {"pass", "wait", "woken"} /\ lore \in BOOLEAN
  /\ pass.node \in Nodes /\ pass.steps \in 0..max_steps
  /\ pass.visits \in [Nodes -> 0..max_visits]
  /\ clock \in 0..Poll /\ owed \in [change : BOOLEAN, unread : BOOLEAN]
  /\ changes \in 0..MaxChanges /\ faults \in 0..MaxFaults

(* Every action a node returns has a route from it, with and without LORE:  *)
(* a pass ends for want of one only when NEXUS finds that nothing is left   *)
(* to do (Flow::run, the flow graph of run_controller).                     *)
EveryActionRouted ==
  /\ pass.ended = "unrouted" => pass.node = "nexus"
  /\ pass.node = "lore" => lore

(* LORE runs after a merge in the same pass, unless another outcome of the  *)
(* batch was more pressing, the pass was cut short or a node failed         *)
(* (VesselNode::post, the route of deployed).                               *)
MergeReachesLore ==
  pass.ended \in {"paused", "unrouted"} => ~pass.merged

(* Two passes are never closer than the minimum delay, whatever kicks       *)
(* arrive; only a receive that fails falls through without one.             *)
PassesArePaced ==
  (at # "pass" /\ at' = "pass") => clock >= MinDelay \/ owed'.unread

(* Again and again the controller waits and every change to the store was    *)
(* followed by a pass that began after it: no cycle of routes keeps a pass    *)
(* going, no failed node and no lost kick keeps the next one from starting.   *)
Reconciled == at = "wait" /\ ~owed.change
=============================================================================
