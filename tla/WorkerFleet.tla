------------------------------ MODULE WorkerFleet ------------------------------
(***************************************************************************)
(* NEXUS's fleet of FORGE slots (crates/agent-nexus/src/lib.rs): one       *)
(* controller pass synchronises the slots with the registry, repairs       *)
(* crashed workspaces, retries failed provisioning, decides, recovers      *)
(* orphans and hands out a ticket; VESSEL (agent-vessel/src/node.rs) then  *)
(* works on the pull requests.  Coder's workspaces crash, destruction and  *)
(* provisioning fail, and an operator cleans the tenant, in between.       *)
(*                                                                         *)
(* A workspace is named after its ticket: create_workspace adopts an       *)
(* existing one of the same name.  Sequential code that reads and writes   *)
(* the store several times works on a record w of the stored values.       *)
(* The worker of a ticket is the slot its status names or, once a pull     *)
(* request is open, the slot its branch names: the code then writes the    *)
(* placeholder "nexus-reconciliation".  This is the mode in which the      *)
(* controller calls Coder itself; RuntimeChats models the hosted one.      *)
(***************************************************************************)
EXTENDS Naturals, FiniteSets

CONSTANTS Forges,      \* FORGE worker slots of the registry
          Tickets,     \* 1..n, in the order of the tickets list
          MaxMishaps   \* bound on crashed workspaces and failed destructions

VARIABLES slot, board, space, wkey, tries, directive, prs, stage, seen, snap, todo,
          decision, fresh, torn, mishaps

vars == <<slot, board, space, wkey, tries, directive, prs, stage, seen, snap, todo,
          decision, fresh, torn, mishaps>>

MAX_ATTEMPTS == 3
None == 0                                   \* no ticket, no workspace
NoOne == "none"

(* WorkerSlot; Working, Done and Suspended are never written by the code. *)
WorkerSlot == [st : {"missing", "idle", "assigned"}, ticket : Tickets \cup {None},
               ws : Tickets \cup {None}]
Slot(st, t, ws) == [st |-> st, ticket |-> t, ws |-> ws]

(* TicketStatus with its worker; n counts the attempts, saturated at the limit. *)
TicketStatus == {"open", "assigned", "in_progress", "failed", "pr_opened", "merged",
                 "awaiting_human"}
Ticket == [st : TicketStatus, worker : Forges \cup {NoOne, "vessel"}, n : 0..MAX_ATTEMPTS]
Status(w, t, st, worker) == [w EXCEPT !.board[t].st = st, !.board[t].worker = worker]
OneMore(n) == IF n < MAX_ATTEMPTS THEN n + 1 ELSE n

is_assignable(k) == k.st = "open" \/ (k.st = "failed" /\ k.n < MAX_ATTEMPTS)

is_terminal(k) == k.st = "merged" \/ (k.st = "failed" /\ k.n >= MAX_ATTEMPTS)

W == [slot |-> slot, board |-> board, space |-> space, wkey |-> wkey, tries |-> tries]
Store(w) == /\ slot' = w.slot
            /\ board' = w.board
            /\ space' = w.space
            /\ wkey' = w.wkey
            /\ tries' = w.tries

Nothing == [action |-> "pause", ticket |-> None, worker |-> NoOne]

NoSlots == [f \in Forges |-> Slot("missing", None, None)]
NoTickets == [t \in Tickets |-> [st |-> "open", worker |-> NoOne, n |-> 0]]

Init == /\ slot = NoSlots
        /\ board = NoTickets
        /\ space = [t \in Tickets |-> "none"]
        /\ wkey = [t \in Tickets |-> None]
        /\ tries = [t \in Tickets |-> 0]
        /\ directive = {}
        /\ prs = [t \in Tickets |-> "none"]
        /\ stage = "poll"
        /\ seen = NoTickets
        /\ snap = NoSlots
        /\ todo = {}
        /\ decision = Nothing
        /\ fresh = {}
        /\ torn = {}
        /\ mishaps = 0

(* Destruction of the workspace of ticket x: direct cleanup clears its id in every slot. *)
destroy_coder_workspace(w, x) ==
  [w EXCEPT !.space[x] = "none",
            !.slot = [f \in Forges |-> IF w.slot[f].ws = x
                                       THEN [w.slot[f] EXCEPT !.ws = None] ELSE w.slot[f]]]

\* Mutant: the slot is freed although its workspace could not be destroyed.
ReleaseAnyway(w, f, ok) ==
  IF w.slot[f].st = "missing" THEN w
  ELSE LET d == IF w.slot[f].ws # None /\ ok THEN destroy_coder_workspace(w, w.slot[f].ws) ELSE w
       IN  [d EXCEPT !.slot[f] = Slot("idle", None, None)]

release_worker_slot(w, f, ok) ==
  CASE w.slot[f].st = "missing" \/ (w.slot[f].ws # None /\ ~ok) -> w
    [] w.slot[f].st # "missing" /\ w.slot[f].ws # None /\ ok ->
         [destroy_coder_workspace(w, w.slot[f].ws) EXCEPT !.slot[f] = Slot("idle", None, None)]
    [] w.slot[f].st # "missing" /\ w.slot[f].ws = None ->
         [w EXCEPT !.slot[f] = Slot("idle", None, None)]

mark_ticket_awaiting_human(w, t, f, ok) ==
  LET marked == [Status(w, t, "awaiting_human", f) EXCEPT !.board[t].n = OneMore(w.board[t].n),
                                                          !.tries[t] = 0]
  IN  release_worker_slot(IF w.board[t].st = "awaiting_human" THEN w ELSE marked, f, ok)

(* Outcome "error": nothing was created.  Otherwise the workspace of that   *)
(* name is created or adopted and its id persisted before it is ready.      *)
Outcomes == {"error", "up", "lost"}
provision_coder_workspace(w, f, t, outcome) ==
  IF w.slot[f].st = "missing" \/ outcome = "error" THEN w
  ELSE [w EXCEPT !.slot[f].ws = t,
                 !.space[t] = IF w.space[t] = "none" THEN outcome ELSE w.space[t]]

-----------------------------------------------------------------------------
(* prep: synchronise, then work on the tickets as read at its start. *)

(* A PR that GitHub lists and that the worker left ready completes its ticket. *)
sync_open_prs(w) ==
  [w EXCEPT !.board = [t \in Tickets |->
     IF prs[t] = "ready" /\ w.board[t].st \in {"open", "assigned", "in_progress"}
     THEN [w.board[t] EXCEPT !.st = "pr_opened"] ELSE w.board[t]]]

sync_registry(w) ==
  [w EXCEPT !.slot = [f \in Forges |-> IF w.slot[f].st = "missing"
                                       THEN Slot("idle", None, None) ELSE w.slot[f]]]

Recyclable(w) == {f \in Forges : /\ w.slot[f].st = "assigned"
                                 /\ is_terminal(w.board[w.slot[f].ticket])
                                 /\ \E t \in Tickets : is_assignable(w.board[t])}

Spend(ok) == /\ ok \/ mishaps < MaxMishaps
             /\ mishaps' = mishaps + (IF ok THEN 0 ELSE 1)

Sync == /\ stage = "poll"
        /\ stage' = "recycle"
        /\ LET w == sync_registry(sync_open_prs(W))
           IN  /\ Store(w)
               /\ seen' = w.board
               /\ todo' = Recyclable(w)
        /\ UNCHANGED <<directive, prs, snap, decision, fresh, torn, mishaps>>

Recycle(f, ok) == /\ stage = "recycle"
                  /\ f \in todo
                  /\ Store(release_worker_slot(W, f, ok))
                  /\ Spend(ok)
                  /\ todo' = todo \ {f}
                  /\ UNCHANGED <<directive, prs, stage, seen, snap, decision, fresh, torn>>

(* inspect_coder_recovery: busy slots whose workspace is not running are    *)
(* crashed; a healthy one gets its recovery counter cleared.                *)
Busy(w) == {f \in Forges : w.slot[f].st = "assigned"}
Crashed(w) == {f \in Busy(w) : w.slot[f].ws # None /\ w.space[w.slot[f].ws] # "up"}
Healthy(w) == {w.slot[f].ticket : f \in {g \in Busy(w) \ Crashed(w) : w.slot[g].ws # None}}

inspect_coder_recovery == /\ stage = "recycle"
                          /\ todo = {}
                          /\ stage' = "repair"
                          /\ todo' = Crashed(W)
                          /\ snap' = slot
                          /\ tries' = [t \in Tickets |-> IF t \in Healthy(W) THEN 0 ELSE tries[t]]
                          /\ UNCHANGED <<slot, board, space, wkey, directive, prs, seen, decision,
                                         fresh, torn, mishaps>>

increment_recovery_attempts(w, t) == [w EXCEPT !.tries[t] = OneMore(w.tries[t])]

\* Mutant: the retries are not limited.
NeverReached(w, t) == FALSE

LimitReached(w, t) == w.tries[t] >= MAX_ATTEMPTS

(* One crashed workspace, with the slot as inspected: escalate at the limit, restart a      *)
(* stopped one, detach and recreate a failed one.                                           *)
Repaired(w, f, t, x, outcome) ==
  CASE w.space[x] = "down" -> IF outcome = "up" THEN [w EXCEPT !.space[x] = "up"] ELSE w
    [] w.space[x] = "lost" ->
         provision_coder_workspace(IF w.slot[f].st = "missing" THEN w
                                   ELSE [w EXCEPT !.slot[f].ws = None], f, t, outcome)
    [] OTHER -> w

repair_coder_recovery(f, ok, outcome) ==
  /\ stage = "repair"
  /\ f \in todo
  /\ todo' = todo \ {f}
  /\ LET t == snap[f].ticket
         w == increment_recovery_attempts(W, t)
     IN  \/ /\ LimitReached(w, t)
            /\ Store(mark_ticket_awaiting_human(w, t, f, ok))
            /\ fresh' = fresh \cup {t}
            /\ Spend(ok)
         \/ /\ ~LimitReached(w, t)
            /\ ok
            /\ Store(Repaired(w, f, t, snap[f].ws, outcome))
            /\ UNCHANGED <<fresh, mishaps>>
  /\ UNCHANGED <<directive, prs, stage, seen, snap, decision, torn>>

(* The slots are read again; the ticket list is not. *)
RereadSlots == /\ stage = "repair"
               /\ todo = {}
               /\ stage' = "retry"
               /\ snap' = slot
               /\ todo' = Busy(W)
               /\ UNCHANGED <<slot, board, space, wkey, tries, directive, prs, seen, decision, fresh,
                              torn, mishaps>>

(* A new chat is bound to the slot's workspace; a rework directive becomes its prompt. *)
create_chat_for_ticket_id(w, t, f, chat) ==
  IF chat /\ w.slot[f].ws # None THEN [w EXCEPT !.wkey[t] = w.slot[f].ws] ELSE w
Consumed(w, t, f, chat) == IF chat /\ w.slot[f].ws # None THEN {t} ELSE {}

RetryProvisioning(f, outcome, chat) ==
  /\ stage = "retry"
  /\ f \in todo
  /\ todo' = todo \ {f}
  /\ LET t == snap[f].ticket
         w == IF snap[f].ws = None THEN increment_recovery_attempts(W, t) ELSE W
         p == IF snap[f].ws = None THEN provision_coder_workspace(w, f, t, outcome) ELSE w
         ready == snap[f].ws # None \/ (p.slot[f].ws = t /\ p.space[t] = "up")
         r == IF snap[f].ws = None /\ ready THEN [p EXCEPT !.tries[t] = 0] ELSE p
     IN  \/ /\ snap[f].ws = None /\ LimitReached(w, t)
            /\ Store(mark_ticket_awaiting_human(w, t, f, TRUE))
            /\ fresh' = fresh \cup {t}
            /\ UNCHANGED directive
         \/ /\ ~(snap[f].ws = None /\ LimitReached(w, t))
            /\ Store(create_chat_for_ticket_id(r, t, f, chat /\ ready))
            /\ directive' = directive \ Consumed(r, t, f, chat /\ ready)
            /\ UNCHANGED fresh
  /\ UNCHANGED <<prs, stage, seen, snap, decision, torn, mishaps>>

\* Mutant: a ticket that waits for a human is reworked like any other.
AnyWithDirective == directive

(* Rework directives of tickets that were not awaiting a human when prep read them. *)
ReworkTickets == {t \in directive : seen[t].st # "awaiting_human"}

IdleIn(s) == {f \in Forges : s[f].st = "idle"}
BoundIn(s, t) == {f \in Forges : s[f].st = "assigned" /\ s[f].ticket = t}
\* Mutant: the slot that still works on the ticket is not preferred.
AnyIdleCarrier(t) == IdleIn(snap)

CarriersFor(t) == IF BoundIn(snap, t) # {} THEN BoundIn(snap, t) ELSE IdleIn(snap)
Provisionable(dead) == {t \in ReworkTickets \cap dead : CarriersFor(t) # {}}
First(S) == CHOOSE t \in S : \A u \in S : t <= u
Assignable == {t \in Tickets : is_assignable(seen[t])}

(* A pull request under a rework directive is withheld from VESSEL. *)
pending_prs_ready_for_vessel == {t \in Tickets \ directive : prs[t] = "ready"}

(* exec: rework first, then pull requests, then new work.  dead is the set  *)
(* of tickets with a directive whose stored chat is verified to be gone.    *)
Decide(d, dead) ==
  /\ Provisionable(dead) # {} =>
       d \in {[action |-> "rework_assigned", ticket |-> First(Provisionable(dead)), worker |-> f] :
                f \in CarriersFor(First(Provisionable(dead)))}
  /\ (Provisionable(dead) = {} /\ pending_prs_ready_for_vessel # {}) =>
       d = [Nothing EXCEPT !.action = "merge_prs"]
  /\ (Provisionable(dead) = {} /\ pending_prs_ready_for_vessel = {}) =>
       \/ /\ Assignable # {}
          /\ d \in {[action |-> "work_assigned", ticket |-> First(Assignable), worker |-> f] :
                      f \in IdleIn(slot)}
       \/ /\ Assignable = {} \/ IdleIn(slot) = {}
          /\ d = Nothing

Decisions == [action : {"rework_assigned", "work_assigned"}, ticket : Tickets, worker : Forges]
             \cup {Nothing, [Nothing EXCEPT !.action = "merge_prs"]}

exec == /\ stage = "retry"
        /\ todo = {}
        /\ stage' = "post"
        /\ \E d \in Decisions, dead \in SUBSET directive : Decide(d, dead) /\ decision' = d
        /\ seen' = NoTickets
        /\ snap' = NoSlots
        /\ UNCHANGED <<slot, board, space, wkey, tries, directive, prs, todo, fresh, torn,
                       mishaps>>

-----------------------------------------------------------------------------
(* post: orphans first, on every pass, then the decision. *)

Orphan(w, t) == /\ w.board[t].st \in {"assigned", "in_progress"}
                /\ \/ w.board[t].worker \notin Forges
                   \/ w.slot[w.board[t].worker].st = "missing"

OrphansOpened(w) == [w EXCEPT !.board = [t \in Tickets |->
  IF Orphan(w, t) THEN [w.board[t] EXCEPT !.st = "open", !.worker = NoOne] ELSE w.board[t]]]

Stale(w) == {f \in Busy(w) : \/ is_terminal(w.board[w.slot[f].ticket])
                             \/ w.board[w.slot[f].ticket].st = "open"}

(* Only the slots whose workspace could be destroyed are recycled. *)
RecycleStale(w, kept) ==
  LET done == Stale(w) \ kept
      gone == {w.slot[f].ws : f \in done} \ {None}
      cleared == {w.slot[f].ticket : f \in {g \in done : w.slot[g].ws # None}}
  IN  [w EXCEPT !.slot = [f \in Forges |-> IF f \in done THEN Slot("idle", None, None)
                                           ELSE w.slot[f]],
                !.space = [t \in Tickets |-> IF t \in gone THEN "none" ELSE w.space[t]],
                !.wkey = [t \in Tickets |-> IF t \in cleared THEN None ELSE w.wkey[t]]]

(* Workspaces of terminal tickets whose deletion failed are deleted by their retained key. *)
DeleteLingering(w, failed) ==
  LET due == {t \in Tickets : is_terminal(w.board[t]) /\ w.wkey[t] # None /\ t \notin failed}
      gone == {w.wkey[t] : t \in due}
  IN  [w EXCEPT !.slot = [f \in Forges |-> IF w.slot[f].ws \in gone
                                           THEN [w.slot[f] EXCEPT !.ws = None] ELSE w.slot[f]],
                !.space = [t \in Tickets |-> IF t \in gone THEN "none" ELSE w.space[t]],
                !.wkey = [t \in Tickets |-> IF t \in due THEN None ELSE w.wkey[t]]]

recover_orphans(w, kept, failed) ==
  DeleteLingering(RecycleStale(OrphansOpened(w), kept), failed)

\* Mutant: the slot is not marked busy.
AssignTicketOnly(w, t, f, outcome) == Status(w, t, "assigned", f)

AssignTicket(w, t, f, outcome) ==
  LET a == Status(w, t, "assigned", f)
      s == IF a.slot[f].st = "missing" THEN a
           ELSE [a EXCEPT !.slot[f].st = "assigned", !.slot[f].ticket = t]
  IN  IF s.slot[f].ws = None THEN provision_coder_workspace(s, f, t, outcome) ELSE s

post(kept, failed, outcome, chat) ==
  /\ stage = "post"
  /\ kept \subseteq {f \in Forges : slot[f].ws # None}
  /\ failed \subseteq {t \in Tickets : wkey[t] # None}
  /\ LET o == recover_orphans(W, kept, failed)
         d == decision
         w == IF d.ticket = None THEN o ELSE AssignTicket(o, d.ticket, d.worker, outcome)
     IN  /\ Store(IF d.ticket = None THEN w
                  ELSE create_chat_for_ticket_id(w, d.ticket, d.worker, chat))
         /\ directive' = IF d.ticket = None THEN directive
                         ELSE directive \ Consumed(w, d.ticket, d.worker, chat)
         /\ stage' = IF d.action = "merge_prs" THEN "vessel" ELSE "poll"
  /\ decision' = Nothing
  /\ mishaps' = mishaps + Cardinality(kept) + Cardinality(failed)
  /\ mishaps' <= MaxMishaps
  /\ fresh' = {}
  /\ UNCHANGED <<prs, seen, snap, todo, torn>>

-----------------------------------------------------------------------------
(* VESSEL on one pull request of the pass. *)

Vessel(t, w) == /\ stage = "vessel"
                /\ t \in pending_prs_ready_for_vessel
                /\ stage' = "poll"
                /\ Store(w)
                /\ UNCHANGED <<seen, snap, todo, decision, fresh>>

Counted(w, t) == [w EXCEPT !.board[t].n = OneMore(w.board[t].n)]

(* The slot that works on the ticket is not released. *)
mark_ticket_failed(t) == /\ Vessel(t, Counted(Status(W, t, "failed", "vessel"), t))
                         /\ prs' = [prs EXCEPT ![t] = "rework"]
                         /\ torn' = IF BoundIn(slot, t) # {} THEN torn \cup {t} ELSE torn
                         /\ UNCHANGED <<directive, mishaps>>

EscalatePr(t) == /\ Vessel(t, Counted(Status(W, t, "awaiting_human", board[t].worker), t))
                 /\ prs' = [prs EXCEPT ![t] = "rework"]
                 /\ UNCHANGED <<directive, torn, mishaps>>

\* Mutant: the id of a workspace that could not be destroyed is not retained.
DestroyAndForget(w, t, ok) ==
  [w EXCEPT !.space = [x \in Tickets |-> IF ok /\ x = t THEN "none" ELSE w.space[x]],
            !.wkey[t] = None]

(* The workspaces of the merged ticket's slots and of its key are destroyed; an id that      *)
(* could not be is retained in the key.                                                      *)
destroy_coder_workspace_for_pr(w, t, ok) ==
  LET targets == ({w.slot[f].ws : f \in BoundIn(w.slot, t)} \cup {w.wkey[t]}) \ {None}
  IN  IF ok
      THEN [w EXCEPT !.slot = [f \in Forges |-> IF w.slot[f].ws \in targets
                                                THEN [w.slot[f] EXCEPT !.ws = None]
                                                ELSE w.slot[f]],
                     !.space = [x \in Tickets |-> IF x \in targets THEN "none" ELSE w.space[x]],
                     !.wkey[t] = None]
      ELSE [w EXCEPT !.wkey[t] = IF w.wkey[t] # None \/ targets = {} THEN w.wkey[t]
                                 ELSE CHOOSE x \in targets : TRUE]

(* The merged ticket's slots go idle and forget their workspace. *)
recycle_worker(w, t) ==
  [w EXCEPT !.slot = [f \in Forges |-> IF f \in BoundIn(w.slot, t) THEN Slot("idle", None, None)
                                       ELSE w.slot[f]]]

MergePr(t, ok) ==
  /\ Vessel(t, recycle_worker(Status(destroy_coder_workspace_for_pr(W, t, ok),
                                     t, "merged", board[t].worker), t))
  /\ Spend(ok)
  /\ prs' = [prs EXCEPT ![t] = "none"]
  /\ UNCHANGED <<directive, torn>>

(* The worker named by the PR's branch, or else an idle one, whatever it is doing. *)
FixWorker(t, f) == /\ slot[f].st # "missing"
                   /\ \/ f = board[t].worker
                      \/ /\ board[t].worker \notin {g \in Forges : slot[g].st # "missing"}
                         /\ slot[f].st = "idle"

assign_worker_for_ci_fix(t, f) ==
  /\ FixWorker(t, f)
  /\ Vessel(t, LET a == [W EXCEPT !.slot[f].st = "assigned", !.slot[f].ticket = t]
               IN  IF board[t].st = "in_progress" THEN a ELSE Status(a, t, "in_progress", f))
  /\ prs' = [prs EXCEPT ![t] = "rework"]
  /\ torn' = torn \cup ({slot[f].ticket} \ {None, t})
  /\ UNCHANGED <<directive, mishaps>>

persist_rework_directive(t) == /\ Vessel(t, W)
                               /\ prs' = [prs EXCEPT ![t] = "rework"]
                               /\ directive' = directive \cup {t}
                               /\ UNCHANGED <<torn, mishaps>>

-----------------------------------------------------------------------------
(* The world around the pass. *)

Quiet == UNCHANGED <<stage, seen, snap, todo, decision, fresh>>

(* A FORGE pushes the pull request from its running workspace. *)
Submit(t) == /\ stage = "poll"   \* prep reads GitHub's list once, when it starts
             /\ space[t] = "up" /\ wkey[t] = t
             /\ prs[t] # "ready"
             /\ board[t].st \in {"assigned", "in_progress"}
             /\ \E f \in Forges : slot[f].st = "assigned" /\ slot[f].ticket = t /\ slot[f].ws = t
             /\ prs' = [prs EXCEPT ![t] = "ready"]
             /\ UNCHANGED <<slot, board, space, wkey, tries, directive, torn, mishaps>>
             /\ Quiet

Crash(t, how) == /\ space[t] = "up"
                 /\ mishaps < MaxMishaps
                 /\ mishaps' = mishaps + 1
                 /\ space' = [space EXCEPT ![t] = how]
                 /\ UNCHANGED <<slot, board, wkey, tries, directive, prs, torn>>
                 /\ Quiet

(* tenant clean: escalated and failed tickets reopen, their slots are forgotten. *)
reset_tenant_state ==
  LET reset == {t \in Tickets : board[t].st \in {"awaiting_human", "failed"}}
  IN  /\ reset # {}
      /\ board' = [t \in Tickets |-> IF t \in reset
                                     THEN [st |-> "open", worker |-> NoOne, n |-> 0]
                                     ELSE board[t]]
      /\ slot' = [f \in Forges |-> IF slot[f].ticket \in reset THEN Slot("missing", None, None)
                                   ELSE slot[f]]
      /\ tries' = [t \in Tickets |-> IF t \in reset THEN 0 ELSE tries[t]]
      /\ mishaps < MaxMishaps
      /\ mishaps' = mishaps + 1
      /\ torn' = IF stage = "poll" THEN torn ELSE torn \cup reset
      /\ UNCHANGED <<space, wkey, directive, prs>>
      /\ Quiet

Pass == \/ Sync
        \/ \E f \in Forges, ok \in BOOLEAN : Recycle(f, ok)
        \/ inspect_coder_recovery
        \/ \E f \in Forges, ok \in BOOLEAN, o \in Outcomes : repair_coder_recovery(f, ok, o)
        \/ RereadSlots
        \/ \E f \in Forges, o \in Outcomes, chat \in BOOLEAN : RetryProvisioning(f, o, chat)
        \/ exec
        \/ \E kept \in SUBSET Forges, failed \in SUBSET Tickets, o \in Outcomes, chat \in BOOLEAN :
              post(kept, failed, o, chat)

VesselStep == \E t \in Tickets : \/ mark_ticket_failed(t)
                                 \/ EscalatePr(t)
                                 \/ \E ok \in BOOLEAN : MergePr(t, ok)
                                 \/ \E f \in Forges : assign_worker_for_ci_fix(t, f)
                                 \/ persist_rework_directive(t)

Next == \/ Pass
        \/ VesselStep
        \/ \E t \in Tickets : Submit(t)
        \/ \E t \in Tickets, how \in {"down", "lost"} : Crash(t, how)
        \/ reset_tenant_state

(* The controller loop starts a pass after every poll interval, and the steps of a pass    *)
(* are enabled when their stage is reached: the control state keeps moving.               *)
Moves == stage' # stage \/ todo' # todo
Fairness == []<><<Moves>>_vars

Spec == Init /\ [][Next]_vars /\ Fairness

TypeOK == /\ slot \in [Forges -> WorkerSlot]
          /\ board \in [Tickets -> Ticket]
          /\ space \in [Tickets -> {"none", "up", "down", "lost"}]
          /\ wkey \in [Tickets -> Tickets \cup {None}]
          /\ tries \in [Tickets -> 0..MAX_ATTEMPTS]
          /\ directive \subseteq Tickets
          /\ prs \in [Tickets -> {"none", "ready", "rework"}]
          /\ stage \in {"poll", "recycle", "repair", "retry", "post", "vessel"}
          /\ todo \subseteq Forges
          /\ decision \in Decisions
          /\ fresh \subseteq Tickets
          /\ torn \subseteq Tickets
          /\ mishaps \in 0..MaxMishaps

(* Two FORGE slots work on one ticket only after VESSEL failed a ticket that a slot still   *)
(* held (the slot is not released and a failed ticket is assignable again) or an operator   *)
(* cleaned it in the middle of a pass: NEXUS itself never hands a held ticket out again.    *)
OneForgePerTicket ==
  \A f, g \in Forges : (f # g /\ slot[f].st = "assigned" /\ slot[g] = slot[f])
                       => slot[f].ticket \in torn

(* NEXUS never hands a ticket that waits for a human to a worker.  The exception is a       *)
(* ticket escalated during the pass that reworks it: prep checks the ticket list it read    *)
(* before its own escalations.                                                              *)
EscalationHolds ==
  \A t \in Tickets : (stage = "post" /\ board[t].st = "awaiting_human" /\ t \notin fresh)
                     => board'[t].st = "awaiting_human" \/ stage' = "post"

(* A slot that NEXUS frees leaves no workspace of its own behind in Coder: when the         *)
(* destruction fails the slot stays reserved.                                               *)
ReleasedSlotLeavesNothing ==
  \A f \in Forges : (/\ stage \in {"recycle", "repair", "retry"}
                     /\ slot[f].st = "assigned" /\ slot[f].ws # None
                     /\ slot'[f].st = "idle")
                    => space'[slot[f].ws] = "none"

(* A busy slot without a workspace gets one or is given up: provisioning is retried under   *)
(* the recovery counter and escalated at its limit.  Two slots on one ticket share the      *)
(* counter, and the healthy one clears it on every pass: hence the exception.               *)
IsSettled(f) == slot[f].st # "assigned" \/ slot[f].ws # None \/ slot[f].ticket \in torn
BusySlotSettles == \A f \in Forges : []<>IsSettled(f)

(* The workspace of a merged ticket is destroyed in the end, although VESSEL frees the slot *)
(* even when the deletion fails: the id retained with the ticket lets recovery retry it.    *)
NothingLeft(t) == board[t].st = "merged" => space[t] = "none"
MergedLeavesNoWorkspace == \A t \in Tickets : []<>NothingLeft(t)

(* Between passes a ticket assigned to a slot is the ticket that slot works on: recovery    *)
(* leaves a ticket with an idle slot alone, so one would wait for ever.  A slot VESSEL took *)
(* over and a clean-up in the middle of a pass are the exceptions.                          *)
AssignedTicketIsHeld ==
  stage = "poll" => \A t \in Tickets : board[t].st = "assigned" =>
    \/ t \in torn
    \/ slot[board[t].worker].st = "assigned" /\ slot[board[t].worker].ticket = t
=============================================================================
