------------------------------- MODULE CiGate -------------------------------
(***************************************************************************)
(* What NEXUS puts on the board and in which order (agent-nexus lib.rs):   *)
(* open GitHub issues become tickets; a repository without CI gets a       *)
(* ticket of its own, T-CI-001, which must be done before any other work;  *)
(* that ticket is dropped once CI is found.  An assignment is mirrored to  *)
(* GitHub, and a comment says so, once, when that cannot be done.          *)
(*                                                                         *)
(* A pass of NEXUS reads GitHub and writes the board (prep), then assigns  *)
(* one ticket (post).  Workers, people who push to the repository and      *)
(* failing GitHub calls interleave with it.                                *)
(***************************************************************************)
EXTENDS Integers, FiniteSets

CONSTANTS None,
          Issues,       \* GitHub issues; the ticket of an issue has its number
          Lookalikes,   \* issues whose title names CI and a setup, pipeline or workflow
          Workers,      \* FORGE slots
          MAX_ATTEMPTS, \* Ticket::MAX_ATTEMPTS
          MaxFaults,    \* bound: failing GitHub calls
          MaxChanges    \* bound: people adding or removing CI

VARIABLES setting,   \* hosted, local CI configuration, worker account may be assigned, open issues
          repo,      \* CI configuration on the default branch of the repository
          board,     \* the tickets: status and attempts
          slots,     \* the ticket each worker is at, or None
          pass,      \* the NEXUS pass between prep and post, or None
          ci_readiness,
          comments,  \* assignment-failure comments on each issue
          unsure,    \* issues commented on without knowing whether there was one
          dropped,   \* CI was taken for ready while a worker was at the CI ticket
          faults, changes

vars == <<setting, repo, board, slots, pass, ci_readiness, comments, unsure, dropped, faults, changes>>

\* CI_SETUP_TICKET_ID
CiTicket == 0

Tickets == Issues \cup {CiTicket}

\* is_synthetic_ci_setup_ticket, is_ci_setup_ticket: the title of an issue is enough.
is_synthetic_ci_setup_ticket(t) == t = CiTicket
is_ci_setup_ticket(t) == t \in Lookalikes \/ is_synthetic_ci_setup_ticket(t)

Statuses == {"absent", "open", "assigned", "failed", "merged"}

TypeOK ==
  /\ setting \in [hosted : BOOLEAN, local : BOOLEAN, assignable : BOOLEAN, open : SUBSET Issues]
  /\ repo \in BOOLEAN
  /\ board \in [Tickets -> [st : Statuses, attempts : 0..MAX_ATTEMPTS]]
  /\ slots \in [Workers -> Tickets \cup {None}]
  /\ pass \in [readiness : {"ready", "missing"}, ci : BOOLEAN, guessed : BOOLEAN] \cup {None}
  /\ ci_readiness \in {None, "ready", "missing", "setup_in_progress"}
  /\ comments \in [Issues -> Nat] /\ unsure \subseteq Issues /\ dropped \in BOOLEAN
  /\ faults \in 0..MaxFaults /\ changes \in 0..MaxChanges

-----------------------------------------------------------------------------
(* prep.                                                                     *)

NoTicket == [st |-> "absent", attempts |-> 0]
OpenTicket == [st |-> "open", attempts |-> 0]

is_assignable(b, t) == \/ b[t].st = "open"
                       \/ b[t].st = "failed" /\ b[t].attempts < MAX_ATTEMPTS

has_ci_setup_ticket(b) == \E t \in Tickets : b[t].st # "absent" /\ is_ci_setup_ticket(t)

\* sync_issues: every open issue has a ticket; a tracked one keeps its status.
sync_issues(b, listed) ==
  [t \in Tickets |-> IF listed /\ t \in setting.open /\ b[t].st = "absent" THEN OpenTicket ELSE b[t]]

\* The workflows of the default branch, or another CI configuration in it.
has_workflows == repo

\* check_ci_readiness: what a pass takes for the state of CI; None is an error that ends
\* the pass of a hosted controller.  Elsewhere a failed check counts as ready, a missing
\* credential as missing, and a configuration in the controller's own checkout will do.
check_ci_readiness(answer) ==
  CASE ~setting.hosted /\ setting.local -> "ready"
    [] answer = "answer"        -> IF has_workflows THEN "ready" ELSE "missing"
    [] setting.hosted           -> None
    [] answer = "error"         -> "ready"
    [] answer = "no credential" -> "missing"

\* Mutant: the ticket is left to whoever opens an issue for it.
NotInjected(b, readiness) == b
\* ensure_ci_setup_ticket
ensure_ci_setup_ticket(b, readiness) ==
  IF readiness # "missing" \/ has_ci_setup_ticket(b) THEN b
  ELSE [b EXCEPT ![CiTicket] = OpenTicket]

\* Mutant: a ticket that waits is dropped whether CI is there or not.
DropsAny(b, readiness) ==
  [t \in Tickets |-> IF is_synthetic_ci_setup_ticket(t) THEN NoTicket ELSE b[t]]
\* remove_stale_ci_setup_tickets: whatever their status.
remove_stale_ci_setup_tickets(b, readiness) ==
  [t \in Tickets |-> IF readiness = "ready" /\ is_synthetic_ci_setup_ticket(t) THEN NoTicket ELSE b[t]]

Held(t) == \E w \in Workers : slots[w] = t

Fault(n) == faults + n <= MaxFaults /\ faults' = faults + n

\* prep: issues, then CI, then the board.
prep ==
  /\ pass = None
  /\ \E listed \in BOOLEAN, answer \in {"answer", "error", "no credential"} :
       /\ Fault((IF listed THEN 0 ELSE 1) + (IF answer = "answer" THEN 0 ELSE 1))
       /\ LET synced == sync_issues(board, listed)
              ready  == check_ci_readiness(answer)
              clean  == remove_stale_ci_setup_tickets(synced, ready)
          IN  IF setting.hosted /\ ~listed THEN UNCHANGED <<board, pass, ci_readiness, dropped>>
              ELSE IF ready = None
              THEN board' = synced /\ UNCHANGED <<pass, ci_readiness, dropped>>
              ELSE /\ board' = ensure_ci_setup_ticket(clean, ready)
                   /\ ci_readiness' = ready
                   /\ pass' = [readiness |-> ready, ci |-> repo,
                               guessed |-> ~setting.hosted /\ (setting.local \/ answer = "error")]
                   /\ dropped' = (dropped \/ (ready = "ready" /\ \E t \in Tickets :
                                                 Held(t) /\ synced[t].st # clean[t].st))
  /\ UNCHANGED <<setting, repo, slots, comments, unsure, changes>>

-----------------------------------------------------------------------------
(* post.                                                                     *)

\* Mutant: CI goes first, and everything else may follow at once.
PrefersCi == {t \in Tickets : is_assignable(board, t)}
\* What may be assigned in this pass: CI goes first while it is missing.
assignable_tickets ==
  {t \in Tickets : is_assignable(board, t) /\ (pass.readiness = "missing" => is_ci_setup_ticket(t))}

\* prioritize_ci_first: CI tickets before the others.
prioritize_ci_first(s) ==
  IF \E t \in s : is_ci_setup_ticket(t) THEN {t \in s : is_ci_setup_ticket(t)} ELSE s

\* Mutant: a comment per assignment.
PostComment(i) == comments' = [comments EXCEPT ![i] = @ + 1] /\ UNCHANGED <<unsure, faults>>
\* post_comment_once: unless one is there; posted anyway when that cannot be found out,
\* and by the client's retry once more when the answer is lost (send_with_retry).
post_comment_once(i) ==
  \/ /\ UNCHANGED <<unsure, faults>>
     /\ comments' = [comments EXCEPT ![i] = IF @ = 0 THEN 1 ELSE @]
  \/ /\ Fault(1) /\ unsure' = unsure \cup {i}
     /\ comments' = [comments EXCEPT ![i] = @ + 1]
  \/ /\ comments[i] = 0 /\ Fault(1) /\ unsure' = unsure \cup {i}
     /\ comments' = [comments EXCEPT ![i] = 2]

\* sync_assignment_to_github: not for a hosted controller nor for a ticket without an
\* issue; an account that cannot be assigned is reported on the issue.
sync_assignment_to_github(t) ==
  IF setting.hosted \/ t \notin Issues \/ setting.assignable THEN UNCHANGED <<comments, unsure, faults>>
  ELSE post_comment_once(t)

\* post: the first assignable ticket goes to an idle worker.
post ==
  /\ pass # None /\ pass' = None
  /\ LET next == prioritize_ci_first(assignable_tickets)
         idle == {w \in Workers : slots[w] = None}
     IN  IF next = {} \/ idle = {}
         THEN UNCHANGED <<board, slots, ci_readiness, comments, unsure, faults>>
         ELSE \E w \in idle :
                LET t == CHOOSE x \in next : \A y \in next : x <= y
                IN  /\ board' = [board EXCEPT ![t].st = "assigned"]
                    /\ slots' = [slots EXCEPT ![w] = t]
                    /\ ci_readiness' = IF is_synthetic_ci_setup_ticket(t) THEN "setup_in_progress"
                                       ELSE ci_readiness
                    /\ sync_assignment_to_github(t)
  /\ UNCHANGED <<setting, repo, dropped, changes>>

-----------------------------------------------------------------------------
(* Workers and people.                                                       *)

\* A worker's pull request is merged, or the worker fails; the ticket of a dropped
\* one is no longer on the board.  The CI ticket brings the workflows.
Finish(w) ==
  /\ slots[w] # None
  /\ LET t == slots[w]
     IN  \E merged \in BOOLEAN :
           /\ board' = IF board[t].st # "assigned" THEN board
                       ELSE IF merged THEN [board EXCEPT ![t].st = "merged"]
                       ELSE [board EXCEPT ![t] = [st |-> "failed", attempts |-> @.attempts + 1]]
           /\ repo' = (repo \/ (merged /\ t = CiTicket))
  /\ slots' = [slots EXCEPT ![w] = None]
  /\ UNCHANGED <<setting, pass, ci_readiness, comments, unsure, dropped, faults, changes>>

\* Someone adds CI to the repository or removes it.
ChangeCi ==
  /\ changes < MaxChanges /\ changes' = changes + 1
  /\ repo' = ~repo
  /\ UNCHANGED <<setting, board, slots, pass, ci_readiness, comments, unsure, dropped, faults>>

Init ==
  /\ setting \in [hosted : BOOLEAN, local : BOOLEAN, assignable : BOOLEAN, open : {Issues \ Lookalikes, Issues}]
  /\ setting.hosted => ~setting.local /\ setting.assignable
  /\ repo \in BOOLEAN
  /\ board = [t \in Tickets |-> NoTicket]
  /\ slots = [w \in Workers |-> None] /\ pass = None /\ ci_readiness = None
  /\ comments = [i \in Issues |-> 0] /\ unsure = {} /\ dropped = FALSE
  /\ faults = 0 /\ changes = 0

Controller == prep \/ post
SomeFinish == \E w \in Workers : Finish(w)

Next == Controller \/ SomeFinish \/ ChangeCi

\* The controller's loop goes on, and a worker's run comes to an end.
Spec == Init /\ [][Next]_vars /\ WF_vars(Controller) /\ WF_vars(SomeFinish)

-----------------------------------------------------------------------------
(* Work other than CI starts only when the repository had CI as the pass     *)
(* looked.  Outside hosted mode a pass may also guess: a failed check is     *)
(* taken for ready, and so is a configuration in the controller's checkout.  *)
CiBeforeOtherWork ==
  \A t \in Tickets : ~is_ci_setup_ticket(t) /\ board[t].st # "assigned" /\ board'[t].st = "assigned"
                        => pass.ci \/ pass.guessed

(* A ticket is with one worker at a time, unless it was dropped from the     *)
(* board under its worker and came back: readiness is read afresh in every   *)
(* pass and drops the CI ticket whatever its status.                         *)
OneWorkerPerTicket ==
  dropped \/ \A v, w \in Workers : v # w /\ slots[v] # None => slots[v] # slots[w]

(* An issue gets the assignment-failure comment once, however often it is    *)
(* assigned, except when GitHub did not say whether it was there.            *)
CommentedOnce == \A i \in Issues \ unsure : comments[i] <= 1

\* CI is missing and no ticket will bring it: the CI ticket failed for good, or a ticket
\* that counts as one is merged and there is still no CI.
NeedsHuman ==
  /\ ~repo
  /\ \E t \in Tickets : is_ci_setup_ticket(t) /\ (\/ board[t].st = "merged"
                                                  \/ board[t].st = "failed" /\ ~is_assignable(board, t))

(* No open ticket is held back for ever: again and again every ticket is     *)
(* taken or finished, unless CI is missing and only a human can bring it.    *)
AllTaken == NeedsHuman \/ \A t \in Tickets : ~is_assignable(board, t)
EveryTicketTaken == []<>AllTaken

=============================================================================
