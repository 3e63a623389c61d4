---------------------------- MODULE Documentation ----------------------------
(***************************************************************************)
(* LORE writes the documentation of merged pull requests                   *)
(* (crates/agent-lore): VESSEL announces a merge in the in-memory event    *)
(* ring of the store, the controller routes to LORE after a deployment,    *)
(* and LORE turns the announcements it has not seen into changelog entries *)
(* and decision records, commits them on a branch of its own and opens a   *)
(* pull request that VESSEL merges or closes.                              *)
(*                                                                         *)
(* A changelog is the set of tickets it has an entry for (None while the   *)
(* file does not exist), the decision records are the set of tickets they  *)
(* name.  Git and GitHub are external: they are modelled by what the       *)
(* commands LORE runs do to a work tree, its branches and its stash.       *)
(***************************************************************************)
EXTENDS Integers, Sequences, FiniteSets

LOCAL INSTANCE SequencesExt

CONSTANTS Tickets,            \* merged tickets, one pull request each (positive numbers)
          LongerId,           \* a ticket -> the tickets whose id continues its id (T-1, T-10)
          Branches,           \* docs branches, 1..n
          RING_BUFFER_SIZE,   \* pocketflow-core/src/store.rs:21
          MaxFaults,          \* bound on crashes and failing commands
          None

VARIABLES ring,       \* the events of the store, oldest first; lost when the controller ends
          merged,     \* tickets whose pull request VESSEL has done with
          processed,  \* lore_processed_events: tickets and docs pull requests
          pass,       \* the LORE pass that runs
          repo,       \* the work tree, the local branches and the stash
          remote,     \* the branches of the repository and the docs pull requests
          excused,    \* (history) tickets of a pass that logged a failure or crashed
          faults      \* (bound) faults so far

vars == <<ring, merged, processed, pass, repo, remote, excused, faults>>

\* Events that are not about tickets, and those about docs pull requests (-branch).
Other == 0

Files(l, a) == [log |-> l, adr |-> a]

Idle == [at |-> "idle", todo |-> <<>>, handled |-> {}, updated |-> FALSE,
         branch |-> 0, from |-> 0, stashed |-> FALSE]

Init == /\ ring = <<>> /\ merged = {} /\ processed = {} /\ pass = Idle
        /\ \E l \in {None, {}} :
             /\ repo = [head |-> 0, tree |-> Files(l, {}),
                        local |-> [b \in {0} \cup Branches |-> IF b = 0 THEN Files(l, {}) ELSE None],
                        stash |-> <<>>]
             /\ remote = [branch |-> [b \in {0} \cup Branches |->
                                        IF b = 0 THEN Files(l, {}) ELSE None],
                          pr |-> [b \in Branches |-> "none"]]
        /\ excused = {} /\ faults = 0

Fault == faults < MaxFaults /\ faults' = faults + 1

-----------------------------------------------------------------------------
(* The event ring and VESSEL.                                               *)

emit(s, e) == Append(IF Len(s) >= RING_BUFFER_SIZE THEN Tail(s) ELSE s, e)

\* VESSEL merges a pull request and announces it.  The pass ends with the
\* action "deployed", which leads to LORE, unless another pull request of the
\* batch decides the action.
emit_ticket_merged(t) ==
    /\ pass.at = "idle" /\ t \notin merged
    /\ ring' = emit(ring, t) /\ merged' = merged \cup {t}
    /\ pass' \in {Idle, [Idle EXCEPT !.at = "prep"]}
    /\ UNCHANGED <<processed, repo, remote, excused, faults>>

\* The store write that takes the pull request off pending_prs is lost: VESSEL
\* finds it merged in a later pass and announces it again.
AnnouncedAgain(t) ==
    /\ pass.at = "idle" /\ t \notin merged /\ Fault
    /\ ring' = emit(ring, t)
    /\ pass' \in {Idle, [Idle EXCEPT !.at = "prep"]}
    /\ UNCHANGED <<merged, processed, repo, remote, excused>>

\* VESSEL merges a docs pull request.
DocsMerged(b) ==
    /\ pass.at = "idle" /\ remote.pr[b] = "open"
    /\ LET main == remote.branch[0]  docs == remote.branch[b]
       IN  remote' = [remote EXCEPT
             !.branch[0] = Files((IF main.log = None THEN {} ELSE main.log) \cup docs.log,
                                 main.adr \cup docs.adr),
             !.pr[b] = "merged"]
    /\ ring' = emit(ring, -b)
    /\ pass' \in {Idle, [Idle EXCEPT !.at = "prep"]}
    /\ UNCHANGED <<merged, processed, repo, excused, faults>>

\* A docs pull request with conflicts is closed.
close_docs_pr_with_conflicts(b) ==
    /\ pass.at = "idle" /\ remote.pr[b] = "open"
    /\ remote.branch[0].log # None
    /\ remote' = [remote EXCEPT !.pr[b] = "closed"]
    /\ UNCHANGED <<ring, merged, processed, pass, repo, excused, faults>>

-----------------------------------------------------------------------------
(* LORE: from announcements to tasks.                                       *)

is_docs_pr(e) == e < 0

\* A record is taken to be the ticket's when it mentions an id that starts with
\* the ticket's.
adr_exists_for_ticket(t) == repo.tree.adr \cap ({t} \cup LongerId[t]) # {}

TasksFor(t) == (IF adr_exists_for_ticket(t) THEN <<>> ELSE <<<<"adr", t>>>>) \o <<<<"changelog", t>>>>

\* Mutant: what was handled is not remembered.
ForgetsHandled(new) == processed

\* The keys of what is handled are stored before anything is written.
lore_processed_events(new) == processed \cup new

get_documentation_tasks ==
    LET new == SelectSeq(ring, LAMBDA e : e # Other /\ e \notin processed)
        features == SelectSeq(new, LAMBDA e : ~is_docs_pr(e))
        tasks == FlattenSeq([i \in 1..Len(features) |-> TasksFor(features[i])])
    IN  /\ pass.at = "prep"
        /\ processed' = lore_processed_events(Range(new))
        /\ pass' = IF tasks = <<>> THEN Idle
                   ELSE [pass EXCEPT !.at = "exec", !.todo = tasks, !.handled = Range(features)]
        /\ UNCHANGED <<ring, merged, repo, remote, excused, faults>>

-----------------------------------------------------------------------------
(* LORE: writing the files.                                                 *)

ensure_changelog_exists(files) == IF files.log = None THEN Files({}, files.adr) ELSE files

insert_entry(log, t) == log \cup {t}

\* An entry that is there already is not written again.
add_entry(files, t) == IF t \in files.log THEN files
                       ELSE [files EXCEPT !.log = insert_entry(@, t)]

process_changelog_update(files, t) == add_entry(ensure_changelog_exists(files), t)

process_adr_generation(files, t) == [files EXCEPT !.adr = @ \cup {t}]

exec ==
    /\ pass.at = "exec"
    /\ LET task == Head(pass.todo)
           rest == Tail(pass.todo)
       IN  /\ repo' = [repo EXCEPT !.tree = IF task[1] = "adr"
                                            THEN process_adr_generation(@, task[2])
                                            ELSE process_changelog_update(@, task[2])]
           /\ pass' = [pass EXCEPT !.todo = rest,
                                   !.updated = @ \/ task[1] = "changelog",
                                   !.at = IF rest = <<>> THEN "post" ELSE "exec"]
    /\ UNCHANGED <<ring, merged, processed, remote, excused, faults>>

\* A task that fails is only logged.
TaskFails ==
    /\ pass.at = "exec" /\ Fault
    /\ excused' = excused \cup {Head(pass.todo)[2]}
    /\ pass' = [pass EXCEPT !.todo = Tail(@),
                            !.at = IF Len(pass.todo) = 1 THEN "post" ELSE "exec"]
    /\ UNCHANGED <<ring, merged, processed, repo, remote>>

-----------------------------------------------------------------------------
(* LORE: the docs branch.                                                   *)

\* Mutant: the decision records are what makes a pass commit.
RecordsOnly == pass.updated /\ \E t \in pass.handled : t \in repo.tree.adr

\* A pass commits when it wrote the changelog; an outcome has no "path" at the
\* place where LORE looks for it, so records alone commit nothing.
ChangedFiles == pass.updated

\* The end of a pass: its own events follow the announcements in the ring.
Ended == /\ ring' = emit(IF pass.updated THEN emit(ring, Other) ELSE ring, Other)
         /\ pass' = Idle

\* origin's default branch.
detect_default_branch == 0

Unused == {b \in Branches : repo.local[b] = None}

\* Nothing to commit: the pass ends.
post ==
    /\ pass.at = "post" /\ ~ChangedFiles
    /\ Ended
    /\ UNCHANGED <<merged, processed, repo, remote, excused, faults>>

\* An error of a command is logged and ends the pass.
Logged == excused' = excused \cup pass.handled

Stashed == repo.tree # repo.local[repo.head]

\* The changes are stashed and a branch is made from origin's default branch, or
\* from the current one when it cannot be fetched.
CreateBranch(fetched) ==
    /\ pass.at = "post" /\ ChangedFiles /\ Unused # {}
    /\ LET b == CHOOSE b \in Unused : \A o \in Unused : b <= o
           base == IF fetched THEN remote.branch[detect_default_branch]
                   ELSE repo.local[repo.head]
       IN  /\ repo' = [head |-> b, tree |-> base, local |-> [repo.local EXCEPT ![b] = base],
                       stash |-> IF Stashed
                                 THEN <<[base |-> repo.local[repo.head], top |-> repo.tree]>> \o repo.stash
                                 ELSE repo.stash]
           /\ pass' = [pass EXCEPT !.at = "commit", !.branch = b, !.from = repo.head,
                                   !.stashed = Stashed]
    /\ IF fetched THEN UNCHANGED faults ELSE Fault
    /\ UNCHANGED <<ring, merged, processed, remote, excused>>

\* The branch cannot be made: the stash is popped where it was made.
CreateBranchFails ==
    /\ pass.at = "post" /\ ChangedFiles /\ Fault
    /\ Logged /\ Ended
    /\ UNCHANGED <<merged, processed, repo, remote>>

\* The files after "git stash pop".  A changelog that is new in the stash is not
\* restored over one the branch has (other new files may or may not be), one the
\* branch lacks is taken whole, and otherwise the entries are merged: where both
\* sides wrote at the same place, with the markers of a conflict, which the commit
\* takes as they are.
Blocked(s, tree) == s.base.log = None /\ s.top.log # None /\ tree.log # None

Popped(s, tree) ==
    LET log == IF s.top.log = s.base.log \/ Blocked(s, tree) THEN tree.log
               ELSE IF s.base.log = None \/ tree.log = None THEN s.top.log
               ELSE tree.log \cup (s.top.log \ s.base.log)
        adr == tree.adr \cup (s.top.adr \ s.base.adr)
    IN  {Files(log, adr)} \cup (IF Blocked(s, tree) THEN {tree} ELSE {})

Clean(s, tree) == s.base.log = tree.log

\* The stash is popped, and everything in the work tree is committed.  git says
\* on its standard output that there is nothing to commit, and LORE reads its
\* standard error: this ends as a failure too.
Commit ==
    /\ pass.at = "commit"
    /\ \E tree \in IF pass.stashed THEN Popped(Head(repo.stash), repo.tree) ELSE {repo.tree} :
         LET kept == IF pass.stashed /\ Clean(Head(repo.stash), repo.tree)
                     THEN Tail(repo.stash) ELSE repo.stash
         IN  IF tree = repo.local[pass.branch]
             THEN /\ repo' = [repo EXCEPT !.tree = tree, !.stash = kept]
                  /\ Logged /\ Ended
             ELSE /\ repo' = [repo EXCEPT !.tree = tree, !.stash = kept, !.local[pass.branch] = tree]
                  /\ IF pass.stashed /\ Blocked(Head(repo.stash), repo.tree) THEN Logged
                     ELSE UNCHANGED excused
                  /\ pass' = [pass EXCEPT !.at = "push"] /\ UNCHANGED ring
    /\ UNCHANGED <<merged, processed, remote, faults>>

\* The branch is pushed, and the work tree returns to where it was.
Push(restored) ==
    /\ pass.at = "push"
    /\ remote' = [remote EXCEPT !.branch[pass.branch] = repo.local[pass.branch]]
    /\ IF restored THEN /\ repo' = [repo EXCEPT !.head = pass.from, !.tree = repo.local[pass.from]]
                        /\ UNCHANGED faults
       ELSE UNCHANGED repo /\ Fault
    /\ pass' = [pass EXCEPT !.at = "open"]
    /\ UNCHANGED <<ring, merged, processed, excused>>

\* The push fails: the work tree stays on the docs branch.
PushFails ==
    /\ pass.at = "push" /\ Fault
    /\ Logged /\ Ended
    /\ UNCHANGED <<merged, processed, repo, remote>>

open_docs_pr ==
    /\ pass.at = "open"
    /\ remote' = [remote EXCEPT !.pr[pass.branch] = "open"]
    /\ Ended
    /\ UNCHANGED <<merged, processed, repo, excused, faults>>

\* GitHub fails, or refuses the branch: its name is taken from the clock twice,
\* and the second that was pushed may be another than the one asked for.
OpenFails ==
    /\ pass.at = "open" /\ Fault
    /\ Logged /\ Ended
    /\ UNCHANGED <<merged, processed, repo, remote>>

\* The controller ends, and its event ring with it.
Restart ==
    /\ Fault
    /\ ring' = <<>> /\ pass' = Idle
    /\ excused' = excused \cup pass.handled
    /\ UNCHANGED <<merged, processed, repo, remote>>

-----------------------------------------------------------------------------

Next == \/ \E t \in Tickets : emit_ticket_merged(t) \/ AnnouncedAgain(t)
        \/ \E b \in Branches : DocsMerged(b) \/ close_docs_pr_with_conflicts(b)
        \/ get_documentation_tasks \/ exec \/ TaskFails
        \/ post \/ CreateBranch(TRUE) \/ CreateBranch(FALSE) \/ CreateBranchFails
        \/ Commit \/ Push(TRUE) \/ Push(FALSE) \/ PushFails
        \/ open_docs_pr \/ OpenFails \/ Restart

Spec == Init /\ [][Next]_vars

-----------------------------------------------------------------------------

(* The ring stays within its size, and a pass only ever handles announced   *)
(* tickets.                                                                 *)
TypeOK == /\ Len(ring) <= RING_BUFFER_SIZE
          /\ Range(ring) \subseteq {Other} \cup Tickets \cup {-b : b \in Branches}
          /\ merged \subseteq Tickets /\ excused \subseteq Tickets
          /\ processed \subseteq Tickets \cup {-b : b \in Branches}
          /\ pass.at \in {"idle", "prep", "exec", "post", "commit", "push", "open"}
          /\ pass.handled \subseteq Tickets
          /\ repo.head \in {0} \cup Branches

\* The docs branches whose pull request was opened and not closed.
Published == {b \in Branches : remote.pr[b] \in {"open", "merged"}}

(* A ticket that LORE has ticked off is in a docs pull request, with its    *)
(* entry and its record, unless the pass that handled it logged a failure   *)
(* or was cut short; a record may be missing where a ticket with a longer   *)
(* id has one.  (lib.rs prep: the ticket is ticked off first.)              *)
NoSilentLoss ==
    pass.at \in {"idle", "prep"} =>
      \A t \in (processed \cap Tickets) \ excused :
        \E b \in Branches :
          /\ remote.pr[b] # "none"
          /\ t \in remote.branch[b].log
          /\ t \in remote.branch[b].adr \/ LongerId[t] # {}

(* However often a merge was announced, two docs pull requests never write  *)
(* the entry of one ticket, unless the second starts from a default branch  *)
(* that has it.  (lib.rs post returns the work tree to the branch it was    *)
(* on; once a failure leaves it on a docs branch, it stays on one.)         *)
DocumentedOnce ==
    repo.head = 0 =>
      \A b, c \in Published : b < c /\ remote.pr[b] = "open" =>
        remote.branch[b].log \cap remote.branch[c].log
          \subseteq (IF remote.branch[0].log = None THEN {} ELSE remote.branch[0].log)
=============================================================================
