------------------------------ MODULE CiVerdict ------------------------------
(***************************************************************************)
(* What VESSEL concludes about the head of a pull request from GitHub      *)
(* (github/src/rest.rs, agent-vessel/src/ci_poller.rs, pr_monitor.rs).     *)
(* The combined commit status, the pages of check suites, the mergeability *)
(* and the pages of reviews are separate requests, and checks start, end,  *)
(* are re-run and are reviewed upon between them.  The properties relate   *)
(* the conclusion to what GitHub held while the requests were being made.  *)
(***************************************************************************)
EXTENDS Integers, Sequences, FiniteSets

CONSTANTS PageSize,      \* entries of a page (100 in the code)
          max_attempts,  \* readings of the CI verdict before giving up
          CheckInterval, \* MERGEABLE_CHECK_INTERVAL
          MaxSuites, MaxReviews,  \* bounds on what GitHub holds
          MaxChanges,    \* bound on the changes made while VESSEL reads
          MaxFaults      \* bound on requests that fail beyond the retries

VARIABLES suites,     \* check suites of the head, in the order of creation
          status,     \* combined status of the head: [count, state, open]
          conflicts,  \* GitHub's mergeable flag: "unknown", "no", "yes"
          reviews,    \* reviews in the order of submission
          reader,     \* VESSEL: where it is, what it has read, its conclusion
          seen,       \* ghosts: what has lasted since a reading began
          changes, faults

vars == <<suites, status, conflicts, reviews, reader, seen, changes, faults>>

-----------------------------------------------------------------------------
(* What GitHub holds.                                                       *)

\* "actions" is GitHub Actions; "idle" an installed app that runs no checks
\* here (OpenFlows itself, Devin, an unconfigured SonarCloud).
Apps == {"actions", "idle"}

\* "bare" is queued with a run count of zero; "stale" is a completed suite
\* whose conclusion is none of those the code names.
SuiteStates == {"bare", "queued", "in_progress", "success", "failure", "stale"}

Suite == [app : Apps, state : SuiteStates]

States == {"pending", "success", "failure", "error"}

\* "owner" may approve; a "guest" is not an authorized reviewer.
Reviewers == {"owner", "guest"}

Review == [user : Reviewers, state : {"APPROVED", "CHANGES_REQUESTED", "COMMENTED"}]

\* A suite GitHub makes for every installed app and that nothing will ever run.
Idle(s) == s.app = "idle" /\ s.state = "bare"

\* The sources of the verdict that are at odds with a green head now: 0 is
\* the combined status, i the i-th suite.
Unsuccessful ==
  {i \in DOMAIN suites : ~Idle(suites[i]) /\ suites[i].state # "success"}
    \cup (IF status.open /\ status.count > 0 /\ status.state # "success" THEN {0} ELSE {})

\* The verdict of a reviewer is the last of theirs that is not a comment.
Verdicts(u) == SelectSeq(reviews, LAMBDA r : r.user = u /\ r.state # "COMMENTED")

Vetoes == {u \in Reviewers : LET v == Verdicts(u)
                             IN  v # <<>> /\ v[Len(v)].state = "CHANGES_REQUESTED"}

Approvers == {u \in Reviewers : LET v == Verdicts(u)
                                IN  v # <<>> /\ v[Len(v)].state = "APPROVED"}

-----------------------------------------------------------------------------
(* The pure part of the reading.                                            *)

map_status_state(s) == IF s \in {"pending", "success", "failure", "error"} THEN s ELSE "pending"

\* The set of the sources that report; a source that does not is left out.
aggregate_ci_sources(sources) ==
  IF sources \cap {"failure", "error"} # {} THEN "failure"
  ELSE IF "pending" \in sources \/ sources = {} THEN "pending" ELSE "success"

\* Mutant: every suite counts, also one that will never run.
NeverGhost(s) == FALSE

is_ghost_check_suite(s) ==
  /\ s.state \notin {"success", "failure", "stale"}
  /\ s.state # "in_progress"
  /\ s.state = "bare"
  /\ s.app # "actions"

Observed(s) ==
  CASE s.state = "success" -> "success"
    [] s.state = "failure" -> "failure"
    [] OTHER -> "pending"

\* The verdict of get_ci_status on what its requests returned; `combined` is
\* the set of the combined status, empty when there is none.
CiStatus(combined, got) ==
  LET active == SelectSeq(got, LAMBDA s : ~is_ghost_check_suite(s))
      checks == IF active = <<>> THEN {}
                ELSE {aggregate_ci_sources({"success"} \cup {Observed(active[i]) : i \in DOMAIN active})}
  IN  aggregate_ci_sources(combined \cup checks)

\* Mutant: the newest review of a reviewer counts, whatever it is.
NewestPerUser(got) ==
  [u \in Reviewers |-> LET mine == SelectSeq(got, LAMBDA r : r.user = u)
                       IN  IF mine = <<>> THEN "none" ELSE mine[Len(mine)].state]

\* The review kept for each reviewer: a verdict beats a comment, of two
\* verdicts or two comments the newer one stays.
latest_review_per_user(got) ==
  [u \in Reviewers |->
     LET mine == SelectSeq(got, LAMBDA r : r.user = u)
         said == SelectSeq(mine, LAMBDA r : r.state # "COMMENTED")
     IN  IF mine = <<>> THEN "none"
         ELSE IF said # <<>> THEN said[Len(said)].state ELSE "COMMENTED"]

\* candidate_review_state for a head that no rework preceded, and the states of
\* classify_from_parts that are left once CI has succeeded.
Classified(got) ==
  LET latest == latest_review_per_user(got)
  IN  IF \E u \in Reviewers : latest[u] = "CHANGES_REQUESTED" THEN "changes_requested"
      ELSE IF latest["owner"] = "APPROVED" THEN "ready_for_merge" ELSE "needs_review"

\* Mutant: the first page is taken for the whole list.
FirstPageOnly(list, page) == TRUE

\* A page with fewer entries than were asked for is the last one.
ShortPage(list, page) == Len(list) < page * PageSize

Page(list, page) ==
  SubSeq(list, (page - 1) * PageSize + 1, IF Len(list) < page * PageSize THEN Len(list) ELSE page * PageSize)

-----------------------------------------------------------------------------
(* VESSEL.                                                                  *)

Init ==
  /\ suites \in {<<>>} \cup {<<[app |-> a, state |-> "bare"]>> : a \in Apps}
  /\ status \in [count : {1}, state : {"success"}, open : BOOLEAN]
                \cup [count : {0}, state : {"pending"}, open : {TRUE}]
  /\ conflicts \in {"unknown", "no"} /\ reviews = <<>>
  /\ reader = [at |-> "idle", attempts |-> 0, page |-> 1, combined |-> {}, got |-> <<>>, said |-> "none"]
  /\ seen = [bad |-> {}, odd |-> FALSE, silent |-> FALSE, conflict |-> FALSE,
             veto |-> {}, approved |-> {}]
  /\ changes = 0 /\ faults = 0

GitHub == <<suites, status, conflicts, reviews, changes>>

\* The poll and the classification keep nothing but their conclusion.
Concluded(what) ==
  [reader EXCEPT !.at = "done", !.said = what, !.page = 1, !.combined = {}, !.got = <<>>]

Conclude(what) == reader' = Concluded(what)

\* A request that still fails after its retries aborts the poll: get_ci_status
\* and check_mergeability return the error to the batch.
Fails ==
  /\ faults < MaxFaults /\ reader.at \in {"status", "suites", "mergeable"}
  /\ faults' = faults + 1 /\ Conclude("error")
  /\ UNCHANGED <<GitHub, seen>>

\* poll_until_terminal begins.
Begin ==
  /\ reader.at = "idle" /\ reader' = [reader EXCEPT !.at = "status"]
  /\ seen' = [seen EXCEPT !.conflict = conflicts = "yes"]
  /\ UNCHANGED <<GitHub, faults>>

GiveUp ==
  /\ reader.at = "status" /\ reader.attempts >= max_attempts
  /\ Conclude("timeout") /\ UNCHANGED <<GitHub, seen, faults>>

\* GET .../commits/{sha}/status: forbidden to the app, or without entries, it
\* is no source.
ReadStatus ==
  /\ reader.at = "status" /\ reader.attempts < max_attempts
  /\ reader' = [reader EXCEPT
       !.at = "suites", !.page = 1, !.got = <<>>,
       !.combined = IF status.open /\ status.count > 0 THEN {map_status_state(status.state)} ELSE {}]
  /\ seen' = [seen EXCEPT !.bad = Unsuccessful, !.odd = Unsuccessful # {}]
  /\ UNCHANGED <<GitHub, faults>>

\* A page of check suites; the last one settles this reading.
ReadSuites ==
  /\ reader.at = "suites"
  /\ LET got     == reader.got \o Page(suites, reader.page)
         ci      == CiStatus(reader.combined, got)
         settled == [reader EXCEPT !.page = 1, !.combined = {}, !.got = <<>>]
     IN  IF ~ShortPage(suites, reader.page)
         THEN reader' = [reader EXCEPT !.got = got, !.page = @ + 1] /\ UNCHANGED seen
         ELSE /\ reader' =
                   IF ci = "success" THEN [settled EXCEPT !.at = "reviews"]
                   ELSE IF ci = "failure" THEN Concluded("ci_failed")
                   ELSE IF reader.attempts % CheckInterval = 0
                   THEN [settled EXCEPT !.at = "mergeable"]
                   ELSE [settled EXCEPT !.at = "status", !.attempts = @ + 1]
              /\ seen' = [seen EXCEPT
                   !.silent = reader.combined = {} /\ \A i \in DOMAIN got : Idle(got[i])]
  /\ UNCHANGED <<GitHub, faults>>

\* check_mergeability, then the sleep before the next attempt.
ReadMergeable ==
  /\ reader.at = "mergeable"
  /\ IF conflicts = "yes" THEN Conclude("conflicts")
     ELSE reader' = [reader EXCEPT !.at = "status", !.attempts = @ + 1]
  /\ UNCHANGED <<GitHub, seen, faults>>

\* A page of reviews; the last one settles the classification.  A listing that
\* fails counts as no reviews at all.
ReadReviews ==
  /\ reader.at = "reviews"
  /\ LET got == reader.got \o Page(reviews, reader.page)
     IN  IF ShortPage(reviews, reader.page) THEN Conclude(Classified(got))
         ELSE reader' = [reader EXCEPT !.got = got, !.page = @ + 1]
  /\ seen' = IF reader.page = 1 THEN [seen EXCEPT !.veto = Vetoes, !.approved = Approvers]
             ELSE seen
  /\ UNCHANGED <<GitHub, faults>>

ReviewsFail ==
  /\ reader.at = "reviews" /\ faults < MaxFaults
  /\ faults' = faults + 1 /\ Conclude(Classified(<<>>))
  /\ UNCHANGED <<GitHub, seen>>

-----------------------------------------------------------------------------
(* GitHub, between any two requests.                                        *)

\* What has lasted since the reading began, once the checks have changed.
Lasting ==
  /\ changes < MaxChanges /\ changes' = changes + 1
  /\ reader.at \in {"status", "suites", "mergeable"}
  /\ seen' = [seen EXCEPT !.bad = @ \cap Unsuccessful', !.odd = @ \/ Unsuccessful' # {},
                          !.conflict = @ /\ conflicts' = "yes"]
  /\ UNCHANGED <<reviews, reader, faults>>

SuiteCreated ==
  /\ Len(suites) < MaxSuites
  /\ \E a \in Apps : suites' = Append(suites, [app |-> a, state |-> "bare"])
  /\ UNCHANGED <<status, conflicts>> /\ Lasting

\* A suite gains runs, starts, ends, or is run again.
Follows(s) ==
  CASE s = "bare" -> {"queued", "in_progress", "failure"}
    [] s = "queued" -> {"in_progress"}
    [] s = "in_progress" -> {"success", "failure", "stale"}
    [] OTHER -> {"queued"}

SuiteMoves ==
  /\ \E i \in DOMAIN suites : \E s \in Follows(suites[i].state) :
       suites' = [suites EXCEPT ![i].state = s]
  /\ UNCHANGED <<status, conflicts>> /\ Lasting

StatusReported ==
  /\ \E s \in States : status' = [status EXCEPT !.count = 1, !.state = s] /\ status' # status
  /\ UNCHANGED <<suites, conflicts>> /\ Lasting

\* GitHub finishes computing mergeability, or the base branch moves.
MergeabilityComputed ==
  /\ conflicts' \in {"no", "yes"} \ {conflicts}
  /\ UNCHANGED <<suites, status>> /\ Lasting

\* Nothing reads the reviews before they are listed, and nothing reads the
\* checks after: the reviews come when the poll is over, in the behaviours in
\* which no check changed.
Reviewed ==
  /\ reader.at = "reviews" /\ changes = 0 /\ Len(reviews) < MaxReviews
  /\ \E r \in Review : reviews' = Append(reviews, r)
  /\ seen' = [seen EXCEPT !.veto = @ \cap Vetoes', !.approved = @ \cup Approvers']
  /\ UNCHANGED <<suites, status, conflicts, reader, changes, faults>>

Next ==
  \/ Begin \/ GiveUp \/ ReadStatus \/ ReadSuites \/ ReadMergeable \/ ReadReviews
  \/ Fails \/ ReviewsFail
  \/ SuiteCreated \/ SuiteMoves \/ StatusReported \/ MergeabilityComputed \/ Reviewed

Spec == Init /\ [][Next]_vars

-----------------------------------------------------------------------------
TypeOK ==
  /\ suites \in Seq(Suite) /\ Len(suites) <= MaxSuites
  /\ status \in [count : {0, 1}, state : States, open : BOOLEAN]
  /\ conflicts \in {"unknown", "no", "yes"}
  /\ reviews \in Seq(Review) /\ Len(reviews) <= MaxReviews
  /\ reader.at \in {"idle", "status", "suites", "mergeable", "reviews", "done"}
  /\ reader.attempts \in 0..max_attempts /\ reader.combined \subseteq States
  /\ seen.bad \subseteq 0..MaxSuites /\ seen.veto \subseteq Reviewers
  /\ changes \in 0..MaxChanges /\ faults \in 0..MaxFaults

(* VESSEL goes on from CI to the reviews only when every source of the head *)
(* that existed when the reading began was seen to be green during it: no   *)
(* real suite and no reported status stayed pending or failed throughout,   *)
(* on whichever page it was (get_ci_status).                                *)
GreenIsGreen ==
  reader.at # "reviews" /\ reader'.at = "reviews" => seen.bad = {}

(* A pull request is classified ready for merge only when no reviewer has    *)
(* requested changes since before the reviews were listed, a plain comment   *)
(* withdrawing nothing, and an authorized reviewer approved it meanwhile     *)
(* (list_pr_reviews, latest_review_per_user, classify).                      *)
NoVetoMissed ==
  reader.said = "ready_for_merge" => seen.veto = {} /\ "owner" \in seen.approved

(* The poll gives up only after its last reading met a real source that was  *)
(* not green or found none that reports, and never on a pull request that    *)
(* conflicted all along: suites of apps that run nothing do not hold it up   *)
(* (is_ghost_check_suite, poll_until_terminal).                              *)
TimeoutIsEarned ==
  reader.said = "timeout" => (seen.odd \/ seen.silent) /\ ~seen.conflict
=============================================================================
