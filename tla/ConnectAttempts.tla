-------------------------- MODULE ConnectAttempts --------------------------
(***************************************************************************)
(* A connection attempt (connections/service.rs, attempts.rs, binding.rs): *)
(* an admin starts it, the browser comes back on an OAuth leg and on a     *)
(* setup leg in either order or at once, and the leg that finds both       *)
(* proofs binds the installation to the organization.  Attempts have a     *)
(* deadline, and admins lose their role.  What happens to the connection   *)
(* afterwards is in ConnectionAccess.                                      *)
(***************************************************************************)
EXTENDS Integers

CONSTANTS Orgs, Attempts

VARIABLES attempt,   \* github_connect_attempts rows
          leg,       \* the two callback handlers of each attempt
          admin,     \* organizations whose initiating user is an active admin
          bound,     \* the organization of the github_connections row, or None
          binds      \* history: connections made by each attempt

vars == <<attempt, leg, admin, bound, binds>>

None == "none"
Legs == Attempts \X {"oauth", "setup"}

AttemptStatus == {"absent", "pending", "consumed", "expired"}
AttemptRow == [org : Orgs \cup {None}, status : AttemptStatus, late : BOOLEAN,
               oauth : BOOLEAN, setup : BOOLEAN, credential : BOOLEAN]
NoAttempt == [org |-> None, status |-> "absent", late |-> FALSE, oauth |-> FALSE,
              setup |-> FALSE, credential |-> FALSE]
Steps == {"idle", "resolved", "proved", "observed", "done"}

Init == /\ attempt = [a \in Attempts |-> NoAttempt]
        /\ leg = [l \in Legs |-> [step |-> "idle", saw |-> None]]
        /\ admin = Orgs
        /\ bound = None
        /\ binds = [a \in Attempts |-> 0]

start_connect(a, org) ==
    /\ attempt[a].status = "absent" /\ org \in admin
    /\ \A b \in Attempts : b < a => attempt[b].status # "absent"  \* ids are interchangeable
    /\ a = 1 => org = CHOOSE o \in Orgs : TRUE                     \* and so are organizations
    /\ attempt' = [attempt EXCEPT ![a] = [NoAttempt EXCEPT !.org = org, !.status = "pending"]]
    /\ UNCHANGED <<leg, admin, bound, binds>>

Usable(a) == attempt[a].status = "pending" /\ ~attempt[a].late

\* resolve_oauth, resolve_setup and the admin check, before the GitHub calls.
ResolveLeg(l) ==
    /\ leg[l].step = "idle" /\ Usable(l[1]) /\ ~attempt[l[1]][l[2]]
    /\ attempt[l[1]].org \in admin
    /\ leg' = [leg EXCEPT ![l].step = "resolved"]
    /\ UNCHANGED <<attempt, admin, bound, binds>>

\* Mutant: the proof is stored without looking at the attempt again.
MayConsumeAnyAttempt(a) == TRUE

MayConsumeProof(a) == Usable(a)

consume_oauth_proof_in_tx(a) ==
    [attempt EXCEPT ![a].oauth = TRUE, ![a].credential = TRUE]
consume_setup_proof_in_tx(a) == [attempt EXCEPT ![a].setup = TRUE]

\* Both proofs there: bind.  Otherwise the other leg will.
oauth_callback(l) ==
    /\ l[2] = "oauth" /\ leg[l].step = "resolved"
    /\ IF MayConsumeProof(l[1])
         THEN /\ attempt' = consume_oauth_proof_in_tx(l[1])
              /\ leg' = [leg EXCEPT ![l].step = "proved"]
         ELSE /\ leg' = [leg EXCEPT ![l].step = "done"] /\ UNCHANGED attempt
    /\ UNCHANGED <<admin, bound, binds>>

setup_callback(l) ==
    /\ l[2] = "setup" /\ leg[l].step = "resolved"
    /\ IF MayConsumeProof(l[1])
         THEN /\ attempt' = consume_setup_proof_in_tx(l[1])
              /\ leg' = [leg EXCEPT ![l].step = "proved"]
         ELSE /\ leg' = [leg EXCEPT ![l].step = "done"] /\ UNCHANGED attempt
    /\ UNCHANGED <<admin, bound, binds>>

\* maybe_bind reads the attempt again; bind reads the connection and asks GitHub.
maybe_bind(l) ==
    LET a == attempt[l[1]] IN
    /\ leg[l].step = "proved"
    /\ leg' = [leg EXCEPT ![l] = IF a.oauth /\ a.setup /\ a.credential
                 THEN [step |-> "observed", saw |-> bound] ELSE [@ EXCEPT !.step = "done"]]
    /\ UNCHANGED <<attempt, admin, bound, binds>>

\* Mutant: a used attempt can be consumed again.
ConsumableTwice(a) == ~attempt[a].late

consume_attempt_in_tx(a) == Usable(a)

\* Mutant: the connection is upserted under the installation id.
MayInsertOver(l) == TRUE

\* The unique (app_id, installation_id): an absent row, or this organization's
\* row, which must have been there when the proofs were taken.
MayBind(l) == \/ bound = None
              \/ bound = attempt[l[1]].org /\ leg[l].saw = bound

\* The binding transaction: admin, connection row, attempt.
bind(l) ==
    LET a == l[1] IN
    /\ leg[l].step = "observed"
    /\ IF attempt[a].org \in admin /\ MayBind(l) /\ consume_attempt_in_tx(a)
         THEN /\ bound' = attempt[a].org
              /\ attempt' = [attempt EXCEPT ![a].status = "consumed", ![a].credential = FALSE]
              /\ binds' = [binds EXCEPT ![a] = @ + 1]
         ELSE UNCHANGED <<bound, attempt, binds>>
    /\ leg' = [leg EXCEPT ![l] = [step |-> "done", saw |-> None]]
    /\ UNCHANGED admin

Deadline(a) == /\ Usable(a)
               /\ attempt' = [attempt EXCEPT ![a].late = TRUE]
               /\ UNCHANGED <<leg, admin, bound, binds>>

expire_attempts ==
    /\ \E a \in Attempts : attempt[a].status = "pending" /\ attempt[a].late
    /\ attempt' = [a \in Attempts |-> IF attempt[a].status = "pending" /\ attempt[a].late
                     THEN [attempt[a] EXCEPT !.status = "expired", !.credential = FALSE]
                     ELSE attempt[a]]
    /\ UNCHANGED <<leg, admin, bound, binds>>

\* Bound: one organization loses its admin in a behaviour.
AdminRemoved(org) == /\ admin = Orgs
                     /\ admin' = admin \ {org}
                     /\ UNCHANGED <<attempt, leg, bound, binds>>

Next == \/ \E a \in Attempts : Deadline(a) \/ \E org \in Orgs : start_connect(a, org)
        \/ \E l \in Legs : \/ ResolveLeg(l) \/ oauth_callback(l) \/ setup_callback(l)
                           \/ maybe_bind(l) \/ bind(l)
        \/ expire_attempts
        \/ \E org \in Orgs : AdminRemoved(org)

Spec == Init /\ [][Next]_vars

TypeOK == /\ attempt \in [Attempts -> AttemptRow]
          /\ leg \in [Legs -> [step : Steps, saw : Orgs \cup {None}]]
          /\ bound \in Orgs \cup {None}

(* The two legs of an attempt may both see complete proofs and both bind;   *)
(* consume_attempt_in_tx lets one of them through.                          *)
OneBindPerAttempt == \A a \in Attempts : binds[a] <= 1

(* An attempt that was consumed or expired keeps no user credential, also   *)
(* when a callback is at GitHub while expire_attempts runs                  *)
(* (consume_oauth_proof_in_tx looks at the status again).                   *)
SpentAttemptKeepsNothing ==
    \A a \in Attempts : attempt[a].status \in {"consumed", "expired"} => ~attempt[a].credential

(* An installation stays with the organization that bound it first,         *)
(* whatever the other organization's attempts and legs do meanwhile (bind). *)
BoundForGood == bound # None => bound' = bound
=============================================================================
