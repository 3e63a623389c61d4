------------------------- MODULE LocalCredentials -------------------------
(***************************************************************************)
(* The GitHub user credentials of a local installation                     *)
(* (auth/local_credentials.rs, auth/local_github.rs): one file, shared by  *)
(* the Manager's requests and the command line, whose refresh token GitHub *)
(* replaces on every use.  A mutex orders the requests of one process and  *)
(* a lock file those of different processes.  A process may crash between  *)
(* any two steps, and GitHub's answer or the write may fail.  The device   *)
(* login of the command line polls GitHub at a pace GitHub may slow down.  *)
(***************************************************************************)
EXTENDS Integers, FiniteSets

CONSTANTS Callers,     \* tasks that use the file
          ProcessOf,   \* the process of each task
          MaxPairs,    \* bound: token pairs GitHub issues
          MaxFaults,   \* bound: crashes and failed writes
          Deadline     \* expires_in of the device code, in units of five seconds

VARIABLES file,      \* the stored pair, 0 when there is no file
          due,       \* its access token ends within the hour
          accepted,  \* refresh tokens GitHub accepts
          issued,
          caller,    \* stage and pair of each task
          broken,    \* history: a pair was lost between GitHub and the file
          key,       \* the broker key file: absent, empty or the n-th key written
          keys,
          pace,      \* the device login of the command line
          faults

vars == <<file, due, accepted, issued, caller, broken, key, keys, pace, faults>>

Idle == [stage |-> "idle", pair |-> 0]

NoPace == [stage |-> "idle", interval |-> 1, required |-> 1, elapsed |-> 0]

Init == /\ file = 0 /\ due = FALSE /\ accepted = {} /\ issued = 0
        /\ caller = [c \in Callers |-> Idle]
        /\ broken = FALSE
        /\ key = "absent" /\ keys = 0
        /\ pace = NoPace
        /\ faults = 0

Goes(c, stage, pair) == caller' = [caller EXCEPT ![c] = [stage |-> stage, pair |-> pair]]
Locked == {"locked", "renewed", "saving"}

\* refresh_lock and lock_file.
lock_file(c) == \A o \in Callers \ {c} : caller[o].stage \notin Locked

\* Within the hour of the access token's end, once the pair has been used for a while.
Ages == /\ file # 0 /\ ~due /\ due' = TRUE
        /\ UNCHANGED <<file, accepted, issued, caller, broken, key, keys, pace, faults>>

----------------------------------------------------------------------------
(* The stored pair.                                                        *)

\* A pair that need not be renewed is returned under the lock without a change.
access_token(c) == /\ caller[c] = Idle /\ lock_file(c)
                   /\ file # 0 /\ due
                   /\ Goes(c, "locked", file)
                   /\ UNCHANGED <<file, due, accepted, issued, broken, key, keys, pace, faults>>

\* GitHub replaces the pair it is shown, refuses a used one, or is unavailable.
refresh(c) == /\ caller[c].stage = "locked"
              /\ \/ /\ caller[c].pair \in accepted /\ issued < MaxPairs
                    /\ issued' = issued + 1
                    /\ accepted' = (accepted \ {caller[c].pair}) \cup {issued + 1}
                    /\ Goes(c, "renewed", issued + 1)
                 \/ Goes(c, "idle", 0) /\ UNCHANGED <<accepted, issued>>
              /\ UNCHANGED <<file, due, broken, key, keys, pace, faults>>

\* Mutant: a renewal keeps the refresh token it used.
KeepsRefresh(c) == IF file = 0 THEN caller[c].pair ELSE file

StoredCredentials(c) == caller[c].pair

\* A temporary file, synced, then renamed over the stored one.
write(c) == /\ caller[c].stage \in {"renewed", "saving"}
            /\ \/ file' = StoredCredentials(c) /\ due' = FALSE /\ UNCHANGED <<broken, faults>>
               \/ /\ faults < MaxFaults /\ faults' = faults + 1
                  /\ broken' = (broken \/ caller[c].stage = "renewed")
                  /\ UNCHANGED <<file, due>>
            /\ Goes(c, "idle", 0)
            /\ UNCHANGED <<accepted, issued, key, keys, pace>>

\* A login finished in the browser or on the command line brings a new pair.
authorized(c) == /\ caller[c] = Idle /\ issued < MaxPairs
                 /\ issued' = issued + 1 /\ accepted' = accepted \cup {issued + 1}
                 /\ Goes(c, "authorized", issued + 1)
                 /\ UNCHANGED <<file, due, broken, key, keys, pace, faults>>

save_authorization(c) == /\ caller[c].stage = "authorized" /\ lock_file(c)
                         /\ Goes(c, "saving", caller[c].pair)
                         /\ UNCHANGED <<file, due, accepted, issued, broken, key, keys, pace, faults>>

\* Mutant: the file is removed without the lock.
RemoveAnyTime(c) == TRUE

MayRemove(c) == lock_file(c)

sign_out(c) == /\ caller[c] = Idle /\ MayRemove(c) /\ file # 0
               /\ file' = 0 /\ due' = FALSE
               /\ UNCHANGED <<accepted, issued, caller, broken, key, keys, pace, faults>>

\* The kernel drops the lock of a process that ends.
Crash(c) == /\ faults < MaxFaults /\ caller[c] # Idle
            /\ faults' = faults + 1
            /\ caller' = [o \in Callers |-> IF ProcessOf[o] = ProcessOf[c] THEN Idle ELSE caller[o]]
            /\ broken' = (broken \/ \E o \in Callers : /\ ProcessOf[o] = ProcessOf[c]
                                                      /\ caller[o].stage = "renewed")
            /\ UNCHANGED <<file, due, accepted, issued, key, keys, pace>>

----------------------------------------------------------------------------
(* The broker key and the device login.                                    *)

\* Mutant: the key is created over an existing one.
OpensAny == key # "empty"

\* create_new.
CreatesKey == key = "absent"

\* An existing key is only read.
ensure_broker_key(c) ==
    /\ caller[c] = Idle /\ CreatesKey /\ keys < 2
    /\ key' = "empty" /\ Goes(c, "keying", 0)
    /\ UNCHANGED <<file, due, accepted, issued, broken, keys, pace, faults>>

WriteKey(c) == /\ caller[c].stage = "keying"
               /\ key' = "written" /\ keys' = keys + 1
               /\ Goes(c, "idle", 0)
               /\ UNCHANGED <<file, due, accepted, issued, broken, pace, faults>>

\* Mutant: GitHub's new interval is taken as it comes.
TakenAsGiven(given) == IF given = 0 THEN pace.interval ELSE given

\* The next interval after slow_down, 0 standing for an answer without one.
SlowedDown(given) == LET raised == pace.interval + 1
                         next == IF given = 0 THEN raised ELSE given
                     IN IF next > raised THEN next ELSE raised

start == /\ pace.stage = "idle"
         /\ \E i \in {0, 1} :
               pace' = [stage |-> "waiting", interval |-> IF i = 0 THEN 1 ELSE i, required |-> i,
                        elapsed |-> 0]
         /\ UNCHANGED <<file, due, accepted, issued, caller, broken, key, keys, faults>>

\* One round of the loop: sleep, give up at the deadline, poll, and obey.  GitHub
\* raises the interval it requires with every slow_down.
await_authorization ==
    /\ pace.stage = "waiting"
    /\ LET after == pace.elapsed + pace.interval IN
       IF after >= Deadline THEN pace' = [NoPace EXCEPT !.stage = "failed"]
       ELSE \/ pace' = [pace EXCEPT !.elapsed = after]
            \/ pace' = [NoPace EXCEPT !.stage = "authorized"]
            \/ \E told \in BOOLEAN :
                  pace' = [pace EXCEPT !.elapsed = after, !.required = @ + 1,
                                       !.interval = SlowedDown(IF told THEN pace.required + 1 ELSE 0)]
    /\ UNCHANGED <<file, due, accepted, issued, caller, broken, key, keys, faults>>

Next == \/ Ages \/ start \/ await_authorization
        \/ \E c \in Callers :
              \/ access_token(c) \/ refresh(c) \/ write(c) \/ authorized(c)
              \/ save_authorization(c) \/ sign_out(c) \/ Crash(c)
              \/ ensure_broker_key(c) \/ WriteKey(c)

Spec == Init /\ [][Next]_vars

----------------------------------------------------------------------------
Pairs == 0..MaxPairs

TypeOK == /\ file \in Pairs /\ due \in BOOLEAN
          /\ accepted \subseteq Pairs /\ issued \in Pairs
          /\ caller \in [Callers -> [stage : Locked \cup {"idle", "authorized", "keying"}, pair : Pairs]]
          /\ broken \in BOOLEAN
          /\ key \in {"absent", "empty", "written"} /\ keys \in 0..2
          /\ pace \in [stage : {"idle", "waiting", "authorized", "failed"},
                       interval : 1..(Deadline + 1), required : 0..(Deadline + 1), elapsed : 0..Deadline]
          /\ faults \in 0..MaxFaults

(* local_credentials.rs:3, "two agents cannot reuse a consumed GitHub      *)
(* refresh token": unless a process failed between GitHub's answer and the *)
(* write, the stored refresh token is one that GitHub accepts, or is being *)
(* replaced under the lock.                                                *)
StoredIsAccepted ==
    file # 0 /\ ~broken => \/ file \in accepted
                           \/ \E c \in Callers : caller[c].stage = "renewed"

(* local_credentials.rs:142, "so logout cannot race a refresh": credentials *)
(* that were removed come back only through a new authorization.           *)
SignedOutStays == file = 0 /\ file' # 0 => \E c \in Callers : caller[c].stage = "saving"

(* local_credentials.rs:44, "Created once": a broker key that was written, *)
(* and is mounted into workspaces, is never replaced.                      *)
KeyIsStable == keys <= 1

(* local_github.rs:245: the device login never polls faster than GitHub    *)
(* last asked for, whether or not the slow_down said how fast.             *)
PaceIsObeyed == pace.stage = "waiting" => pace.interval >= pace.required
=============================================================================
