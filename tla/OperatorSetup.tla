---------------------------- MODULE OperatorSetup ----------------------------
(***************************************************************************)
(* The setup of a Manager deployment (openflows-manager operator.rs) and   *)
(* the renewal of the Manager's own Coder token (server.rs).  Setup is     *)
(* run by an operator, by the Manager before it serves, and again every    *)
(* five minutes while it serves; it must be resumable after a crash or a   *)
(* lost answer at any point, and never run twice at once: a file lock      *)
(* refuses the second run, a Postgres advisory lock makes it wait.  So     *)
(* one run is in progress at a time and what interleaves with it is the    *)
(* failure of its own steps, the answers Coder loses, late requests, the   *)
(* passage of time and administrators of Coder.                            *)
(*                                                                         *)
(* Secrets are numbered in the order they are made.  The unit of time is   *)
(* OPERATOR_ROTATION_AGE (30 days); a setup takes no time on that scale.   *)
(***************************************************************************)
EXTENDS Integers, Sequences, FiniteSets

CONSTANTS None,
          Emails,    \* administrator addresses given on the command line or configured
          Users,     \* Coder accounts an external bootstrap credential may belong to
          Lifetime,  \* OPERATOR_TOKEN_LIFETIME_NANOS, in units of the rotation age
          MaxCalls,  \* bound: setups started
          MaxFaults, \* bound: crashes, lost answers, failed calls, revocations
          MaxTime    \* bound: clock

VARIABLES mode,    \* "filesystem" or "aws": the secret provider of the deployment
          store,   \* the durable secrets
          coder,   \* the Coder installation
          run,     \* the setup in progress, which holds the lock, or None
          serving, \* the token the running Manager uses (shared_token), or None
          renewed, \* when the Manager last finished a setup, or None
          late,    \* the name of an application whose creation is still under way, or None
          outlived,\* such a request took effect after its setup had ended
          clock, calls, faults, made

vars == <<mode, store, coder, run, serving, renewed, late, outlived, clock, calls, faults, made>>

Admin == "openflows-admin"

\* A first user that someone else created.
Other == [email |-> None, password |-> None]

\* A master key file that was created and not written (ensure_key).
Torn == 0

\* The durable deployment record (deployment.json).
Deployment == [id : 1..MaxCalls, oauth_id : Nat \cup {None}, email : Emails \cup {None},
               user : Users \cup {Admin, None}, issued : 0..MaxTime \cup {None}]

Stages == {"key", "write key", "hook", "identify", "first", "create first", "login",
           "mint", "save token", "save state", "app", "save app", "secret", "save secret"}

TypeOK ==
  /\ mode \in {"filesystem", "aws"}
  /\ store.state \in Deployment \cup {None}
  /\ {store.key, store.hook, store.password, store.token, store.secret} \subseteq Nat \cup {None}
  /\ store.saved \in 0..MaxTime
  /\ coder.first \in [email : Emails, password : Nat] \cup {None, Other}
  /\ \A i \in DOMAIN coder.tokens : coder.tokens[i].user \in Users \cup {Admin}
  /\ coder.apps \in Seq(1..MaxCalls) /\ coder.secrets \in Nat
  /\ run # None => run.who \in {"manager", "operator"} /\ run.at \in Stages /\ run.d \in Deployment
  /\ serving \in Nat \cup {None} /\ renewed \in 0..MaxTime \cup {None}
  /\ late \in 1..MaxCalls \cup {None} /\ outlived \in BOOLEAN
  /\ clock \in 0..MaxTime /\ calls \in 0..MaxCalls /\ faults \in 0..MaxFaults /\ made \in Nat

-----------------------------------------------------------------------------
(* What Coder answers.                                                       *)

Accepted(t) == coder.tokens[t].ok /\ clock - coder.tokens[t].at < Lifetime

\* operator_identity: the account of a token, None when Coder rejects it (401).
operator_identity(t) == IF Accepted(t) THEN coder.tokens[t].user ELSE None

-----------------------------------------------------------------------------
(* Steps of the setup in progress.                                           *)

\* A setup that gives up releases the lock; a Manager that was starting exits.
Bail == run' = None /\ UNCHANGED <<serving, renewed>>

To(stage) == run' = [run EXCEPT !.at = stage] /\ UNCHANGED <<serving, renewed>>

\* An installation with this email may be managed: its bootstrap password is stored,
\* or it has no operator token and Coder has no first user yet.
Claimable(d) == \/ d.email = None
                \/ store.password # None
                \/ store.token = None /\ coder.first = None

\* The same checks of the hosted setup.
ClaimableHosted(d) == d.email # None /\ store.password = None =>
                        store.token = None /\ coder.first = None

\* Mutant: the identity is made anew by every setup.
NewIdentity(new) ==
  [id |-> new, oauth_id |-> IF store.state # None THEN store.state.oauth_id ELSE None,
   email |-> IF store.state # None THEN store.state.email ELSE None,
   user |-> IF store.state # None THEN store.state.user ELSE None, issued |-> None]
\* The deployment of this installation: read, or a new one with a new identity.
read_state(new) == IF store.state # None THEN store.state
                   ELSE [id |-> new, oauth_id |-> None, email |-> None, user |-> None, issued |-> None]

\* The saved email wins over none, and differs from no other.
WithEmail(d, e) == IF d.email = None THEN [d EXCEPT !.email = e] ELSE d

\* The lock is held and the deployment is durable, its identity with it, before
\* anything else is made.
Begin(who, d) ==
  /\ run = None /\ calls < MaxCalls
  /\ calls' = calls + 1
  /\ store' = [store EXCEPT !.state = d]
  /\ run' = [who |-> who, at |-> "key", d |-> d, tok |-> None, user |-> None, password |-> None]
  /\ UNCHANGED <<mode, coder, serving, renewed, late, outlived, clock, faults, made>>

\* setup up to the first save: a second one is refused while the file lock is held.
setup(who, e) ==
  LET d == WithEmail(read_state(calls + 1), e)
  IN  /\ mode = "filesystem"
      /\ e # None => d.email = e
      /\ Claimable(d)
      /\ Begin(who, d)

\* setup_aws up to the first save: a second one waits for the advisory lock.
setup_aws(who, e) ==
  LET d == WithEmail(read_state(calls + 1), e)
  IN  /\ mode = "aws"
      /\ e # None => d.email = e
      /\ ClaimableHosted(d)
      /\ Begin(who, d)

Start(who, e) == setup(who, e) \/ setup_aws(who, e)

\* managed_bootstrap_email: the email of a deployment whose password is stored.
managed_bootstrap_email == IF store.state # None /\ store.password # None THEN store.state.email ELSE None

\* An operator runs setup, with or without an administrator address.
OperatorSetsUp == \E e \in Emails \cup {None} : Start("operator", e)

\* The Manager sets up a managed installation: before it serves, then at each interval.
ManagerSetsUp == managed_bootstrap_email # None /\ Start("manager", managed_bootstrap_email)

\* A Manager whose installation is not managed serves with the token it finds.
ManagerStarts ==
  /\ serving = None /\ store.token # None /\ managed_bootstrap_email = None
  /\ serving' = store.token
  /\ UNCHANGED <<mode, store, coder, run, renewed, late, outlived, clock, calls, faults, made>>

\* Mutant: a file that holds no key is taken for a missing one, and so is a key.
CreatesAnyway ==
  /\ run # None /\ run.at = "key" /\ mode = "filesystem"
  /\ store' = [store EXCEPT !.key = Torn] /\ To("write key")
  /\ UNCHANGED <<mode, coder, late, outlived, clock, calls, faults, made>>
\* ensure_key: an existing file must hold a key; a missing one is created, then written.
ensure_key ==
  /\ run # None /\ run.at = "key" /\ mode = "filesystem"
  /\ \/ store.key = None /\ store' = [store EXCEPT !.key = Torn] /\ To("write key")
     \/ store.key = Torn /\ Bail /\ UNCHANGED store
     \/ store.key \notin {None, Torn} /\ To("hook") /\ UNCHANGED store
  /\ UNCHANGED <<mode, coder, late, outlived, clock, calls, faults, made>>

WriteKey ==
  /\ run # None /\ run.at = "write key"
  /\ made' = made + 1
  /\ store' = [store EXCEPT !.key = made + 1]
  /\ To("hook")
  /\ UNCHANGED <<mode, coder, late, outlived, clock, calls, faults>>

\* aws_ensure_key: one put of the whole key.
aws_ensure_key ==
  /\ run # None /\ run.at = "key" /\ mode = "aws"
  /\ IF store.key = None
     THEN made' = made + 1 /\ store' = [store EXCEPT !.key = made + 1]
     ELSE UNCHANGED <<made, store>>
  /\ To("hook")
  /\ UNCHANGED <<mode, coder, late, outlived, clock, calls, faults>>

\* ensure_hook_key / aws_ensure_hook_key: created whole, kept once it is there.
ensure_hook_key ==
  /\ run # None /\ run.at = "hook"
  /\ IF store.hook = None
     THEN made' = made + 1 /\ store' = [store EXCEPT !.hook = made + 1]
     ELSE UNCHANGED <<made, store>>
  /\ To("identify")
  /\ UNCHANGED <<mode, coder, late, outlived, clock, calls, faults>>

\* Mutant: only a token that Coder rejects is replaced.
NeverDue == FALSE
\* rotate_due: the stored token of a managed installation is of the rotation age, by
\* the time its file was written.
rotate_due == run.d.email # None /\ clock - store.saved >= 1

\* The hosted one: by the time of issue in the deployment record; due when there is none.
RotateDueHosted ==
  run.d.email # None /\ (run.d.issued = None \/ clock - run.d.issued >= 1)

\* The stored token is kept when Coder accepts it for the saved account and it is not
\* due; it is replaced when it is due, missing or rejected; another account is refused.
KeepOrRotate(due) ==
  /\ run # None /\ run.at = "identify"
  /\ LET me == IF store.token = None THEN None ELSE operator_identity(store.token)
     IN  IF me = None THEN To("first")
         ELSE IF run.d.user \notin {None, me} THEN Bail
         ELSE /\ run' = [run EXCEPT !.d.user = me, !.tok = store.token,
                                    !.at = IF due THEN "first" ELSE "save state"]
              /\ UNCHANGED <<serving, renewed>>
  /\ UNCHANGED <<mode, store, coder, late, outlived, clock, calls, faults, made>>

Identify == mode = "filesystem" /\ KeepOrRotate(rotate_due)

IdentifyHosted == mode = "aws" /\ KeepOrRotate(RotateDueHosted)

\* Mutant: the password is kept in memory until the first user exists.
PasswordUnsaved ==
  /\ run # None /\ run.at = "first"
  /\ IF run.d.email # None /\ coder.first = None
     THEN /\ made' = made + 1 /\ UNCHANGED store
          /\ run' = [run EXCEPT !.at = "create first", !.password = made + 1]
          /\ UNCHANGED <<serving, renewed>>
     ELSE To("login") /\ UNCHANGED <<made, store>>
  /\ UNCHANGED <<mode, coder, late, outlived, clock, calls, faults>>
\* bootstrap / aws_bootstrap: the password of the first user is stored before the user
\* is created.
BootstrapPassword ==
  /\ run # None /\ run.at = "first"
  /\ IF run.d.email # None /\ coder.first = None
     THEN LET w == IF store.password = None THEN made + 1 ELSE store.password
          IN  /\ store' = [store EXCEPT !.password = w]
              /\ made' = IF store.password = None THEN made + 1 ELSE made
              /\ run' = [run EXCEPT !.at = "create first", !.password = w]
              /\ UNCHANGED <<serving, renewed>>
     ELSE To("login") /\ UNCHANGED <<made, store>>
  /\ UNCHANGED <<mode, coder, late, outlived, clock, calls, faults>>

\* A request takes effect; its answer arrives, or is lost and the setup gives up.
Answered(next) ==
  \/ next /\ UNCHANGED faults
  \/ faults < MaxFaults /\ faults' = faults + 1 /\ Bail

CreateFirstUser ==
  /\ run # None /\ run.at = "create first"
  /\ IF coder.first = None
     THEN coder' = [coder EXCEPT !.first = [email |-> run.d.email, password |-> run.password]]
          /\ Answered(To("login"))
     ELSE UNCHANGED <<coder, faults>> /\ Bail
  /\ UNCHANGED <<mode, store, late, outlived, clock, calls, made>>

\* Who the bootstrap credential signs in: the managed administrator by the stored
\* password, or the account of the external token.
LoggedIn(u) ==
  IF run.d.email # None
  THEN u = Admin /\ coder.first = [email |-> run.d.email, password |-> store.password]
  ELSE u \in Users /\ coder.first = Other

Login ==
  /\ run # None /\ run.at = "login"
  /\ IF \E u \in Users \cup {Admin} : LoggedIn(u)
     THEN \E u \in Users \cup {Admin} :
            /\ LoggedIn(u) /\ run' = [run EXCEPT !.user = u, !.at = "mint"]
            /\ UNCHANGED <<serving, renewed>>
     ELSE Bail
  /\ UNCHANGED <<mode, store, coder, late, outlived, clock, calls, faults, made>>

\* Mutant: whoever is signed in may own the operator token.
AnyOperator(u) == TRUE
\* The bootstrap account is the saved operator.
IsOperator(u) == run.d.user \in {None, u}

\* rotate_operator_token: a token of bounded life is minted ...
MintToken ==
  /\ run # None /\ run.at = "mint"
  /\ IF IsOperator(run.user)
     THEN /\ coder' = [coder EXCEPT !.tokens = Append(@, [user |-> run.user, at |-> clock, ok |-> TRUE])]
          /\ Answered(/\ run' = [run EXCEPT !.tok = Len(coder.tokens) + 1, !.at = "save token"]
                      /\ UNCHANGED <<serving, renewed>>)
     ELSE Bail /\ UNCHANGED <<coder, faults>>
  /\ UNCHANGED <<mode, store, late, outlived, clock, calls, made>>

\* ... and replaces the stored one; the deployment record follows with the next save.
SaveToken ==
  /\ run # None /\ run.at = "save token"
  /\ store' = [store EXCEPT !.token = run.tok, !.saved = clock]
  /\ run' = [run EXCEPT !.d.user = run.user, !.d.issued = clock, !.at = "save state"]
  /\ UNCHANGED <<mode, coder, serving, renewed, late, outlived, clock, calls, faults, made>>

\* save / aws_upsert of the deployment record.
SaveState ==
  /\ run # None /\ run.at \in {"save state", "save app"}
  /\ store' = [store EXCEPT !.state = run.d]
  /\ To(IF run.at = "save state" THEN "app" ELSE "secret")
  /\ UNCHANGED <<mode, coder, late, outlived, clock, calls, faults, made>>

\* The applications of this deployment, by the name made of its identity.
matching == {i \in DOMAIN coder.apps : coder.apps[i] = run.d.id}

\* The OAuth application: the saved one, else the only one of its name, else a new one.
Application ==
  /\ run # None /\ run.at = "app"
  /\ LET adopt(i) == /\ run' = [run EXCEPT !.d.oauth_id = i, !.at = "save app"]
                     /\ UNCHANGED <<serving, renewed>>
     IN  IF run.d.oauth_id # None THEN adopt(run.d.oauth_id) /\ UNCHANGED <<coder, faults, late>>
         ELSE IF Cardinality(matching) > 1 THEN Bail /\ UNCHANGED <<coder, faults, late>>
         ELSE IF matching # {}
         THEN adopt(CHOOSE i \in matching : TRUE) /\ UNCHANGED <<coder, faults, late>>
         ELSE \/ /\ coder' = [coder EXCEPT !.apps = Append(@, run.d.id)]
                 /\ Answered(adopt(Len(coder.apps) + 1)) /\ UNCHANGED late
              \/ /\ faults < MaxFaults /\ faults' = faults + 1 /\ late = None
                 /\ late' = run.d.id /\ Bail /\ UNCHANGED coder
  /\ UNCHANGED <<mode, store, outlived, clock, calls, made>>

\* A creation that its setup gave up waiting for is carried out by Coder.
LateApplication ==
  /\ late # None
  /\ coder' = [coder EXCEPT !.apps = Append(@, late)]
  /\ late' = None /\ outlived' = TRUE
  /\ UNCHANGED <<mode, store, run, serving, renewed, clock, calls, faults, made>>

\* The end of a setup: the Manager reads the stored token again and uses it.
Complete ==
  /\ run' = None
  /\ IF run.who = "manager" THEN serving' = store.token /\ renewed' = clock
     ELSE UNCHANGED <<serving, renewed>>

\* The client secret: kept when there is one, else made, then stored.
ClientSecret ==
  /\ run # None /\ run.at = "secret"
  /\ IF store.secret # None THEN Complete /\ UNCHANGED <<coder, faults>>
     ELSE /\ coder' = [coder EXCEPT !.secrets = @ + 1]
          /\ Answered(To("save secret"))
  /\ UNCHANGED <<mode, store, late, outlived, clock, calls, made>>

SaveSecret ==
  /\ run # None /\ run.at = "save secret"
  /\ store' = [store EXCEPT !.secret = coder.secrets]
  /\ Complete
  /\ UNCHANGED <<mode, coder, late, outlived, clock, calls, faults, made>>

-----------------------------------------------------------------------------
(* Faults, administrators and time.                                          *)

\* The setup's process stops, or one of its calls fails without effect.
SetupStops ==
  /\ run # None /\ faults < MaxFaults /\ faults' = faults + 1
  /\ run' = None
  /\ \/ run.who = "manager" /\ serving' = None /\ renewed' = None
     \/ UNCHANGED <<serving, renewed>>
  /\ UNCHANGED <<mode, store, coder, late, outlived, clock, calls, made>>

\* An administrator of Coder revokes the stored token.
Revoke ==
  /\ store.token # None /\ faults < MaxFaults /\ faults' = faults + 1
  /\ coder' = [coder EXCEPT !.tokens[store.token].ok = FALSE]
  /\ UNCHANGED <<mode, store, run, serving, renewed, late, outlived, clock, calls, made>>

Tick ==
  /\ run = None /\ clock < MaxTime
  /\ clock' = clock + 1
  /\ UNCHANGED <<mode, store, coder, run, serving, renewed, late, outlived, calls, faults, made>>

Init ==
  /\ mode \in {"filesystem", "aws"}
  /\ store = [state |-> None, key |-> None, hook |-> None, password |-> None, token |-> None,
              saved |-> 0, secret |-> None]
  /\ \E first \in {None, Other} :
        coder = [first |-> first, tokens |-> <<>>, apps |-> <<>>, secrets |-> 0]
  /\ run = None /\ serving = None /\ renewed = None /\ late = None /\ outlived = FALSE
  /\ clock = 0 /\ calls = 0 /\ faults = 0 /\ made = 0

Next == \/ OperatorSetsUp \/ ManagerSetsUp \/ ManagerStarts \/ ensure_key \/ WriteKey
        \/ aws_ensure_key \/ ensure_hook_key \/ Identify \/ IdentifyHosted
        \/ BootstrapPassword \/ CreateFirstUser \/ Login \/ MintToken \/ SaveToken \/ SaveState \/ Application
        \/ LateApplication \/ ClientSecret \/ SaveSecret \/ SetupStops \/ Revoke \/ Tick

Spec == Init /\ [][Next]_vars

-----------------------------------------------------------------------------
(* However often setup is interrupted and repeated, Coder has one            *)
(* application for the deployment: its identity, and with it the name of     *)
(* the application, is durable before anything is created.  A creation that  *)
(* outlives the setup that asked for it may add a second.                    *)
OneApplication == outlived \/ Len(coder.apps) <= 1

(* The master key that existing ciphertext depends on is never replaced,     *)
(* not even when setup starts over after a crash (ensure_key).               *)
MasterKeyKept == store.key \notin {None, Torn} => store'.key = store.key

(* A Coder installation that setup initialised is never locked out: the      *)
(* password and the address of its first user are those that every later    *)
(* setup signs in with.                                                      *)
NeverLockedOut ==
  coder.first \notin {None, Other} =>
     /\ store.password = coder.first.password
     /\ store.state # None /\ store.state.email = coder.first.email

(* The stored operator token belongs to the account the deployment record    *)
(* names, whoever is signed in when it is replaced and wherever the          *)
(* replacement was interrupted.                                              *)
OperatorIsPinned ==
  store.token # None /\ store.state.user # None =>
     coder.tokens[store.token].user = store.state.user

(* A Manager that has just renewed a managed installation uses a token       *)
(* younger than the rotation age, so most of its life is left to renew it    *)
(* again, also when an earlier renewal was cut short between storing the     *)
(* token and recording when it was issued.                                   *)
RenewedInTime ==
  renewed = clock /\ serving # None => clock - coder.tokens[serving].at < 1

=============================================================================
