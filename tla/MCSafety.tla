------------------------------ MODULE MCSafety ------------------------------
(***************************************************************************)
(* The components whose properties are invariants and properties of single *)
(* steps, in one run: a behaviour exercises one of them, the part, whose   *)
(* variables are the shared x1, x2 and so on.                              *)
(***************************************************************************)
EXTENDS Integers, FiniteSets

VARIABLES part,  \* the component this behaviour exercises
          x1, x2, x3, x4, x5, x6, x7, x8, x9, x10, x11, x12  \* its variables, in the order it declares them

CONSTANT NoValue  \* an absent value, and the value of a variable that a part does not use

\* c1 and c2 carry the state of one login: the browser repeats its callback.
LoginOfCallback == [c \in {"c1", "c2", "c3"} |-> IF c = "c3" THEN 2 ELSE 1]

\* The releases of the two replicas of a rolling deployment.
Configured == [w \in {"old", "new"} |-> IF w = "old" THEN 1 ELSE 2]

\* CI and mergeability of the commits FORGE may push: fine, or without an end of CI.
HeadsPushed == {<<"pass", FALSE>>, <<"slow", FALSE>>}

\* r1 and r2 reuse a key with different bodies, r3 has a key of its own, and r4
\* creates an organization under a key with an unfinished legacy row.
KeyOfRequest == [r \in {"r1", "r2", "r3", "r4"} |->
                   IF r = "r3" THEN "k2" ELSE IF r = "r4" THEN "k3" ELSE "k1"]
BodyOfRequest == [r \in {"r1", "r2", "r3", "r4"} |-> IF r = "r2" THEN "b2" ELSE "b1"]

ConnectAttempts == INSTANCE ConnectAttempts WITH
    attempt <- x1, leg <- x2, admin <- x3, bound <- x4, binds <- x5,
    Orgs <- {"A", "B"}, Attempts <- {1, 2}

ConnectionAccess == INSTANCE ConnectionAccess WITH
    github <- x1, binder <- x2, conn <- x3, leased <- x4, jobs <- x5, processed <- x6,
    job <- x7, moves <- x8, faulted <- x9,
    Workers <- {"w1", "w2"}, MaxGen <- 3, MaxMoves <- 3

RuntimeAccess == INSTANCE RuntimeAccess WITH
    boot <- x1, ws <- x2, session <- x3, refresher <- x4, revoker <- x5, torn <- x6,
    token <- x7, lease <- x8, exch <- x9, cache <- x10,
    Bootstraps <- {1}, Sessions <- {1, 2, 3}, Tokens <- {1},
    Exchanges <- {"e1", "e2"}, Clients <- {"c1", "c2"}, MaxGen <- 3

Idempotency == INSTANCE Idempotency WITH
    keyRow <- x1, phase <- x2, reply <- x3, keyLock <- x4, orgUpdate <- x5, orgShare <- x6,
    commits <- x7,
    Requests <- {"r1", "r2", "r3", "r4"}, Orgless <- {"r4"}, KeyOf <- KeyOfRequest,
    BodyOf <- BodyOfRequest, Legacy <- {"k3"}, MaxExpiries <- 1

Rework == INSTANCE PullRequestRework WITH
    gh <- x1, entry <- x2, rec <- x3, builder <- x4, round <- x5, spent <- x6,
    MAX_CI_FIX_ATTEMPTS <- 1, MAX_CONFLICT_RESOLUTION_ATTEMPTS <- 1,
    MAX_ADDRESS_REVIEW_ATTEMPTS <- 1, MAX_ATTEMPTS <- 2, Heads <- HeadsPushed,
    MaxFeedback <- 2, MaxMeddling <- 1

Outbox == INSTANCE Outbox WITH
    event <- x1, owned <- x2, claim <- x3, last <- x4, did <- x5,
    Events <- {1, 2}, Owning <- {1}, Workers <- {"a", "b"}, MaxMishaps <- 2

Tenants == INSTANCE TenantWorkspaces WITH
    tenantRow <- x1, wsRow <- x2, upstream <- x3, work <- x4, run <- x5, capacity <- x6,
    lostWork <- x7, mischief <- x8,
    Attempts <- {1, 2}, MaxTries <- 1, MaxWorkers <- 1,
    MaxRequests <- 2, MaxFaults <- 1

Releases == INSTANCE TemplateReleases WITH
    release <- x1, orgRec <- x2, oper <- x3, version <- x4, task <- x5, approving <- x6,
    budget <- x7,
    Releases <- {1, 2}, Roles <- {1}, Workers <- {"old", "new"}, ReleaseOf <- Configured,
    Running <- {"old"}, MaxImports <- 2, MaxPromotions <- 1, MaxFaults <- 1, MaxMoves <- 1

CliSessions == INSTANCE CliSessions WITH
    clock <- x1, web <- x2, form <- x3, request <- x4, approver <- x5, cli <- x6,
    history <- x7, rotator <- x8, leaver <- x9, ledger <- x10,
    Refreshers <- {1, 2}, VERIFY_LIMIT <- 1, RECENT_AUTH_WINDOW <- 2, DEVICE_LIFETIME <- 2,
    ACCESS_LIFETIME <- 2, REFRESH_LIFETIME <- 3, MaxClock <- 3, MaxGen <- 2, MaxSignIns <- 2

SignIn == INSTANCE SignIn WITH
    loginTx <- x1, callback <- x2, holder <- x3, users <- x4, identity <- x5, opened <- x6,
    saved <- x7,
    Logins <- {1, 2}, Callbacks <- {"c1", "c2", "c3"}, LoginOf <- LoginOfCallback,
    Polls <- {"p"}

Local == INSTANCE LocalCredentials WITH
    file <- x1, due <- x2, accepted <- x3, issued <- x4, caller <- x5, broken <- x6,
    key <- x7, keys <- x8, pace <- x9, faults <- x10,
    Callers <- {"manager", "cli"}, ProcessOf <- [c \in {"manager", "cli"} |-> c],
    MaxPairs <- 3, MaxFaults <- 1, Deadline <- 6

Organizations == INSTANCE Organizations WITH
    orgRow <- x1, member <- x2, invite <- x3, began <- x4,
    Users <- {"a", "b"}, Founder <- "a", Invites <- {1, 2}, Sessions <- {1, 2}, MaxTime <- 5

Secrets == INSTANCE TenantSecrets WITH
    provider <- x1, acl <- x2, row <- x3, secret <- x4, bundle <- x5, tenant <- x6,
    step <- x7, deleter <- x8, made <- x9, overlapped <- x10, orphan <- x11, mishap <- x12,
    Attempts <- {1, 2}, MaxSecrets <- 3, MaxFaults <- 1

Pages == INSTANCE Pages WITH
    order <- x1, table <- x2, cursor <- x3, page <- x4, listed <- x5, steady <- x6,
    edits <- x7,
    Ids <- {1, 2, 3, 4}, Keys <- {1, 2}, DEFAULT_LIMIT <- 2, MAX_LIMIT <- 3,
    Limits <- {-1, 0, 1, 5}, MaxEdits <- 1

Admission == INSTANCE TenantAdmission WITH
    orgAt <- x1, membership <- x2, access <- x3, tenantAt <- x4, admission <- x5,
    stopping <- x6, revived <- x7, changes <- x8,
    TenantIds <- {1, 2}, Repos <- {"a", "b"}, Requests <- {1, 2}, max_tenants <- 1,
    MaxChanges <- 1

Progress == INSTANCE ProgressStream WITH
    buffer <- x1, channel <- x2, channels <- x3, stream <- x4, pushes <- x5, restarts <- x6,
    Streams <- {1, 2}, MAX_EVENTS <- 1, MAX_BYTES <- 3, CHANNEL <- 1, Sizes <- {1, 4},
    MaxPushes <- 2, MaxRestarts <- 1

RelayRequests == INSTANCE RelayRequests WITH
    hookSecret <- x1, tokenHash <- x2, wsToken <- x3, relayTask <- x4, audited <- x5,
    verify <- x6, serve <- x7, told <- x8, relayFaults <- x9,
    None <- NoValue, Pairs <- {"a", "b"}, TaskIds <- {1}, MaxFaults <- 1, MaxSecrets <- 2

CoderLinks == INSTANCE CoderLinks WITH
    linkAttempt <- x1, link <- x2, vault <- x3, tokenOf <- x4, live <- x5, flow <- x6,
    renewal <- x7, crossedFlows <- x8, spentLost <- x9, linkFaults <- x10,
    Users <- {"u", "v"}, Accounts <- {"x", "y"}, Flows <- {1, 2}, MaxTokens <- 2, MaxFaults <- 1

StoreKeys == INSTANCE StoreKeys WITH
    value <- x1, index <- x2, call <- x3, sweep <- x4, rewritten <- x5, user <- x6,
    lapsed <- x7, halved <- x8, spentOn <- x9,
    Stores <- {1, 2}, MaxWrites <- 2, MaxSweeps <- 1, MaxFaults <- 1

Docs == INSTANCE Documentation WITH
    ring <- x1, merged <- x2, processed <- x3, pass <- x4, repo <- x5, remote <- x6,
    excused <- x7, faults <- x8,
    None <- NoValue, Tickets <- {1, 2}, LongerId <- [t \in {1, 2} |-> IF t = 1 THEN {2} ELSE {}], Branches <- 1..2,
    RING_BUFFER_SIZE <- 3, MaxFaults <- 2

Setup == INSTANCE OperatorSetup WITH
    mode <- x1, store <- x2, coder <- x3, run <- x4, serving <- x5, renewed <- x6,
    late <- x7, outlived <- x8, clock <- x9, calls <- x10, faults <- x11, made <- x12,
    None <- NoValue, Emails <- {"a"}, Users <- {"u", "v"}, Lifetime <- 2, MaxCalls <- 3, MaxFaults <- 2, MaxTime <- 2

CiGate == INSTANCE CiGate WITH
    setting <- x1, repo <- x2, board <- x3, slots <- x4, pass <- x5, ci_readiness <- x6,
    comments <- x7, unsure <- x8, dropped <- x9, faults <- x10, changes <- x11,
    None <- NoValue, Issues <- {1, 2}, Lookalikes <- {2}, Workers <- {"f1", "f2"}, MAX_ATTEMPTS <- 2,
    MaxFaults <- 2, MaxChanges <- 1

CiVerdict == INSTANCE CiVerdict WITH
    suites <- x1, status <- x2, conflicts <- x3, reviews <- x4, reader <- x5, seen <- x6,
    changes <- x7, faults <- x8,
    PageSize <- 1, max_attempts <- 2, CheckInterval <- 3, MaxSuites <- 2, MaxReviews <- 3,
    MaxChanges <- 3, MaxFaults <- 1

Start == INSTANCE ControllerStart WITH
    store <- x1, disk <- x2, volume <- x3, ctl <- x4, ready <- x5, seen <- x6,
    starts <- x7, crashes <- x8, edits <- x9,
    Fleets <- {"f"}, MaxStarts <- 3, MaxCrashes <- 1, MaxEdits <- 1

\* The variables that a component does not use.
After4 == <<x5, x6, x7, x8, x9, x10, x11, x12>>
After5 == <<x6, x7, x8, x9, x10, x11, x12>>
After6 == <<x7, x8, x9, x10, x11, x12>>
After7 == <<x8, x9, x10, x11, x12>>
After8 == <<x9, x10, x11, x12>>
After9 == <<x10, x11, x12>>
After10 == <<x11, x12>>
After11 == <<x12>>

Init ==
  \/ part = "connect attempts" /\ ConnectAttempts!Init /\ x6 = NoValue /\ x7 = NoValue /\ x8 = NoValue /\ x9 = NoValue /\ x10 = NoValue /\ x11 = NoValue /\ x12 = NoValue
  \/ part = "connection access" /\ ConnectionAccess!Init /\ x10 = NoValue /\ x11 = NoValue /\ x12 = NoValue
  \/ part = "runtime access" /\ RuntimeAccess!Init /\ x11 = NoValue /\ x12 = NoValue
  \/ part = "idempotency" /\ Idempotency!Init /\ x8 = NoValue /\ x9 = NoValue /\ x10 = NoValue /\ x11 = NoValue /\ x12 = NoValue
  \/ part = "rework" /\ Rework!Init /\ x7 = NoValue /\ x8 = NoValue /\ x9 = NoValue /\ x10 = NoValue /\ x11 = NoValue /\ x12 = NoValue
  \/ part = "outbox" /\ Outbox!Init /\ x6 = NoValue /\ x7 = NoValue /\ x8 = NoValue /\ x9 = NoValue /\ x10 = NoValue /\ x11 = NoValue /\ x12 = NoValue
  \/ part = "tenant workspaces" /\ Tenants!Init /\ x9 = NoValue /\ x10 = NoValue /\ x11 = NoValue /\ x12 = NoValue
  \/ part = "releases" /\ Releases!Init /\ x8 = NoValue /\ x9 = NoValue /\ x10 = NoValue /\ x11 = NoValue /\ x12 = NoValue
  \/ part = "command line sessions" /\ CliSessions!Init /\ x11 = NoValue /\ x12 = NoValue
  \/ part = "sign-in" /\ SignIn!Init /\ x8 = NoValue /\ x9 = NoValue /\ x10 = NoValue /\ x11 = NoValue /\ x12 = NoValue
  \/ part = "local credentials" /\ Local!Init /\ x11 = NoValue /\ x12 = NoValue
  \/ part = "organizations" /\ Organizations!Init /\ x5 = NoValue /\ x6 = NoValue /\ x7 = NoValue /\ x8 = NoValue /\ x9 = NoValue /\ x10 = NoValue /\ x11 = NoValue /\ x12 = NoValue
  \/ part = "tenant secrets" /\ Secrets!Init
  \/ part = "pages" /\ Pages!Init /\ x8 = NoValue /\ x9 = NoValue /\ x10 = NoValue /\ x11 = NoValue /\ x12 = NoValue
  \/ part = "tenant admission" /\ Admission!Init /\ x9 = NoValue /\ x10 = NoValue /\ x11 = NoValue /\ x12 = NoValue
  \/ part = "progress stream" /\ Progress!Init /\ x7 = NoValue /\ x8 = NoValue /\ x9 = NoValue /\ x10 = NoValue /\ x11 = NoValue /\ x12 = NoValue
  \/ part = "relay requests" /\ RelayRequests!Init /\ x10 = NoValue /\ x11 = NoValue /\ x12 = NoValue
  \/ part = "coder links" /\ CoderLinks!Init /\ x11 = NoValue /\ x12 = NoValue
  \/ part = "store keys" /\ StoreKeys!Init /\ x10 = NoValue /\ x11 = NoValue /\ x12 = NoValue
  \/ part = "documentation" /\ Docs!Init /\ x9 = NoValue /\ x10 = NoValue /\ x11 = NoValue /\ x12 = NoValue
  \/ part = "operator setup" /\ Setup!Init
  \/ part = "ci gate" /\ CiGate!Init /\ x12 = NoValue
  \/ part = "ci verdict" /\ CiVerdict!Init /\ x9 = NoValue /\ x10 = NoValue /\ x11 = NoValue /\ x12 = NoValue
  \/ part = "controller start" /\ Start!Init /\ x10 = NoValue /\ x11 = NoValue /\ x12 = NoValue

vars == <<part, x1, x2, x3, x4, x5, x6, x7, x8, x9, x10, x11, x12>>

ConnectAttemptsNext ==
  /\ part = "connect attempts" /\ ConnectAttempts!Next
  /\ UNCHANGED part /\ UNCHANGED After5

ConnectionAccessNext ==
  /\ part = "connection access" /\ ConnectionAccess!Next
  /\ UNCHANGED part /\ UNCHANGED After9

RuntimeAccessNext ==
  /\ part = "runtime access" /\ RuntimeAccess!Next
  /\ UNCHANGED part /\ UNCHANGED After10

IdempotencyNext ==
  /\ part = "idempotency" /\ Idempotency!Next
  /\ UNCHANGED part /\ UNCHANGED After7

ReworkNext ==
  /\ part = "rework" /\ Rework!Next
  /\ UNCHANGED part /\ UNCHANGED After6

OutboxNext ==
  /\ part = "outbox" /\ Outbox!Next
  /\ UNCHANGED part /\ UNCHANGED After5

TenantsNext ==
  /\ part = "tenant workspaces" /\ Tenants!Next
  /\ UNCHANGED part /\ UNCHANGED After8

ReleasesNext ==
  /\ part = "releases" /\ Releases!Next
  /\ UNCHANGED part /\ UNCHANGED After7

CliSessionsNext ==
  /\ part = "command line sessions" /\ CliSessions!Next
  /\ UNCHANGED part /\ UNCHANGED After10

SignInNext ==
  /\ part = "sign-in" /\ SignIn!Next
  /\ UNCHANGED part /\ UNCHANGED After7

LocalNext ==
  /\ part = "local credentials" /\ Local!Next
  /\ UNCHANGED part /\ UNCHANGED After10

OrganizationsNext ==
  /\ part = "organizations" /\ Organizations!Next
  /\ UNCHANGED part /\ UNCHANGED After4

SecretsNext ==
  /\ part = "tenant secrets" /\ Secrets!Next
  /\ UNCHANGED part

PagesNext ==
  /\ part = "pages" /\ Pages!Next
  /\ UNCHANGED part /\ UNCHANGED After7

AdmissionNext ==
  /\ part = "tenant admission" /\ Admission!Next
  /\ UNCHANGED part /\ UNCHANGED After8

ProgressNext ==
  /\ part = "progress stream" /\ Progress!Next
  /\ UNCHANGED part /\ UNCHANGED After6

RelayRequestsNext ==
  /\ part = "relay requests" /\ RelayRequests!Next
  /\ UNCHANGED part /\ UNCHANGED After9

CoderLinksNext ==
  /\ part = "coder links" /\ CoderLinks!Next
  /\ UNCHANGED part /\ UNCHANGED After10

StoreKeysNext ==
  /\ part = "store keys" /\ StoreKeys!Next
  /\ UNCHANGED part /\ UNCHANGED After9

DocsNext ==
  /\ part = "documentation" /\ Docs!Next
  /\ UNCHANGED part /\ UNCHANGED After8

SetupNext ==
  /\ part = "operator setup" /\ Setup!Next
  /\ UNCHANGED part

CiGateNext ==
  /\ part = "ci gate" /\ CiGate!Next
  /\ UNCHANGED part /\ UNCHANGED After11

CiVerdictNext ==
  /\ part = "ci verdict" /\ CiVerdict!Next
  /\ UNCHANGED part /\ UNCHANGED After8

StartNext ==
  /\ part = "controller start" /\ Start!Next
  /\ UNCHANGED part /\ UNCHANGED After9

Next == \/ ConnectAttemptsNext
        \/ ConnectionAccessNext
        \/ RuntimeAccessNext
        \/ IdempotencyNext
        \/ ReworkNext
        \/ OutboxNext
        \/ TenantsNext
        \/ ReleasesNext
        \/ CliSessionsNext
        \/ SignInNext
        \/ LocalNext
        \/ OrganizationsNext
        \/ SecretsNext
        \/ PagesNext
        \/ AdmissionNext
        \/ ProgressNext
        \/ RelayRequestsNext
        \/ CoderLinksNext
        \/ StoreKeysNext
        \/ DocsNext
        \/ SetupNext
        \/ CiGateNext
        \/ CiVerdictNext
        \/ StartNext

Spec == /\ Init /\ [][Next]_vars

(* Every component keeps the types of its rows, claims and messages.        *)
TypeOK == /\ (part = "connect attempts" => ConnectAttempts!TypeOK)
          /\ (part = "connection access" => ConnectionAccess!TypeOK)
          /\ (part = "runtime access" => RuntimeAccess!TypeOK)
          /\ (part = "idempotency" => Idempotency!TypeOK)
          /\ (part = "rework" => Rework!TypeOK)
          /\ (part = "outbox" => Outbox!TypeOK)
          /\ (part = "tenant workspaces" => Tenants!TypeOK)
          /\ (part = "releases" => Releases!TypeOK)
          /\ (part = "command line sessions" => CliSessions!TypeOK)
          /\ (part = "sign-in" => SignIn!TypeOK)
          /\ (part = "local credentials" => Local!TypeOK)
          /\ (part = "organizations" => Organizations!TypeOK)
          /\ (part = "tenant secrets" => Secrets!TypeOK)
          /\ (part = "pages" => Pages!TypeOK)
          /\ (part = "tenant admission" => Admission!TypeOK)
          /\ (part = "progress stream" => Progress!TypeOK)
          /\ (part = "relay requests" => RelayRequests!TypeOK)
          /\ (part = "coder links" => CoderLinks!TypeOK)
          /\ (part = "store keys" => StoreKeys!TypeOK)
          /\ (part = "documentation" => Docs!TypeOK)
          /\ (part = "operator setup" => Setup!TypeOK)
          /\ (part = "ci gate" => CiGate!TypeOK)
          /\ (part = "ci verdict" => CiVerdict!TypeOK)
          /\ (part = "controller start" => Start!TypeOK)

(* A connection attempt binds once, whichever leg finishes last.            *)
ConnectAttemptsOneBindPerAttempt == part = "connect attempts" => ConnectAttempts!OneBindPerAttempt

(* A consumed or expired attempt keeps no user credential.                  *)
ConnectAttemptsSpentAttemptKeepsNothing == part = "connect attempts" => ConnectAttempts!SpentAttemptKeepsNothing

(* An approved device request delivers one session.                         *)
CliSessionsOneDelivery == part = "command line sessions" => CliSessions!OneDelivery

(* A delivered session is freshly authenticated only while its user is.     *)
CliSessionsRecentAuthIsHonest == part = "command line sessions" => CliSessions!RecentAuthIsHonest

(* A refresh credential presented again revokes its family.                 *)
CliSessionsReuseRevokes == part = "command line sessions" => CliSessions!ReuseRevokes

(* No rotation extends a family of refresh credentials.                     *)
CliSessionsFamilyNeverExtended == part = "command line sessions" => CliSessions!FamilyNeverExtended

(* The verification attempts of a window are bounded.                       *)
CliSessionsAttemptsBounded == part = "command line sessions" => CliSessions!AttemptsBounded

(* A login opens one browser session.                                       *)
SignInOneSessionPerLogin == part = "sign-in" => SignIn!OneSessionPerLogin

(* Concurrent first sign-ins of a person end with one user.                 *)
SignInSignInsAgree == part = "sign-in" => SignIn!SignInsAgree

(* The stored GitHub refresh token is one that GitHub accepts.              *)
LocalStoredIsAccepted == part = "local credentials" => Local!StoredIsAccepted

(* The broker key is created once.                                          *)
LocalKeyIsStable == part = "local credentials" => Local!KeyIsStable

(* The device login never polls faster than GitHub asked for.               *)
LocalPaceIsObeyed == part = "local credentials" => Local!PaceIsObeyed

(* Every stored secret of a tenant belongs to a live row.                   *)
SecretsSecretBelongsToRow == part = "tenant secrets" => Secrets!SecretBelongsToRow

(* The password mounted into a running workspace is the one Redis accepts.  *)
SecretsMountedPasswordWorks == part = "tenant secrets" => Secrets!MountedPasswordWorks

(* A deleted tenant leaves no secret behind.                                *)
SecretsDeletedLeavesNoSecret == part = "tenant secrets" => Secrets!DeletedLeavesNoSecret

(* A Coder account is linked to one user.                                   *)
CoderLinksOneUserPerAccount == part = "coder links" => CoderLinks!OneUserPerAccount

(* The stored Coder credential of a link belongs to the linked account.     *)
CoderLinksCredentialOfAccount == part = "coder links" => CoderLinks!CredentialOfAccount

(* Coder accepts the stored credential of a link.                           *)
CoderLinksStoredIsAccepted == part = "coder links" => CoderLinks!StoredIsAccepted

(* Setup, interrupted and repeated, makes one OAuth application for the     *)
(* deployment.                                                              *)
SetupOneApplication == part = "operator setup" => Setup!OneApplication

(* An installation that setup initialised can always be signed in to again. *)
SetupNeverLockedOut == part = "operator setup" => Setup!NeverLockedOut

(* The stored operator token is of the account the deployment names.        *)
SetupOperatorIsPinned == part = "operator setup" => Setup!OperatorIsPinned

(* A Manager that just renewed uses a token younger than the rotation age.  *)
SetupRenewedInTime == part = "operator setup" => Setup!RenewedInTime

(* Sign-in, command line sessions, connect attempts, Coder links, mounted   *)
(* secrets and the credentials of the operator: each is issued once, to its *)
(* own account, is accepted where it is presented and is worth nothing      *)
(* after it was spent, replaced or revoked. One conjunct per promise of     *)
(* these parts, stated above.                                               *)
CredentialsAreSound ==
  /\ ConnectAttemptsOneBindPerAttempt
  /\ ConnectAttemptsSpentAttemptKeepsNothing
  /\ CliSessionsOneDelivery
  /\ CliSessionsRecentAuthIsHonest
  /\ CliSessionsReuseRevokes
  /\ CliSessionsFamilyNeverExtended
  /\ CliSessionsAttemptsBounded
  /\ SignInOneSessionPerLogin
  /\ SignInSignInsAgree
  /\ LocalStoredIsAccepted
  /\ LocalKeyIsStable
  /\ LocalPaceIsObeyed
  /\ SecretsSecretBelongsToRow
  /\ SecretsMountedPasswordWorks
  /\ SecretsDeletedLeavesNoSecret
  /\ CoderLinksOneUserPerAccount
  /\ CoderLinksCredentialOfAccount
  /\ CoderLinksStoredIsAccepted
  /\ SetupOneApplication
  /\ SetupNeverLockedOut
  /\ SetupOperatorIsPinned
  /\ SetupRenewedInTime

(* No late activation outlives the suspension or deletion of the            *)
(* installation.                                                            *)
ConnectionAccessActiveIsJustified == part = "connection access" => ConnectionAccess!ActiveIsJustified

(* A suspended or disconnected connection ends without leases.              *)
ConnectionAccessRevocationReachesLeases == part = "connection access" => ConnectionAccess!RevocationReachesLeases

(* A finished revocation leaves no credential or lease of an earlier        *)
(* generation.                                                              *)
RuntimeAccessRevocationReachesAll == part = "runtime access" => RuntimeAccess!RevocationReachesAll

(* A bootstrap or refresh credential mints one session.                     *)
RuntimeAccessOneSessionPerSecret == part = "runtime access" => RuntimeAccess!OneSessionPerSecret

(* The broker serves no token it has revoked.                               *)
RuntimeAccessCacheHoldsNoRevokedToken == part = "runtime access" => RuntimeAccess!CacheHoldsNoRevokedToken

(* An organization keeps an active owner and an active admin.               *)
OrganizationsGoverned == part = "organizations" => Organizations!Governed

(* A result is reported by, and given out to, the pair that owns its task.  *)
RelayRequestsPairScoped == part = "relay requests" => RelayRequests!PairScoped

(* The relay accepts every workspace provisioned under its secret.          *)
RelayRequestsProvisionedIsAccepted == part = "relay requests" => RelayRequests!ProvisionedIsAccepted

(* A command that ran to its end is answered, whatever reports were lost.   *)
RelayRequestsRunIsAnswered == part = "relay requests" => RelayRequests!RunIsAnswered

(* GitHub connections, leases of the runtime, organizations and requests to *)
(* the relay: whatever is in force is backed by the row that granted it,    *)
(* and a revocation reaches everything that was derived from it. One        *)
(* conjunct per promise of these parts, stated above.                       *)
AccessIsJustified ==
  /\ ConnectionAccessActiveIsJustified
  /\ ConnectionAccessRevocationReachesLeases
  /\ RuntimeAccessRevocationReachesAll
  /\ RuntimeAccessOneSessionPerSecret
  /\ RuntimeAccessCacheHoldsNoRevokedToken
  /\ OrganizationsGoverned
  /\ RelayRequestsPairScoped
  /\ RelayRequestsProvisionedIsAccepted
  /\ RelayRequestsRunIsAnswered

(* A deleted tenant leaves no workspace in Coder.                           *)
TenantsDeletedLeavesNothing == part = "tenant workspaces" => Tenants!DeletedLeavesNothing

(* No stale creation deletes a workspace that its successor adopted.        *)
TenantsRunningHasWorkspace == part = "tenant workspaces" => Tenants!RunningHasWorkspace

(* The reserved worker capacity is the number of live worker rows.          *)
TenantsCapacityMatchesRows == part = "tenant workspaces" => Tenants!CapacityMatchesRows

(* The release an organization is pinned to is published there.             *)
ReleasesPinnedIsPublished == part = "releases" => Releases!PinnedIsPublished

(* A ready organization has a release and a provisioner.                    *)
ReleasesReadyIsComplete == part = "releases" => Releases!ReadyIsComplete

(* A template release is imported a bounded number of times.                *)
ReleasesImportsBounded == part = "releases" => Releases!ImportsBounded

(* Concurrent creations keep the active tenants within the quota.           *)
AdmissionActiveWithinLimit == part = "tenant admission" => Admission!ActiveWithinLimit

(* A repository has one live tenant.                                        *)
AdmissionOneTenantPerRepository == part = "tenant admission" => Admission!OneTenantPerRepository

(* The tenant index lists every key a SharedStore wrote, but for the        *)
(* entries that are owed or lost.                                           *)
StoreKeysIndexComplete == part = "store keys" => StoreKeys!IndexComplete

(* A reset or a purge leaves only keys written meanwhile and those its      *)
(* listing could not see.                                                   *)
StoreKeysResetForgets == part = "store keys" => StoreKeys!ResetForgets

(* A clean that succeeded leaves no slot and no recovery count of the       *)
(* tickets it reopened.                                                     *)
StoreKeysCleanIsComplete == part = "store keys" => StoreKeys!CleanIsComplete

(* Nothing is left in Redis of a deleted tenant.                            *)
StoreKeysDeletedIsEmpty == part = "store keys" => StoreKeys!DeletedIsEmpty


(* One validity period of an idempotency key commits one mutation.          *)
IdempotencyOneCommitPerValidity == part = "idempotency" => Idempotency!OneCommitPerValidity

(* An idempotent request is answered with a committed result of its own     *)
(* body.                                                                    *)
IdempotencyAnswerIsCommitted == part = "idempotency" => Idempotency!AnswerIsCommitted

(* No set of idempotent requests waits for the row locks of one another.    *)
IdempotencyNoLockCycle == part = "idempotency" => Idempotency!NoLockCycle

(* An outbox event and the operation it owns are settled together.          *)
OutboxEventAndOperationAgree == part = "outbox" => Outbox!EventAndOperationAgree

(* An outbox event is delivered under the claim whose handler finished.     *)
OutboxDeliveredByItsProcessor == part = "outbox" => Outbox!DeliveredByItsProcessor

(* A walk over the pages of a list misses no row that was there throughout. *)
PagesNothingSkipped == part = "pages" => Pages!NothingSkipped

(* A walk over the pages of a list returns no row twice.                    *)
PagesNothingRepeated == part = "pages" => Pages!NothingRepeated

(* A stream delivers the chunks of a task in order and none twice.          *)
ProgressInOrderOnce == part = "progress stream" => Progress!InOrderOnce

(* A stream misses no chunk after its first, but in the gaps it is known to *)
(* have.                                                                    *)
ProgressNothingElseMissed == part = "progress stream" => Progress!NothingElseMissed

(* A client that resubscribes has every chunk that is still buffered.       *)
ProgressCaughtUp == part = "progress stream" => Progress!CaughtUp

(* Idempotent requests, the outbox, pages of a listing and the stream of    *)
(* progress: what is asked for takes effect once, and what is read comes in *)
(* order with no repetition and no gap that is not announced. One conjunct  *)
(* per promise of these parts, stated above.                                *)
OnceAndInOrder ==
  /\ IdempotencyOneCommitPerValidity
  /\ IdempotencyAnswerIsCommitted
  /\ IdempotencyNoLockCycle
  /\ OutboxEventAndOperationAgree
  /\ OutboxDeliveredByItsProcessor
  /\ PagesNothingSkipped
  /\ PagesNothingRepeated
  /\ ProgressInOrderOnce
  /\ ProgressNothingElseMissed
  /\ ProgressCaughtUp

(* No change request is merged over before FORGE was sent to it.            *)
ReworkNoFeedbackLost == part = "rework" => Rework!NoFeedbackLost

(* A ticket LORE ticked off is in a docs pull request, or a failure was     *)
(* logged.                                                                  *)
DocsNoSilentLoss == part = "documentation" => Docs!NoSilentLoss

(* Two docs pull requests never write the entry of one ticket.              *)
DocsDocumentedOnce == part = "documentation" => Docs!DocumentedOnce

(* A ticket is with one worker, unless it was dropped from the board under  *)
(* one.                                                                     *)
CiGateOneWorkerPerTicket == part = "ci gate" => CiGate!OneWorkerPerTicket

(* An issue gets the assignment-failure comment once.                       *)
CiGateCommentedOnce == part = "ci gate" => CiGate!CommentedOnce

(* Ready for merge means that no request for changes stood and an           *)
(* authorized reviewer approved.                                            *)
CiVerdictNoVetoMissed == part = "ci verdict" => CiVerdict!NoVetoMissed

(* The poll gives up only on a real source that is not green, or on none at *)
(* all.                                                                     *)
CiVerdictTimeoutIsEarned == part = "ci verdict" => CiVerdict!TimeoutIsEarned

(* A controller that runs works with the fleet its environment asked for.   *)
StartFleetIsRequested == part = "controller start" => Start!FleetIsRequested

(* The Manager hears of readiness only once hooks and fleet are in place.   *)
StartReadyIsComplete == part = "controller start" => Start!ReadyIsComplete

(* A controller that runs with personas of another version has said so.     *)
StartStaleIsReported == part = "controller start" => Start!StaleIsReported

(* Only a reset of the store takes its repository from a later start.       *)
StartRepositoryIsFound == part = "controller start" => Start!RepositoryIsFound


(* An installation stays with the organization that bound it.               *)
ConnectAttemptsBoundForGood == part = "connect attempts" => ConnectAttempts!BoundForGood

(* No reconciliation reactivates a disconnected connection.                 *)
ConnectionAccessDisconnectedStays == part = "connection access" => ConnectionAccess!DisconnectedStays

(* A failed exchange revokes no token that another caller holds.            *)
RuntimeAccessDeliveredTokensStayUsable == part = "runtime access" => RuntimeAccess!DeliveredTokensStayUsable

(* No late outbox worker reopens or re-settles a settled event.             *)
OutboxSettledForGood == part = "outbox" => Outbox!SettledForGood

(* No provisioning brings back an organization that is being deleted.       *)
ReleasesDeletionStands == part = "releases" => Releases!DeletionStands

(* No organization is pinned to a release that was retired meanwhile.       *)
ReleasesRetiredNotAdopted == part = "releases" => Releases!RetiredNotAdopted

(* No restart of the manager undoes a retirement.                           *)
ReleasesRetirementStands == part = "releases" => Releases!RetirementStands

(* A ready organization changes its release only to the one it is promoted  *)
(* to.                                                                      *)
ReleasesPinFollowsPromotion == part = "releases" => Releases!PinFollowsPromotion

(* A refresh that crosses a logout issues nothing after it.                 *)
CliSessionsNothingIssuedAfterLogout == part = "command line sessions" => CliSessions!NothingIssuedAfterLogout

(* No refresh brings removed credentials back.                              *)
LocalSignedOutStays == part = "local credentials" => Local!SignedOutStays

(* No invitation lifts a suspension.                                        *)
OrganizationsSuspensionStands == part = "organizations" => Organizations!SuspensionStands

(* No invitation older than a removal readmits the removed member.          *)
OrganizationsRemovalStands == part = "organizations" => Organizations!RemovalStands

(* An organization that is being deleted keeps its members and owner.       *)
OrganizationsDeletionFreezes == part = "organizations" => Organizations!DeletionFreezes

(* No tenant is created in an organization that stopped being ready.        *)
AdmissionNoLateAdmission == part = "tenant admission" => Admission!NoLateAdmission

(* No setup replaces the master key.                                        *)
SetupMasterKeyKept == part = "operator setup" => Setup!MasterKeyKept

(* Work other than CI starts only in a repository that has CI, or is taken  *)
(* to have it.                                                              *)
CiGateCiBeforeOtherWork == part = "ci gate" => CiGate!CiBeforeOtherWork

(* CI counts as green only when no source of the head was otherwise all     *)
(* along the reading.                                                       *)
CiVerdictGreenIsGreen == part = "ci verdict" => CiVerdict!GreenIsGreen

(* No start and no reset overwrites a registry that an operator edited.     *)
StartEditedRegistryKept == part = "controller start" => Start!EditedRegistryKept

(* What no step may undo: a binding, disconnection, logout, suspension,     *)
(* removal, deletion, retirement or settled outcome stays as it was         *)
(* decided, a key or registry in use is not overwritten, and no step starts *)
(* work or reports green ahead of what must come first. One conjunct per    *)
(* promise, stated above.                                                   *)
DecisionsStand ==
  [][ /\ ConnectAttemptsBoundForGood
      /\ ConnectionAccessDisconnectedStays
      /\ RuntimeAccessDeliveredTokensStayUsable
      /\ OutboxSettledForGood
      /\ ReleasesDeletionStands
      /\ ReleasesRetiredNotAdopted
      /\ ReleasesRetirementStands
      /\ ReleasesPinFollowsPromotion
      /\ CliSessionsNothingIssuedAfterLogout
      /\ LocalSignedOutStays
      /\ OrganizationsSuspensionStands
      /\ OrganizationsRemovalStands
      /\ OrganizationsDeletionFreezes
      /\ AdmissionNoLateAdmission
      /\ SetupMasterKeyKept
      /\ CiGateCiBeforeOtherWork
      /\ CiVerdictGreenIsGreen
      /\ StartEditedRegistryKept ]_vars

=============================================================================
