--------------------------- MODULE ControllerStart ---------------------------
(***************************************************************************)
(* How a controller starts (binary/src/bin/agentflow.rs, run_controller):  *)
(* the optional reset of the tenant's store, the repository it works for,  *)
(* the files of the orchestration directory, the hooks and instructions    *)
(* published to the workers' volume, the registry the tenant asked for,    *)
(* and the heartbeat that reports it ready.  The process may be killed     *)
(* between any two steps and in the middle of a write; starts differ in    *)
(* their environment and in the version of the binary.  The relay, the     *)
(* kick bus, the hook consumer and LORE may each fail to start without     *)
(* ending the start; nothing below depends on them.                        *)
(***************************************************************************)
EXTENDS Integers, FiniteSets

CONSTANTS Fleets,      \* registries a tenant may ask for
          MaxStarts,   \* bound on the starts of the process
          MaxCrashes,  \* bound on kills in the course of a start
          MaxEdits     \* bound on what an operator does to the files

VARIABLES store,   \* Redis: repository, registry_json of the tenant
          disk,    \* orchestration directory: registry, personas, version
          volume,  \* hooks on the volume the workers mount
          ctl,     \* the process: step, environment, what it resolved
          ready,   \* what the Manager believes: a heartbeat of this start
          seen,    \* ghosts: this binary warned of stale files; a reset took
                   \* the repository; a start did not find one; a kill kept the
                   \* version of the files from being recorded
          starts, crashes, edits

vars == <<store, disk, volume, ctl, ready, seen, starts, crashes, edits>>

Versions == 1..2

\* Contents of a file: absent, cut off by a kill, or the bundle of a version.
\* A registry may also be one that was asked for or edited by hand.
Bundle(v) == [of |-> "bundle", v |-> v]
Absent == [of |-> "absent", v |-> 0]
Torn == [of |-> "torn", v |-> 0]
Custom == [of |-> "custom", v |-> 0]
Asked(f) == [of |-> f, v |-> 0]
Contents == {Bundle(v) : v \in Versions} \cup {Absent, Torn, Custom} \cup {Asked(f) : f \in Fleets}

Steps == {"store", "repository", "files", "version", "validate", "publish", "registry",
          "load", "record", "heartbeat"}

\* The environment of a start: the repository and the registry it names,
\* whether it runs under the Manager, and the --reset-store flag.  The template
\* of a hosted controller names the repository and does not reset the store.
Env == {e \in [repository : BOOLEAN, registry : {"none", "invalid"} \cup Fleets,
               hosted : BOOLEAN, reset : BOOLEAN] : e.hosted => e.repository /\ ~e.reset}

Down == [at |-> "down", env |-> [repository |-> TRUE, registry |-> "none", hosted |-> FALSE, reset |-> FALSE],
         binary |-> 1, fleet |-> Absent, was |-> 0]

Init ==
  /\ store = [repository |-> TRUE, registry_json |-> Absent]
  /\ disk = [registry |-> Absent, personas |-> Absent, version |-> 0]
  /\ volume = Absent /\ ctl = Down /\ ready = FALSE
  /\ seen = [warned |-> FALSE, wiped |-> FALSE, unrecorded |-> FALSE, unmet |-> FALSE]
  /\ starts = 0 /\ crashes = 0 /\ edits = 0

World == <<store, disk, volume>>
Budgets == <<starts, crashes, edits>>

\* A start never leads back to an older binary.
Start ==
  /\ ctl.at = "down" /\ starts < MaxStarts /\ starts' = starts + 1
  /\ \E e \in Env, v \in Versions :
       /\ v >= ctl.binary
       /\ ctl' = [Down EXCEPT !.at = "store", !.env = e, !.binary = v]
       /\ seen' = [seen EXCEPT !.warned = @ /\ v = ctl.binary, !.unmet = FALSE]
  /\ ready' = FALSE /\ UNCHANGED <<World, crashes, edits>>

\* A start that fails leaves the process down; its binary stays installed.
Fail == ctl' = [Down EXCEPT !.binary = ctl.binary]

Goes(step) == ctl' = [ctl EXCEPT !.at = step]

\* reset_tenant_runtime_state: the keys it deletes include `repository` and
\* `registry_json`.
reset_tenant_runtime_state == [repository |-> FALSE, registry_json |-> Absent]

OpenStore ==
  /\ ctl.at = "store" /\ Goes("repository")
  /\ store' = IF ctl.env.reset THEN reset_tenant_runtime_state ELSE store
  /\ seen' = [seen EXCEPT !.wiped = @ \/ ctl.env.reset]
  /\ UNCHANGED <<disk, volume, ready, Budgets>>


\* The environment first, then the `repository` key.
Resolves == ctl.env.repository \/ store.repository

ResolveRepository ==
  /\ ctl.at = "repository"
  /\ IF Resolves THEN Goes("files") /\ UNCHANGED seen
     ELSE Fail /\ seen' = [seen EXCEPT !.unmet = TRUE]
  /\ UNCHANGED <<World, ready, Budgets>>

-----------------------------------------------------------------------------
(* The orchestration directory (binary/src/orchestration.rs).               *)

\* Mutant: the bundle replaces what is there.
Replaces(old) == Bundle(ctl.binary)

\* A bundled file is written only where there is none.
Materialized(old) == IF old = Absent THEN Bundle(ctl.binary) ELSE old

\* Mutant: the version is read after it has been written.
ReadAfterWriting == ctl.binary

read_disk_version == disk.version

ensure_orchestration_dir ==
  /\ ctl.at = "files" /\ ctl' = [ctl EXCEPT !.at = "version", !.was = read_disk_version]
  /\ disk' = [disk EXCEPT !.registry = Materialized(@), !.personas = Materialized(@)]
  /\ UNCHANGED <<store, volume, ready, seen, Budgets>>

\* The version of the binary is recorded whatever the files are; a version
\* recorded earlier that differs is warned about.
write_version_file ==
  /\ ctl.at = "version" /\ Goes("validate")
  /\ disk' = [disk EXCEPT !.version = ctl.binary]
  /\ seen' = [seen EXCEPT !.warned = @ \/ (ctl.was # 0 /\ ctl.was # ctl.binary)]
  /\ UNCHANGED <<store, volume, ready, Budgets>>

\* validate: the files exist.
Validate ==
  /\ ctl.at = "validate"
  /\ IF Absent \in {disk.registry, disk.personas} THEN Fail
     ELSE Goes(IF ctl.env.hosted THEN "publish" ELSE "registry")
  /\ UNCHANGED <<World, ready, seen, Budgets>>

\* publish_worker_hooks and publish_worker_instructions: always rewritten.
Publish ==
  /\ ctl.at = "publish" /\ volume' = Bundle(ctl.binary) /\ Goes("registry")
  /\ UNCHANGED <<store, disk, ready, seen, Budgets>>

-----------------------------------------------------------------------------
(* The registry of the fleet.                                               *)

\* Mutant: a registry that is already on the disk stays.
OnlyWhereMissing == ctl.env.registry \in Fleets /\ disk.registry.of = "bundle"

\* The request of the environment goes to the file.
Persists == ctl.env.registry \in Fleets

PersistRegistry ==
  /\ ctl.at = "registry"
  /\ IF ctl.env.registry = "invalid" THEN Fail ELSE Goes("load")
  /\ disk' = IF Persists THEN [disk EXCEPT !.registry = Asked(ctl.env.registry)] ELSE disk
  /\ UNCHANGED <<store, volume, ready, seen, Budgets>>

\* Registry::load: a file cut off by a kill does not parse.
LoadRegistry ==
  /\ ctl.at = "load"
  /\ IF disk.registry \in {Absent, Torn} THEN Fail
     ELSE ctl' = [ctl EXCEPT !.at = "record", !.fleet = disk.registry]
  /\ UNCHANGED <<World, ready, seen, Budgets>>

\* A start outside the Manager has no heartbeat to wait for.
RecordRegistry ==
  /\ ctl.at = "record" /\ store' = [store EXCEPT !.registry_json = ctl.fleet]
  /\ Goes(IF ctl.env.hosted THEN "heartbeat" ELSE "running")
  /\ UNCHANGED <<disk, volume, ready, seen, Budgets>>

\* Mutant: the heartbeat is sent before the registry is in the store.
HeartbeatFirst == ctl.at \in {"publish", "registry", "load", "record", "heartbeat"} /\ ctl.env.hosted

\* The initial heartbeat comes last; it is repeated until it is accepted.
MayReport == ctl.at = "heartbeat"

Heartbeat ==
  /\ MayReport /\ ready' = TRUE
  /\ ctl' = [ctl EXCEPT !.at = IF @ = "heartbeat" THEN "running" ELSE @]
  /\ UNCHANGED <<World, seen, Budgets>>

-----------------------------------------------------------------------------
(* Kills, stops and the operator.                                           *)

\* A kill in the middle of a write leaves the file cut off.
TornBy ==
  CASE ctl.at = "files" -> {disk} \cup
         {[disk EXCEPT !.registry = IF @ = Absent THEN Torn ELSE @],
          [disk EXCEPT !.registry = Materialized(@), !.personas = IF @ = Absent THEN Torn ELSE @]}
    [] ctl.at = "registry" /\ Persists -> {disk, [disk EXCEPT !.registry = Torn]}
    [] OTHER -> {disk}

Crash ==
  /\ ctl.at \in Steps /\ crashes < MaxCrashes /\ crashes' = crashes + 1
  /\ disk' \in TornBy /\ volume' \in {volume} \cup (IF ctl.at = "publish" THEN {Torn} ELSE {})
  /\ Fail /\ seen' = [seen EXCEPT !.unrecorded = @ \/ (disk.version = 0 /\ disk'.personas # Absent)]
  /\ UNCHANGED <<store, ready, starts, edits>>

Stop ==
  /\ ctl.at = "running" /\ Fail /\ ready' = FALSE /\ UNCHANGED <<World, seen, Budgets>>

\* The operator edits or deletes the registry while no controller runs.
EditRegistry ==
  /\ ctl.at = "down" /\ disk.registry # Absent /\ edits < MaxEdits /\ edits' = edits + 1
  /\ disk' \in {[disk EXCEPT !.registry = c] : c \in {Custom, Absent}}
  /\ UNCHANGED <<store, volume, ctl, ready, seen, starts, crashes>>

\* openflows --reset-orchestration: everything but an existing registry.
reset_orchestration_dir ==
  /\ ctl.at = "down" /\ disk.version # 0 /\ edits < MaxEdits /\ edits' = edits + 1
  /\ disk' = [registry |-> Materialized(disk.registry), personas |-> Bundle(ctl.binary),
              version |-> ctl.binary]
  /\ UNCHANGED <<store, volume, ctl, ready, seen, starts, crashes>>

\* openflows tenant add: the repository is recorded again.
AddTenant ==
  /\ ctl.at = "down" /\ ~store.repository /\ edits < MaxEdits /\ edits' = edits + 1
  /\ store' = [store EXCEPT !.repository = TRUE]
  /\ seen' = [seen EXCEPT !.wiped = FALSE, !.unmet = FALSE]
  /\ UNCHANGED <<disk, volume, ctl, ready, starts, crashes>>

Next == \/ Start \/ OpenStore \/ ResolveRepository \/ ensure_orchestration_dir
        \/ write_version_file \/ Validate \/ Publish \/ PersistRegistry \/ LoadRegistry
        \/ RecordRegistry \/ Heartbeat \/ Crash \/ Stop
        \/ EditRegistry \/ reset_orchestration_dir \/ AddTenant

-----------------------------------------------------------------------------
TypeOK ==
  /\ store.repository \in BOOLEAN /\ store.registry_json \in Contents
  /\ disk.registry \in Contents /\ disk.personas \in Contents /\ disk.version \in 0..2
  /\ volume \in Contents /\ ctl.at \in Steps \cup {"down", "running"} /\ ctl.env \in Env
  /\ ready \in BOOLEAN /\ seen \in [warned : BOOLEAN, wiped : BOOLEAN, unrecorded : BOOLEAN, unmet : BOOLEAN]
  /\ starts \in 0..MaxStarts /\ crashes \in 0..MaxCrashes /\ edits \in 0..MaxEdits

(* A controller that runs works with the fleet its environment asked for,    *)
(* also after a start that was killed while it wrote the registry, and the   *)
(* store tells the workers of the same fleet.                                *)
FleetIsRequested ==
  ctl.at = "running" =>
    /\ store.registry_json = ctl.fleet
    /\ ctl.env.registry # "none" => ctl.fleet = Asked(ctl.env.registry)

(* The Manager is told that a controller is ready only once the workers'     *)
(* volume holds the hooks of its version and the store its fleet ("Report    *)
(* readiness only after controller initialization has succeeded").           *)
ReadyIsComplete ==
  ready /\ ctl.at # "down" => volume = Bundle(ctl.binary) /\ store.registry_json = disk.registry

(* No start and no reset overwrites a registry that an operator edited,      *)
(* unless the environment asks for another fleet.                            *)
EditedRegistryKept ==
  disk.registry = Custom /\ disk'.registry # Custom =>
    edits' > edits \/ (ctl.at = "registry" /\ ctl.env.registry \in Fleets)

(* A controller that runs with personas of another version than its own has  *)
(* said so since the binary was installed, unless the start that wrote them  *)
(* was killed before it recorded their version (ensure_orchestration_dir     *)
(* reads the version before it writes it).                                   *)
StaleIsReported ==
  ctl.at = "running" /\ disk.personas.of = "bundle" /\ disk.personas.v # ctl.binary =>
    seen.warned \/ seen.unrecorded

(* A tenant that was added is found by every later start; only --reset-store *)
(* takes its repository from a start whose environment does not name it.     *)
RepositoryIsFound ==
  seen.unmet => seen.wiped
=============================================================================
