----------------------------- MODULE StoreKeys -----------------------------
(***************************************************************************)
(* The keys of one tenant in Redis, the set of them that every SharedStore *)
(* keeps beside them (ns:{tenant}:_keys), and the operations that forget   *)
(* them: `openflows store reset` and --reset-store, `store purge` and      *)
(* `store wipe`, the manager's clean of a tenant and its deletion.         *)
(* A tenant's Redis user may not SCAN, so listing its keys means reading   *)
(* the index, which each writer updates in a call of its own.              *)
(***************************************************************************)
EXTENDS Integers, FiniteSets

CONSTANTS Stores,     \* processes with a SharedStore: controller, hooks, CLI
          MaxWrites,  \* writes and deletions of keys
          MaxSweeps,  \* resets, purges, cleans and deletions
          MaxFaults   \* failed Redis calls and killed processes

VARIABLES value,      \* what each key holds
          index,      \* the members of ns:{tenant}:_keys
          call,       \* per store: the key whose index entry it still owes
          sweep,      \* the operation that is forgetting keys
          rewritten,  \* keys written since that operation began
          user,       \* the tenant's Redis user
          lapsed,     \* keys whose index entry was lost (history)
          halved,     \* a clean failed after it had reopened the tickets
          spentOn     \* writes, sweeps and faults so far

vars == <<value, index, call, sweep, rewritten, user, lapsed, halved, spentOn>>

\* tickets and worker_slots hold the board and the fleet; the other three are
\* keys under ticket:{id}: the lifecycle record, the contract a worker hands
\* over and the controller's count of recovery attempts.
Keys == {"tickets", "worker_slots", "status", "handoff", "recovery_attempts"}

\* Keys that workers write with a plain client of their own.
Direct == {"handoff"}

\* What the controller leaves in a key: a board with a ticket that failed or
\* waits for a human, and a slot that is assigned to it.  (A board without one
\* is of no interest to a clean.)
Written(k) == CASE k = "tickets" -> "failed"
                [] k = "worker_slots" -> "held"
                [] OTHER -> "set"

Values(k) == {"none", Written(k)} \cup CASE k = "tickets" -> {"open"}
                                         [] k = "worker_slots" -> {"empty"}
                                         [] OTHER -> {}

Present == {k \in Keys : value[k] # "none"}

Idle == [op |-> "idle", key |-> "none"]

NoSweep == [kind |-> "none", at |-> "idle", scan |-> FALSE, next |-> 0,
            todo |-> {}, del |-> "none", masked |-> {}, failed |-> FALSE, resets |-> FALSE,
            clears |-> FALSE, wanted |-> FALSE]

Fault == /\ spentOn.faults < MaxFaults
         /\ spentOn' = [spentOn EXCEPT !.faults = @ + 1]

\* The stores are alike: the first that is idle makes the next call.
Starts(s) == /\ call[s] = Idle
             /\ \A t \in Stores : t < s => call[t] # Idle

Writing == /\ user = "on"
           /\ spentOn.writes < MaxWrites
           /\ spentOn' = [spentOn EXCEPT !.writes = @ + 1]

Put(k, v) == /\ value' = [value EXCEPT ![k] = v]
             /\ rewritten' = IF sweep.at = "idle" THEN {} ELSE rewritten \cup {k}

-----------------------------------------------------------------------------
(* The store.                                                              *)

\* store.set: SET, a failure of which is only logged, then SADD.
set(s, k) ==
  /\ Starts(s)
  /\ k \in {"tickets", "worker_slots", "recovery_attempts"}
  /\ Writing
  /\ Put(k, Written(k))
  /\ call' = [call EXCEPT ![s] = [op |-> "set", key |-> k]]
  /\ UNCHANGED <<index, sweep, user, lapsed, halved>>

\* Mutant: the lifecycle script is not followed by an update of the index.
TransitionUnindexed(s) ==
  /\ Starts(s)
  /\ Writing
  /\ Put("status", "set")
  /\ UNCHANGED <<index, call, sweep, user, lapsed, halved>>

\* store.transition: the compare-and-set of the lifecycle record, then SADD.
transition(s) ==
  /\ Starts(s)
  /\ Writing
  /\ Put("status", "set")
  /\ call' = [call EXCEPT ![s] = [op |-> "set", key |-> "status"]]
  /\ UNCHANGED <<index, sweep, user, lapsed, halved>>

\* A store adds the key it wrote to the index.
AddToIndex(s) ==
  /\ call[s].op = "set"
  /\ user = "on"
  /\ index' = index \cup {call[s].key}
  /\ lapsed' = lapsed \ {call[s].key}
  /\ call' = [call EXCEPT ![s] = Idle]
  /\ UNCHANGED <<value, sweep, rewritten, user, halved, spentOn>>

\* store.del: DEL, then SREM.
del(s) ==
  /\ Starts(s)
  /\ Writing
  /\ value' = [value EXCEPT !["recovery_attempts"] = "none"]
  /\ call' = [call EXCEPT ![s] = [op |-> "del", key |-> "recovery_attempts"]]
  /\ UNCHANGED <<index, sweep, rewritten, user, lapsed, halved>>

\* SREM removes the entry whatever became of the key since the DEL.
DropFromIndex(s) ==
  /\ call[s].op = "del"
  /\ user = "on"
  /\ index' = index \ {call[s].key}
  /\ lapsed' = IF call[s].key \in Present THEN lapsed \cup {call[s].key} ELSE lapsed
  /\ call' = [call EXCEPT ![s] = Idle]
  /\ UNCHANGED <<value, sweep, rewritten, user, halved, spentOn>>

\* The second call fails, and its error is dropped; or the process is killed.
IndexCallLost(s) ==
  /\ call[s].op # "idle"
  /\ Fault
  /\ lapsed' = IF call[s].op = "set" /\ call[s].key \notin index
               THEN lapsed \cup {call[s].key} ELSE lapsed
  /\ call' = [call EXCEPT ![s] = Idle]
  /\ UNCHANGED <<value, index, sweep, rewritten, user, halved>>

\* `openflows-harness handoff write`: SET by the worker's own client.
handoff_write ==
  /\ Writing
  /\ Put("handoff", "set")
  /\ UNCHANGED <<index, call, sweep, user, lapsed, halved>>

-----------------------------------------------------------------------------
(* Resetting and purging.                                                  *)

Begin(s) == /\ sweep.at \in {"idle", "done"}
            /\ spentOn.sweeps < MaxSweeps
            /\ spentOn' = [spentOn EXCEPT !.sweeps = @ + 1]
            /\ sweep' = s
            /\ rewritten' = {}

\* The patterns of runtime_state_keys that the keys here match, in its order.
Patterns == <<{"tickets"}, {"worker_slots"}, {"status", "handoff", "recovery_attempts"}>>

\* The listed keys are sorted, and deleted in that order.
Sorted == <<"handoff", "recovery_attempts", "status", "tickets", "worker_slots">>

FirstOf(K) == Sorted[CHOOSE i \in 1..5 : Sorted[i] \in K /\ \A j \in 1..(i - 1) : Sorted[j] \notin K]

\* `openflows store reset` (may SCAN) or --reset-store (the tenant's user,
\* which may not).
StartReset ==
  /\ user = "on"
  /\ \E scan \in BOOLEAN :
       Begin([NoSweep EXCEPT !.kind = "reset", !.at = "list", !.scan = scan, !.next = 1])
  /\ UNCHANGED <<value, index, call, user, lapsed, halved>>

\* Mutant: nothing is scanned for when the index has no match.
IndexOnly(p, scan) == index \cap p

\* RedisBackend::keys: the members of the index that match, or, when there
\* is none, what a SCAN finds.
keys(p, scan) == IF index \cap p # {} THEN index \cap p
                 ELSE IF scan THEN Present \cap p ELSE {}

Owed == {call[s].key : s \in {t \in Stores : call[t].op = "set"}}

\* runtime_state_keys lists one pattern; keys that a SCAN found are indexed.
\* (A key without an entry is masked by an entry that matches.)
runtime_state_keys ==
  /\ sweep.kind = "reset" /\ sweep.at = "list"
  /\ LET p == Patterns[sweep.next] IN
       /\ index' = index \cup keys(p, sweep.scan)
       /\ lapsed' = lapsed \ keys(p, sweep.scan)
       /\ sweep' = [sweep EXCEPT !.next = @ + 1, !.todo = @ \cup keys(p, sweep.scan),
                      !.at = IF sweep.next = 3 THEN "del" ELSE "list",
                      !.masked = IF sweep.scan /\ index \cap p = {} THEN @
                                 ELSE @ \cup ((Present \cap p \cap (Direct \cup lapsed \cup Owed)) \ index)]
  /\ UNCHANGED <<value, call, rewritten, user, halved, spentOn>>

\* `openflows store purge` and `wipe`: every key SCAN finds under ns:{tenant}:,
\* the index among them.
StartPurge ==
  /\ Begin([NoSweep EXCEPT !.kind = "purge", !.at = "del", !.scan = TRUE,
              !.todo = Present \cup (IF index = {} THEN {} ELSE {"_keys"})])
  /\ UNCHANGED <<value, index, call, user, lapsed, halved>>

\* SCAN's order, which a purge follows, matters only for the index's own key.
NextKeys == (sweep.todo \cap {"_keys"})
              \cup (IF sweep.todo \ {"_keys"} = {} THEN {} ELSE {FirstOf(sweep.todo \ {"_keys"})})

\* raw_del of one listed key: DEL, of which a failure is only logged.
raw_del ==
  /\ sweep.kind \in {"reset", "purge"} /\ sweep.at = "del"
  /\ IF sweep.todo = {}
     THEN /\ sweep' = [sweep EXCEPT !.at = "done"]
          /\ UNCHANGED <<value, index, lapsed>>
     ELSE \E k \in NextKeys :
            /\ sweep' = [sweep EXCEPT !.todo = @ \ {k}, !.del = k, !.at = "srem"]
            /\ value' = [q \in Keys |-> IF q = k THEN "none" ELSE value[q]]
            /\ index' = IF k = "_keys" THEN {} ELSE index
            /\ lapsed' = IF k = "_keys" THEN Present ELSE lapsed
  /\ UNCHANGED <<call, rewritten, user, halved, spentOn>>

\* ... and SREM.
raw_srem ==
  /\ sweep.at = "srem"
  /\ index' = index \ {sweep.del}
  /\ lapsed' = lapsed \cup (Present \cap {sweep.del})
  /\ sweep' = [sweep EXCEPT !.at = "del", !.del = "none"]
  /\ UNCHANGED <<value, call, rewritten, user, halved, spentOn>>

\* A DEL fails and the entry is removed all the same.
RawDelFails ==
  /\ sweep.kind \in {"reset", "purge"} /\ sweep.at = "del"
  /\ sweep.todo # {}
  /\ Fault
  /\ \E k \in NextKeys :
       sweep' = [sweep EXCEPT !.todo = @ \ {k}, !.del = k, !.at = "srem", !.failed = TRUE]
  /\ UNCHANGED <<value, index, call, rewritten, user, lapsed, halved>>

-----------------------------------------------------------------------------
(* The manager's clean of a tenant: an operation that is retried until it  *)
(* succeeds.                                                               *)

\* Mutant: a slot is kept when its ticket is reopened.
KeepsSlots(all) ==
  LET resets == value["tickets"] = "failed" \/ (all /\ "tickets" \in Present)
  IN  [resets |-> resets, clears |-> all /\ value["worker_slots"] = "held"]

\* reset_tenant_state: tickets that failed or wait for a human, or all of
\* them, are reopened; the slots of reopened tickets, or all, are dropped.
\* (One ticket, to which the held slot belongs.)
reset_tenant_state(all) ==
  LET resets == value["tickets"] = "failed" \/ (all /\ "tickets" \in Present)
  IN  [resets |-> resets, clears |-> (all \/ resets) /\ value["worker_slots"] = "held"]

CleanFrom(all, wanted) ==
  [NoSweep EXCEPT !.kind = IF all THEN "clean-all" ELSE "clean", !.at = "tickets",
     !.resets = reset_tenant_state(all).resets, !.clears = reset_tenant_state(all).clears,
     !.wanted = wanted \/ value["tickets"] = "failed"]

\* clean_namespace reads the board and the slots.
StartClean ==
  /\ user = "on"
  /\ \E all \in BOOLEAN : Begin(CleanFrom(all, FALSE))
  /\ halved' = FALSE
  /\ UNCHANGED <<value, index, call, user, lapsed>>

\* Each write is followed by an update of the index; any error ends the try.
CleanTickets ==
  /\ sweep.at = "tickets"
  /\ IF sweep.resets THEN value' = [value EXCEPT !["tickets"] = "open"] ELSE UNCHANGED value
  /\ sweep' = [sweep EXCEPT !.at = "tickets index"]
  /\ UNCHANGED <<index, call, rewritten, user, lapsed, halved, spentOn>>

CleanSlots ==
  /\ sweep.at = "tickets index"
  /\ index' = IF sweep.resets THEN index \cup {"tickets"} ELSE index
  /\ lapsed' = IF sweep.resets THEN lapsed \ {"tickets"} ELSE lapsed
  /\ IF sweep.clears THEN value' = [value EXCEPT !["worker_slots"] = "empty"] ELSE UNCHANGED value
  /\ sweep' = [sweep EXCEPT !.at = "slots index"]
  /\ UNCHANGED <<call, rewritten, user, halved, spentOn>>

\* The recovery counters: of the reopened tickets, or all that SCAN finds.
CleanCounters ==
  /\ sweep.at = "slots index"
  /\ index' = IF sweep.clears THEN index \cup {"worker_slots"} ELSE index
  /\ lapsed' = IF sweep.clears THEN lapsed \ {"worker_slots"} ELSE lapsed
  /\ IF sweep.resets \/ sweep.kind = "clean-all"
     THEN /\ value' = [value EXCEPT !["recovery_attempts"] = "none"]
          /\ sweep' = [sweep EXCEPT !.at = "counters index"]
     ELSE /\ sweep' = [sweep EXCEPT !.at = "done"]
          /\ UNCHANGED value
  /\ UNCHANGED <<call, rewritten, user, halved, spentOn>>

CleanDone ==
  /\ sweep.at = "counters index"
  /\ index' = index \ {"recovery_attempts"}
  /\ lapsed' = IF "recovery_attempts" \in Present THEN lapsed \cup {"recovery_attempts"} ELSE lapsed
  /\ sweep' = [sweep EXCEPT !.at = "done"]
  /\ UNCHANGED <<value, call, rewritten, user, halved, spentOn>>

\* A Redis call fails or the worker is killed; the retried operation reads
\* the board again, where the tickets it had reopened need no reset.
CleanRetried ==
  /\ sweep.at \in {"tickets", "tickets index", "slots index", "counters index"}
  /\ Fault
  /\ sweep' = CleanFrom(sweep.kind = "clean-all", sweep.wanted)
  /\ halved' = (halved \/ (sweep.resets /\ sweep.at # "tickets"))
  /\ lapsed' = IF sweep.at = "slots index" /\ sweep.clears
                 THEN lapsed \cup ({"worker_slots"} \ index)
               ELSE IF sweep.at = "tickets index" /\ sweep.resets
                 THEN lapsed \cup ({"tickets"} \ index)
               ELSE lapsed
  /\ UNCHANGED <<value, index, call, rewritten, user>>

-----------------------------------------------------------------------------
(* Deleting the tenant.                                                    *)


\* revoke_redis_credential: DELUSER, which also ends the user's connections.
revoke_tenant ==
  /\ Begin([NoSweep EXCEPT !.kind = "delete", !.at = "scan", !.scan = TRUE])
  /\ user' = "revoked"
  /\ UNCHANGED <<value, index, call, lapsed, halved>>

\* clear_namespace: SCAN, then one DEL of everything found.
ClearScan ==
  /\ sweep.kind = "delete" /\ sweep.at = "scan"
  /\ sweep' = [sweep EXCEPT !.at = "clear",
                 !.todo = Present \cup (IF index = {} THEN {} ELSE {"_keys"})]
  /\ UNCHANGED <<value, index, call, rewritten, user, lapsed, halved, spentOn>>

clear_namespace ==
  /\ sweep.at = "clear"
  /\ value' = [k \in Keys |-> IF k \in sweep.todo THEN "none" ELSE value[k]]
  /\ index' = IF "_keys" \in sweep.todo THEN {} ELSE index
  /\ lapsed' = IF "_keys" \in sweep.todo THEN Present ELSE lapsed
  /\ sweep' = [sweep EXCEPT !.at = "done", !.todo = {}]
  /\ UNCHANGED <<call, rewritten, user, halved, spentOn>>

\* A failed call, or a killed worker: the operation starts over.
ClearRetried ==
  /\ sweep.kind = "delete" /\ sweep.at \in {"scan", "clear"}
  /\ Fault
  /\ sweep' = [sweep EXCEPT !.at = "scan", !.todo = {}]
  /\ UNCHANGED <<value, index, call, rewritten, user, lapsed, halved>>

-----------------------------------------------------------------------------
\* A new tenant, or one whose controller has worked on a ticket.
Init == /\ index \in {{}, Keys \ Direct}
        /\ value = [k \in Keys |-> IF k \in index THEN Written(k) ELSE "none"]
        /\ call = [s \in Stores |-> Idle]
        /\ sweep = NoSweep
        /\ rewritten = {}
        /\ user = "on"
        /\ lapsed = {}
        /\ halved = FALSE
        /\ spentOn = [writes |-> 0, sweeps |-> 0, faults |-> 0]

Next == \/ \E s \in Stores : \/ \E k \in Keys : set(s, k)
                             \/ transition(s) \/ AddToIndex(s)
                             \/ del(s) \/ DropFromIndex(s) \/ IndexCallLost(s)
        \/ handoff_write
        \/ StartReset \/ runtime_state_keys \/ StartPurge
        \/ raw_del \/ raw_srem \/ RawDelFails
        \/ StartClean \/ CleanTickets \/ CleanSlots \/ CleanCounters \/ CleanDone \/ CleanRetried
        \/ revoke_tenant \/ ClearScan \/ clear_namespace \/ ClearRetried

Spec == Init /\ [][Next]_vars

-----------------------------------------------------------------------------
TypeOK == /\ \A k \in Keys : value[k] \in Values(k)
          /\ index \subseteq Keys
          /\ \A s \in Stores : call[s] \in [op : {"idle", "set", "del"}, key : Keys \cup {"none"}]
          /\ sweep.todo \subseteq Keys \cup {"_keys"}
          /\ rewritten \subseteq Keys /\ lapsed \subseteq Keys
          /\ user \in {"on", "revoked"} /\ halved \in BOOLEAN

\* The index lists every key that a SharedStore wrote (store.rs: "populated on
\* every writer"), but for one that a store is about to add and one whose
\* entry was lost: by a failed or skipped SADD, by an SREM that removed the
\* entry of a key written after the DEL, or with the index itself.
IndexComplete ==
  user = "on" => Present \ index \subseteq Direct \cup lapsed \cup Owed
                   \cup (IF sweep.at = "tickets index" THEN {"tickets"} ELSE {})
                   \cup (IF sweep.at = "slots index" THEN {"worker_slots"} ELSE {})

\* When a reset or a purge has ended, a key that is still there was written
\* since it began, or the reset had no entry for it and could not SCAN (or did
\* not, since another key of the pattern had an entry), or a DEL failed.
ResetForgets ==
  sweep.kind \in {"reset", "purge"} /\ sweep.at = "done" /\ ~sweep.failed
    => Present \subseteq rewritten \cup sweep.masked

\* A clean that succeeded has left no slot on the tickets it reopened and no
\* count of their recovery attempts, unless the board or these were written
\* meanwhile or an earlier try failed after the tickets had been reopened.
CleanIsComplete ==
  sweep.kind \in {"clean", "clean-all"} /\ sweep.at = "done" /\ sweep.wanted
  /\ ~halved /\ "tickets" \notin rewritten
    => /\ value["worker_slots"] # "held" \/ "worker_slots" \in rewritten
       /\ "recovery_attempts" \notin Present \ rewritten

\* Nothing is left of a deleted tenant in Redis: its user is revoked
\* before its keys are listed.
DeletedIsEmpty ==
  sweep.kind = "delete" /\ sweep.at = "done" => Present = {} /\ index = {}
=============================================================================
