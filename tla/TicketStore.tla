----------------------------- MODULE TicketStore -----------------------------
(***************************************************************************)
(* SharedStore::lifecycle and SharedStore::transition of pocketflow-core:  *)
(* workers, the controller and operators change one ticket record in Redis *)
(* without locks.  A client reads the record, and some time later asks for *)
(* a transition at the version it read; transition reads the raw value     *)
(* again, applies the event and sends a compare-and-set script.  Scripts   *)
(* of clients that timed out may still run, at any later time, or never.   *)
(***************************************************************************)
EXTENDS LifecycleReducer, FiniteSets, TLC

CONSTANTS Clients,      \* processes sharing the ticket
          MaxVersion,   \* bound of Lifecycle, above every version reached
          MaxSends,     \* bound on the scripts sent in all
          MaxFlight     \* bound on the scripts sent and not yet run

\* Version 9 is the highest a ticket starts from.
ASSUME BoundsAssumption ==
    MaxSends \in Nat /\ MaxVersion \in Nat /\ MaxVersion >= 9 + MaxSends

VARIABLES raw,          \* the value of ns:{tenant}:ticket:{id}:status
          client,       \* per client: its place between read and reply, and its outcome
          flight,       \* compare-and-set scripts sent and not yet run
          sends         \* number of scripts sent

vars == <<raw, client, flight, sends>>

Absent == [kind |-> "absent"]
Legacy(status) == [kind |-> "legacy", status |-> status]
Json(record) == [kind |-> "json", record |-> record]

\* Lifecycle::decode
Decode(value) ==
    CASE value.kind = "absent" -> Default
      [] value.kind = "json" -> Normalised(value.record)
      [] value.kind = "legacy" /\ value.status = "merged" -> LegacyDone
      [] value.kind = "legacy" /\ value.status # "merged" -> LegacyActive

current == Decode(raw)

\* A missing key, a legacy status, or a record an older release left behind.
StartingRaws ==
    {Absent, Legacy("assigned"), Legacy("merged")} \cup
        {Json(UnboundSubmit(h, n)) : h \in Heads, n \in PRs}

\* Between calls; won is the version the last call created, 0 if none.
Idle(won) == [pc |-> "idle", won |-> won, seen |-> None, script |-> None]

Init ==
    /\ raw \in StartingRaws
    /\ client = [c \in Clients |-> Idle(0)]
    /\ flight = {}
    /\ sends = 0

(***************************************************************************)
(* SharedStore::lifecycle: a strict read, then the caller decides.         *)
(***************************************************************************)
ReadStatus(c) ==
    /\ client[c].pc = "idle"
    /\ client' = [client EXCEPT ![c] = [pc |-> "deciding", won |-> 0,
                                        seen |-> current, script |-> None]]
    /\ UNCHANGED <<raw, flight, sends>>

\* Events a caller may ask for: arguments name the candidate now in the store
\* or the one the caller saw when it started.
EventsFrom(s, t) ==
    LET rounds == {s.review_round, t.review_round}
        revisions == {s.revision, t.revision}
        heads == {s.head, t.head} \ {None}
    IN  {PlanEvent("text"), BlockEvent("text"), CancelMergeEvent}
        \cup {MoveEvent(p, h) : p \in Phases, h \in Option(Heads)}
        \cup {DecideEvent(p, r, v, h, ok, "text") :
                p \in ReviewPhases, r \in rounds, v \in revisions,
                h \in Option(heads), ok \in BOOLEAN}
        \cup {VerifiedEvent(h, "text") : h \in heads}
        \cup {PrEvent(n) : n \in PRs \cup {0}}
        \cup {ReviewDeliveredEvent(r) : r \in rounds}
        \cup {BeginMergeEvent(h) : h \in heads}
        \cup {ReconcileMergedEvent(n, "text") : n \in PRs}
        \cup {MergedEvent(n, h, "text") : n \in PRs, h \in heads}

(***************************************************************************)
(* SharedStore::transition, up to sending the script: GET, decode, compare *)
(* the version, apply.                                                     *)
(***************************************************************************)
SendScript(c) ==
    /\ client[c].pc = "deciding"
    /\ current.version = client[c].seen.version
    /\ Cardinality(flight) < MaxFlight
    /\ sends < MaxSends /\ sends' = sends + 1
    /\ \E actor \in Actors, ev \in EventsFrom(current, client[c].seen) :
        /\ Accepts(current, actor, ev)
        /\ LET script == [by |-> c, base |-> raw, next |-> Apply(current, actor, ev)]
           IN  /\ flight' = flight \cup {script}
               /\ client' = [client EXCEPT ![c] =
                              [pc |-> "sent", won |-> 0, seen |-> None, script |-> script]]
    /\ UNCHANGED raw

\* The version moved on, the reducer refuses the event, or Redis failed.
Refused(c) ==
    /\ client[c].pc = "deciding"
    /\ client' = [client EXCEPT ![c] = Idle(0)]
    /\ UNCHANGED <<raw, flight, sends>>

\* Mutant: the script sets the key without comparing.
MatchesAlways(script) == TRUE

Matches(script) == raw = script.base

\* The version a successful script creates; 0 when the event was a no-op.
Created(script) ==
    IF script.next.version > Decode(script.base).version THEN script.next.version ELSE 0

\* Redis runs a script; whoever still waits for it learns the outcome.
RunScript(script) ==
    /\ script \in flight
    /\ flight' = flight \ {script}
    /\ raw' = IF Matches(script) THEN Json(script.next) ELSE raw
    /\ client' =
         IF client[script.by].pc = "sent" /\ client[script.by].script = script
         THEN [client EXCEPT ![script.by] =
                 Idle(IF Matches(script) THEN Created(script) ELSE 0)]
         ELSE client
    /\ UNCHANGED sends

\* bounded_redis gives up on the reply; the script may have been lost.
Timeout(c) ==
    /\ client[c].pc = "sent"
    /\ client' = [client EXCEPT ![c] = Idle(0)]
    /\ flight' \in {flight, flight \ {client[c].script}}
    /\ UNCHANGED <<raw, sends>>

Next ==
    \/ \E c \in Clients : ReadStatus(c) \/ SendScript(c) \/ Refused(c) \/ Timeout(c)
    \/ \E script \in flight : RunScript(script)

Spec == Init /\ [][Next]_vars

\* Nothing tells one commit, or one client, from another.
Symmetry == Permutations(Heads) \cup Permutations(Clients)

-----------------------------------------------------------------------------
\* Type invariant: the record, each client's place in its call, and scripts.
TypeOK ==
    /\ current \in Records
    /\ \A c \in Clients :
        /\ client[c].pc \in {"idle", "deciding", "sent"}
        /\ client[c].won \in Nat
        /\ client[c].pc = "deciding" => client[c].seen \in Records
    /\ sends \in 0..MaxSends
    /\ \A script \in flight :
        script.by \in Clients /\ Decode(script.base) \in Records /\ script.next \in Records

\* The compare-and-set protocol implements the atomic lifecycle: whatever
\* clients read and whenever their scripts run, every change of the decoded
\* record is one accepted event applied to the record it replaces.
Atomic == INSTANCE Lifecycle WITH ticket <- current
AtomicLifecycle == Atomic!Spec

\* A version names one record: a client whose version still matches has seen
\* exactly the record its event is applied to, approvals and evidence
\* included.  The version check of transition relies on this.
VersionNamesRecord ==
    \A c \in Clients :
        (client[c].pc = "deciding" /\ client[c].seen.version = current.version)
            => client[c].seen = current

\* Two clients are never both told Ok for creating the same version, so of
\* two racing reviews of one record exactly one is reported as recorded.  (A
\* move to the phase the ticket is in is accepted without a new version.)
OneWinnerPerVersion ==
    \A c, d \in Clients :
        (c # d /\ client[c].won # 0) => client[c].won # client[d].won
=============================================================================
