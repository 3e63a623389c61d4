------------------------- MODULE TicketStoreProofs --------------------------
(***************************************************************************)
(* The compare-and-set protocol of SharedStore::transition, for every      *)
(* number of clients and of scripts left behind by timeouts: a version     *)
(* names one record, nobody shares a win, and the protocol implements the  *)
(* atomic lifecycle.                                                       *)
(***************************************************************************)
EXTENDS TicketStore, ReducerProofs

\* A queued delivery names its pull request: decode leaves the record alone.
Named(s) == s.pr_delivery # None => s.pr_delivery.pr_number # None

\* What an event does to the version and to the queued delivery.
KeepsCount(s, t) == t.version = s.version /\ (Named(s) => Named(t))

-----------------------------------------------------------------------------
\* The event of an accepted decision leaves the version to apply, and queues
\* a delivery for the pull request of the record only.
LEMMA DecideCount ==
  ASSUME NEW s \in Records, NEW actor, NEW ev, MayDecide(s, actor, ev),
         ev.approved \in BOOLEAN, ev.head \in Option(Heads)
  PROVE  KeepsCount(s, AfterDecide(s, actor, ev))
<1> DEFINE d == DecisionOf(s, actor, ev)
           t == Recorded(s, actor, ev)
<1>1. ev.phase = "submit" => d.pr_number = s.pr_number /\ s.pr_number # None
  BY Zenon DEF DecisionOf, MayDecide
<1>2. ev.phase \in {"plan_ready", "testing", "submit"}
  BY Zenon DEF MayDecide, ReviewPhases
<1>3. t \in Records /\ t.pr_delivery = IF ev.phase = "submit" /\ actor = "sentinel"
                                       THEN d ELSE s.pr_delivery
  <2>1. Verdict(s, actor, ev)
    BY Zenon DEF Verdict
  <2>2. FieldsRecorded(s, actor, ev, d, t)
    BY ONLY <2>1, RecordedFields, Zenon
  <2> HIDE DEF d, t
  <2> QED
    BY ONLY <2>2, Zenon DEF FieldsRecorded
<1>4. t.version = s.version
  <2> HIDE DEF d
  <2>1. t = CASE ev.phase = "plan_ready" -> [s EXCEPT !.plan_decision = d]
              [] ev.phase = "testing" /\ actor = "sentinel" -> [s EXCEPT !.test_decision = d]
              [] ev.phase = "testing" /\ actor # "sentinel" -> [s EXCEPT !.test_human = d]
              [] ev.phase = "submit" /\ actor = "sentinel" ->
                    [s EXCEPT !.pr_decision = d, !.pr_delivery = d]
              [] ev.phase = "submit" /\ actor # "sentinel" -> [s EXCEPT !.pr_human = d]
    BY Zenon DEF Recorded, d
  <2> HIDE DEF t
  <2> QED
    BY <1>2, <2>1, Zenon DEF Records
<1> HIDE DEF t, d
<1>5. Named(s) => Named(t)
  BY <1>1, <1>3, Zenon DEF Named
<1>6. CASE ev.approved /\ ev.phase = "plan_ready"
  <2>1. AfterDecide(s, actor, ev) = [ClearWork(t) EXCEPT !.phase = "building", !.feedback = None]
    BY <1>6, Zenon DEF AfterDecide, t
  <2> QED
    BY <1>3, <1>4, <1>5, <2>1 DEF KeepsCount, Named, Records, ClearWork
<1>7. CASE ev.approved /\ ev.phase = "testing" /\ actor = "sentinel"
  <2>1. AfterDecide(s, actor, ev) = AfterTestingApproval(t)
    BY <1>7, Zenon DEF AfterDecide, t
  <2> QED
    BY <1>3, <1>4, <2>1 DEF KeepsCount, Named, Records, AfterTestingApproval
<1>8. CASE ev.approved /\ (ev.phase = "submit" \/ (ev.phase = "testing" /\ actor # "sentinel"))
  <2>1. AfterDecide(s, actor, ev) = t
    BY <1>8, Zenon DEF AfterDecide, t, MayDecide
  <2> QED
    BY <1>4, <1>5, <2>1, Zenon DEF KeepsCount
<1>9. CASE ~ev.approved
  <2>1. AfterDecide(s, actor, ev) =
          [ClearWork(t) EXCEPT !.pr_delivery = IF actor = "human" THEN None ELSE @,
                               !.feedback = ev.report,
                               !.phase = IF ev.phase = "plan_ready"
                                         THEN "plan_rejected" ELSE "building"]
    BY <1>9, Zenon DEF AfterDecide, t
  <2>2. ClearWork(t).version = t.version /\ ClearWork(t).pr_delivery = t.pr_delivery
    BY <1>3, Zenon DEF Records, ClearWork
  <2>3. ClearWork(t) \in Records
    BY <1>3, ClearWorkType, Zenon
  <2>4. /\ AfterDecide(s, actor, ev).version = t.version
        /\ AfterDecide(s, actor, ev).pr_delivery \in {None, t.pr_delivery}
    BY <2>1, <2>2, <2>3 DEF Records
  <2> QED
    BY <1>4, <1>5, <2>4, Zenon DEF KeepsCount, Named
<1> QED
  BY <1>2, <1>6, <1>7, <1>8, <1>9

\* Every event leaves the version to apply.
LEMMA EffectCount ==
  ASSUME NEW s \in Records, NEW actor, NEW ev, WellFormed(ev), Accepts(s, actor, ev)
  PROVE  KeepsCount(s, Effect(s, actor, ev))
<1> USE DEF KeepsCount, Named
<1>1. CASE ev.type = "plan"
  BY <1>1, Zenon DEF Effect, AfterPlan, Records, ClearWork
<1>2. CASE ev.type = "move"
  <2>1. /\ AfterMove(s, ev).version = s.version
        /\ AfterMove(s, ev).pr_delivery = None
    BY DEF AfterMove, Records, ClearWork
  <2> QED
    BY <1>2, <2>1, Zenon DEF Effect
<1>3. CASE ev.type = "block"
  BY <1>3, Zenon DEF Effect, AfterBlock, Records, ClearWork
<1>4. CASE ev.type = "decide" /\ MayDecide(s, actor, ev)
  BY <1>4, DecideCount, Zenon DEF Effect, WellFormed
<1>5. CASE ev.type = "verified"
  BY <1>5, Zenon DEF Effect, AfterVerified, Records
<1>6. CASE ev.type = "pr"
  BY <1>6, Zenon DEF Effect, AfterPr, Records
<1>7. CASE ev.type = "review_delivered"
  BY <1>7, Zenon DEF Effect, AfterReviewDelivered, Records
<1>8. CASE ev.type = "begin_merge"
  BY <1>8, Zenon DEF Effect, AfterBeginMerge, Records
<1>9. CASE ev.type = "cancel_merge"
  BY <1>9, Zenon DEF Effect, AfterCancelMerge, Records
<1>10. CASE ev.type = "reconcile_merged"
  BY <1>10, Zenon DEF Effect, AfterReconcileMerged, Records
<1>11. CASE ev.type = "merged"
  BY <1>11 DEF Effect, AfterMerged, Records
<1> QED
  BY <1>1, <1>2, <1>3, <1>4, <1>5, <1>6, <1>7, <1>8, <1>9, <1>10, <1>11, Zenon DEF Accepts

-----------------------------------------------------------------------------
\* What the key can hold: the value it started with or a record of apply.
RawOK(value) ==
    \/ value \in StartingRaws
    \/ \E r \in Records : Gated(r) /\ Named(r) /\ value = Json(r)

\* A script carries one accepted event on the record its base decodes to; n
\* scripts have been sent.
ScriptOK(x, n) ==
    /\ x.by \in Clients
    /\ RawOK(x.base)
    /\ Decode(x.base).version < 9 + n
    /\ \E actor \in Actors : \E ev \in EventsFrom(Decode(x.base), Decode(x.base)) :
          /\ Accepts(Decode(x.base), actor, ev)
          /\ x.next = Apply(Decode(x.base), actor, ev)

\* A client k of a store that holds record s has seen s or an older version,
\* and no win of its own is newer than s.
ClientOK(k, s) ==
    /\ k.pc \in {"idle", "deciding", "sent"}
    /\ k.won \in Nat /\ k.won <= s.version
    /\ k.pc = "deciding" =>
          /\ k.seen \in Records
          /\ k.seen.version <= s.version
          /\ k.seen.version = s.version => k.seen = s

\* The inductive invariant of the store.
StoreInv ==
    /\ RawOK(raw)
    /\ current.version <= 9 + sends
    /\ client = [c \in Clients |-> client[c]]
    /\ \A c \in Clients : ClientOK(client[c], current)
    /\ \A x \in flight : ScriptOK(x, sends)
    /\ sends \in 0..MaxSends
    /\ OneWinnerPerVersion

\* decode of what a ticket starts from is an initial record of the lifecycle,
\* of version 9 at most.
LEMMA StartingDecode ==
  ASSUME NEW value \in StartingRaws
  PROVE  Decode(value) \in InitialRecords /\ Decode(value).version <= 9 /\ Named(Decode(value))
<1>1. CASE value = Absent
  <2>1. Decode(value) = Default
    BY <1>1, Zenon DEF Decode, Absent
  <2>2. Default.version = 0 /\ Default.pr_delivery = None
    BY Zenon DEF Default
  <2> QED
    BY <2>1, <2>2 DEF InitialRecords, Named
<1>2. CASE value = Legacy("assigned")
  <2>1. Decode(value) = LegacyActive
    BY <1>2, Zenon DEF Decode, Legacy
  <2>2. LegacyActive.version = 0 /\ LegacyActive.pr_delivery = None
    BY Zenon DEF LegacyActive, Default
  <2> QED
    BY <2>1, <2>2 DEF InitialRecords, Named
<1>3. CASE value = Legacy("merged")
  <2>1. Decode(value) = LegacyDone
    BY <1>3, Zenon DEF Decode, Legacy
  <2>2. LegacyActive \in Records
    BY DefaultType, SomeIsOption, Zenon DEF LegacyActive, Records, Texts
  <2>3. LegacyActive.version = 0 /\ LegacyActive.pr_delivery = None
    BY DEF LegacyActive, Default
  <2>4. LegacyDone.version = 0 /\ LegacyDone.pr_delivery = None
    BY <2>2, <2>3, Zenon DEF LegacyDone, Records
  <2> QED
    BY <2>1, <2>4 DEF InitialRecords, Named
<1>4. ASSUME NEW h \in Heads, NEW n \in PRs, value = Json(UnboundSubmit(h, n))
      PROVE  Decode(value) \in InitialRecords /\ Decode(value).version <= 9
             /\ Named(Decode(value))
  <2> DEFINE u == UnboundSubmit(h, n)
  <2>1. Decode(value) = Normalised(u)
    BY <1>4, Zenon DEF Decode, Json
  <2>2. u.version = 9 /\ u.pr_delivery = UnboundVerdict("sentinel", 4, h)
    BY Zenon DEF UnboundSubmit, Default
  <2>3. u.pr_delivery.pr_number = None
    BY <2>2 DEF UnboundVerdict
  <2>4. u.pr_delivery # None
    BY <2>2, UnboundVerdictType, SomeIsOption, Zenon
  <2>5. u \in Records
    BY UnboundSubmitType, Zenon
  <2> HIDE DEF u
  <2>6. Normalised(u) = [u EXCEPT !.pr_delivery = None, !.pr_decision = None, !.pr_human = None]
    BY <2>3, <2>4, Zenon DEF Normalised
  <2>7. Normalised(u).version = 9 /\ Normalised(u).pr_delivery = None
    BY <2>2, <2>5, <2>6 DEF Records
  <2>8. Normalised(u) \in InitialRecords
    BY DEF InitialRecords, u
  <2> QED
    BY <2>1, <2>7, <2>8 DEF Named
<1> QED
  BY <1>1, <1>2, <1>3, <1>4 DEF StartingRaws

\* decode gives back the record that a script wrote.
LEMMA DecodeJson ==
  ASSUME NEW r, Named(r)
  PROVE  Decode(Json(r)) = r
  BY Zenon DEF Decode, Json, Normalised, Named

\* Whatever the key holds decodes to a record that keeps the gates.
LEMMA DecodeGated ==
  ASSUME NEW value, RawOK(value)
  PROVE  Gated(Decode(value)) /\ Named(Decode(value))
<1>1. CASE value \in StartingRaws
  BY <1>1, StartingDecode, InitGated, Zenon
<1>2. CASE value \notin StartingRaws
  BY <1>2, DecodeJson, Zenon DEF RawOK
<1> QED
  BY <1>1, <1>2, Zenon

\* The event ev is about the record s as it is.
EventCase(s, ev) ==
    \/ ev \in {PlanEvent("text"), BlockEvent("text"), CancelMergeEvent}
    \/ \E p \in Phases, h \in Option(Heads) : ev = MoveEvent(p, h)
    \/ \E p \in ReviewPhases, h \in Option({s.head} \ {None}), ok \in BOOLEAN :
          ev = DecideEvent(p, s.review_round, s.revision, h, ok, "text")
    \/ \E h \in {s.head} \ {None} : ev = VerifiedEvent(h, "text")
    \/ \E n \in PRs \cup {0} : ev = PrEvent(n)
    \/ ev = ReviewDeliveredEvent(s.review_round)
    \/ \E h \in {s.head} \ {None} : ev = BeginMergeEvent(h)
    \/ \E n \in PRs : ev = ReconcileMergedEvent(n, "text")
    \/ \E n \in PRs, h \in {s.head} \ {None} : ev = MergedEvent(n, h, "text")

\* A client that read the stored record asks for such events.
LEMMA EventCases ==
  ASSUME NEW s, NEW ev \in EventsFrom(s, s)
  PROVE  EventCase(s, ev)
<1>1. /\ {s.review_round, s.review_round} = {s.review_round}
      /\ {s.revision, s.revision} = {s.revision} /\ {s.head, s.head} = {s.head}
  BY Zenon
<1> DEFINE heads == {s.head} \ {None}
           opts == Option(heads)
<1>2. \/ ev \in {PlanEvent("text"), BlockEvent("text"), CancelMergeEvent}
      \/ ev \in {MoveEvent(p, h) : p \in Phases, h \in Option(Heads)}
      \/ ev \in {DecideEvent(p, r, v, h, ok, "text") :
                   p \in ReviewPhases, r \in {s.review_round}, v \in {s.revision},
                   h \in opts, ok \in BOOLEAN}
      \/ ev \in {VerifiedEvent(h, "text") : h \in heads}
      \/ ev \in {PrEvent(n) : n \in PRs \cup {0}}
      \/ ev \in {ReviewDeliveredEvent(r) : r \in {s.review_round}}
      \/ ev \in {BeginMergeEvent(h) : h \in heads}
      \/ ev \in {ReconcileMergedEvent(n, "text") : n \in PRs}
      \/ ev \in {MergedEvent(n, h, "text") : n \in PRs, h \in heads}
  BY <1>1 DEF EventsFrom
<1> HIDE DEF heads, opts
<1>3. CASE ev \in {DecideEvent(p, r, v, h, ok, "text") :
                   p \in ReviewPhases, r \in {s.review_round}, v \in {s.revision},
                   h \in opts, ok \in BOOLEAN}
  <2>1. \E p \in ReviewPhases, h \in opts, ok \in BOOLEAN :
           ev = DecideEvent(p, s.review_round, s.revision, h, ok, "text")
    BY <1>3
  <2> QED
    BY <2>1, Zenon DEF EventCase, heads, opts
<1> QED
  BY <1>2, <1>3 DEF EventCase, heads

\* The events a client asks for are well formed.
LEMMA EventsWellFormed ==
  ASSUME NEW s \in Records, NEW ev \in EventsFrom(s, s)
  PROVE  WellFormed(ev)
<1> DEFINE heads == {s.head} \ {None}
<1>1. heads \subseteq Heads
  BY Zenon DEF Records, Option
<1>2. EventCase(s, ev)
  BY EventCases, Zenon
<1> HIDE DEF heads
<1>a. "text" \in Texts
  BY Zenon DEF Texts
<1>3. CASE ev \in {PlanEvent("text"), BlockEvent("text"), CancelMergeEvent}
  BY <1>3, <1>a DEF WellFormed, PlanEvent, BlockEvent, CancelMergeEvent
<1>4. ASSUME NEW p \in Phases, NEW h \in Option(Heads), ev = MoveEvent(p, h)
      PROVE  WellFormed(ev)
  BY <1>4, Zenon DEF WellFormed, MoveEvent
<1>5. ASSUME NEW p \in ReviewPhases, NEW r, NEW v, NEW h \in Option(heads),
             NEW ok \in BOOLEAN, ev = DecideEvent(p, r, v, h, ok, "text")
      PROVE  WellFormed(ev)
  BY <1>5, <1>1, <1>a, Zenon DEF WellFormed, DecideEvent, Option
<1>6. ASSUME NEW h \in heads, ev = VerifiedEvent(h, "text") PROVE WellFormed(ev)
  BY <1>6, <1>1, <1>a, Zenon DEF WellFormed, VerifiedEvent
<1>7. ASSUME NEW n \in PRs \cup {0}, ev = PrEvent(n) PROVE WellFormed(ev)
  BY <1>7, Zenon DEF WellFormed, PrEvent
<1>8. ASSUME NEW r, ev = ReviewDeliveredEvent(r) PROVE WellFormed(ev)
  BY <1>8, Zenon DEF WellFormed, ReviewDeliveredEvent
<1>9. ASSUME NEW h, ev = BeginMergeEvent(h) PROVE WellFormed(ev)
  BY <1>9, Zenon DEF WellFormed, BeginMergeEvent
<1>10. ASSUME NEW n \in PRs, ev = ReconcileMergedEvent(n, "text") PROVE WellFormed(ev)
  BY <1>10, <1>a, Zenon DEF WellFormed, ReconcileMergedEvent
<1>11. ASSUME NEW n \in PRs, NEW h, ev = MergedEvent(n, h, "text") PROVE WellFormed(ev)
  BY <1>11, <1>a, Zenon DEF WellFormed, MergedEvent
<1> QED
  BY <1>2, <1>3, <1>4, <1>5, <1>6, <1>7, <1>8, <1>9, <1>10, <1>11 DEF EventCase, heads

\* A script writes a record that keeps the gates: the one it was based on, or
\* one of the next version.
LEMMA ScriptNext ==
  ASSUME NEW x, NEW n, ScriptOK(x, n)
  PROVE  /\ Gated(x.next) /\ Named(x.next)
         /\ \/ x.next = Decode(x.base)
            \/ x.next.version = Decode(x.base).version + 1
<1> DEFINE s == Decode(x.base)
<1>1. Gated(s) /\ Named(s) /\ s \in Records
  BY DecodeGated, Zenon DEF ScriptOK, Gated
<1>2. PICK actor \in Actors : \E ev \in EventsFrom(s, s) :
          Accepts(s, actor, ev) /\ x.next = Apply(s, actor, ev)
  BY Zenon DEF ScriptOK
<1>3. PICK ev \in EventsFrom(s, s) : Accepts(s, actor, ev) /\ x.next = Apply(s, actor, ev)
  BY <1>2, Zenon
<1> HIDE DEF s
<1>4. WellFormed(ev)
  BY <1>1, EventsWellFormed, Zenon
<1>5. CASE ev.type = "move" /\ ev.phase = s.phase
  BY <1>1, <1>3, <1>5, Zenon DEF Apply, s
<1>6. CASE ~(ev.type = "move" /\ ev.phase = s.phase)
  <2> DEFINE t == Effect(s, actor, ev)
  <2>1. Gated(t) /\ t \in Records
    BY <1>1, <1>3, <1>4, <1>6, EffectGated, Zenon DEF Gated
  <2>2. t.version = s.version /\ Named(t)
    BY <1>1, <1>3, <1>4, EffectCount, Zenon DEF KeepsCount
  <2>3. x.next = [t EXCEPT !.version = @ + 1]
    BY <1>3, <1>6, Zenon DEF Apply
  <2>4. Gated(x.next)
    BY <1>1, <1>3, <1>4, AppliedGated, Zenon
  <2> HIDE DEF t
  <2>5. x.next.version = s.version + 1 /\ x.next.pr_delivery = t.pr_delivery
    BY <2>1, <2>2, <2>3 DEF Records
  <2> QED
    BY <2>2, <2>4, <2>5, Zenon DEF Named, s
<1> QED
  BY <1>5, <1>6, Zenon

-----------------------------------------------------------------------------
\* What a script promises holds however many are sent after it.
LEMMA ScriptKept ==
  ASSUME NEW x, NEW n \in Nat, NEW m \in Nat, n <= m, ScriptOK(x, n)
  PROVE  ScriptOK(x, m)
<1>1. Decode(x.base).version \in Nat
  BY DecodeGated, Zenon DEF ScriptOK, Gated, Records
<1> QED
  BY <1>1 DEF ScriptOK

\* The invariant, as facts about the two sides of a step that leaves the key
\* and the scripts alone and gives client c the place k.
LEMMA ClientStep ==
  ASSUME StoreInv, NEW c \in Clients, NEW k,
         client' = [client EXCEPT ![c] = k], raw' = raw, UNCHANGED sends,
         flight' \subseteq flight, ClientOK(k, current), k.won = 0
  PROVE  StoreInv'
<1>1. current' = current
  BY Zenon DEF current
<1>2. client = [d \in Clients |-> client[d]]
  BY Zenon DEF StoreInv
<1>3. \A d \in Clients : client'[d] = IF d = c THEN k ELSE client[d]
  BY <1>2, Zenon
<1>4. client' = [d \in Clients |-> client'[d]]
  BY <1>2, Zenon
<1>5. \A d \in Clients : ClientOK(client'[d], current)
  BY <1>3, Zenon DEF StoreInv
<1>6. OneWinnerPerVersion'
  BY <1>3, Zenon DEF StoreInv, OneWinnerPerVersion
<1> QED
  BY <1>1, <1>4, <1>5, <1>6, Zenon DEF StoreInv

\* Init establishes the invariant.
LEMMA StoreInit == ASSUME Init PROVE StoreInv
<1>1. RawOK(raw)
  BY Zenon DEF Init, RawOK
<1>2. current.version <= 9 /\ current.version \in Nat
  BY <1>1, StartingDecode, DecodeGated, Zenon DEF Init, current, Gated, Records
<1>3. client = [c \in Clients |-> Idle(0)]
  BY Zenon DEF Init
<1>4. \A c \in Clients : client[c] = Idle(0) /\ client[c].won = 0
  BY <1>3, Zenon DEF Idle
<1>5. client = [c \in Clients |-> client[c]]
  BY <1>3, Zenon
<1>6. ClientOK(Idle(0), current)
  BY <1>2 DEF ClientOK, Idle
<1>7. OneWinnerPerVersion
  BY <1>4, Zenon DEF OneWinnerPerVersion
<1>8. flight = {} /\ sends = 0 /\ sends \in 0..MaxSends
  BY BoundsAssumption DEF Init
<1> QED
  BY <1>1, <1>2, <1>4, <1>5, <1>6, <1>7, <1>8 DEF StoreInv

\* The store holds a record, whatever it holds.
LEMMA CurrentGated ==
  ASSUME StoreInv
  PROVE  Gated(current) /\ Named(current) /\ current \in Records
         /\ current.version \in Nat
  BY DecodeGated, Zenon DEF StoreInv, current, Gated, Records

\* SharedStore::lifecycle, a refusal and a timeout change nothing but the
\* client that called, and perhaps lose its script.
LEMMA QuietStep ==
  ASSUME StoreInv, NEW c \in Clients, ReadStatus(c) \/ Refused(c) \/ Timeout(c)
  PROVE  StoreInv'
<1>1. current \in Records /\ current.version \in Nat
  BY CurrentGated, Zenon
<1>2. ClientOK(Idle(0), current) /\ Idle(0).won = 0
  BY <1>1 DEF ClientOK, Idle
<1>3. CASE ReadStatus(c)
  <2> DEFINE k == [pc |-> "deciding", won |-> 0, seen |-> current, script |-> None]
  <2>1. ClientOK(k, current) /\ k.won = 0
    BY <1>1 DEF ClientOK
  <2>2. client' = [client EXCEPT ![c] = k] /\ raw' = raw /\ flight' = flight /\ UNCHANGED sends
    BY <1>3, Zenon DEF ReadStatus
  <2> HIDE DEF k
  <2> QED
    BY <2>1, <2>2, ClientStep, Zenon
<1>4. CASE Refused(c)
  BY <1>2, <1>4, ClientStep, Zenon DEF Refused
<1>5. CASE Timeout(c)
  BY <1>2, <1>5, ClientStep, Zenon DEF Timeout
<1> QED
  BY <1>3, <1>4, <1>5, Zenon

\* SharedStore::transition up to the script: because the version read still
\* matches, the event is about the record the client saw.
LEMMA SendStep ==
  ASSUME StoreInv, NEW c \in Clients, SendScript(c)
  PROVE  StoreInv'
<1>1. /\ current \in Records /\ current.version \in Nat
      /\ sends \in Nat /\ sends < MaxSends /\ sends' = sends + 1 /\ raw' = raw
  <2>1. current \in Records /\ current.version \in Nat
    BY CurrentGated, Zenon
  <2>2. sends \in Nat
    BY DEF StoreInv
  <2>3. sends < MaxSends /\ sends' = sends + 1 /\ raw' = raw
    BY Zenon DEF SendScript
  <2> QED
    BY ONLY <2>1, <2>2, <2>3, Zenon
<1>2. client[c].seen = current
  BY Zenon DEF StoreInv, ClientOK, SendScript
<1>3. PICK actor \in Actors, ev \in EventsFrom(current, client[c].seen) :
        /\ Accepts(current, actor, ev)
        /\ LET script == [by |-> c, base |-> raw, next |-> Apply(current, actor, ev)]
           IN  /\ flight' = flight \cup {script}
               /\ client' = [client EXCEPT ![c] =
                              [pc |-> "sent", won |-> 0, seen |-> None, script |-> script]]
  BY Zenon DEF SendScript
<1> DEFINE x == [by |-> c, base |-> raw, next |-> Apply(current, actor, ev)]
           k == [pc |-> "sent", won |-> 0, seen |-> None, script |-> x]
<1>4. x.by = c /\ x.base = raw /\ x.next = Apply(current, actor, ev)
  BY Zenon
<1>5. k.pc = "sent" /\ k.won = 0
  BY Zenon
<1>6. flight' = flight \cup {x} /\ client' = [client EXCEPT ![c] = k]
  BY <1>3, Zenon
<1> HIDE DEF x, k
<1>7. current' = current
  BY <1>1, Zenon DEF current
<1>8. ScriptOK(x, sends')
  <2>1. RawOK(x.base) /\ Decode(x.base) = current
    BY <1>4, Zenon DEF StoreInv, current
  <2>2. current.version < 9 + sends'
    BY <1>1 DEF StoreInv
  <2> QED
    BY <1>2, <1>3, <1>4, <2>1, <2>2, Zenon DEF ScriptOK
<1>9. \A y \in flight : ScriptOK(y, sends')
  BY <1>1, ScriptKept DEF StoreInv
<1>10. client = [d \in Clients |-> client[d]]
  BY Zenon DEF StoreInv
<1>11. /\ client' = [d \in Clients |-> client'[d]]
       /\ \A d \in Clients : client'[d] = IF d = c THEN k ELSE client[d]
  BY <1>6, <1>10, Zenon
<1>12. ClientOK(k, current)
  BY <1>1, <1>5 DEF ClientOK
<1>13. OneWinnerPerVersion'
  BY <1>5, <1>11, Zenon DEF StoreInv, OneWinnerPerVersion
<1>14. current.version <= 9 + sends' /\ sends' \in 0..MaxSends
  BY <1>1, BoundsAssumption DEF StoreInv
<1>15. RawOK(raw)' /\ \A d \in Clients : ClientOK(client'[d], current)
  BY <1>1, <1>11, <1>12, Zenon DEF StoreInv
<1> QED
  BY <1>6, <1>7, <1>8, <1>9, <1>11, <1>13, <1>14, <1>15 DEF StoreInv

\* Redis runs a script that no longer matches: the record stays.
LEMMA LateStep ==
  ASSUME StoreInv, NEW x \in flight, RunScript(x), ~Matches(x)
  PROVE  StoreInv'
<1>1. raw' = raw /\ flight' \subseteq flight /\ UNCHANGED sends /\ x.by \in Clients
  BY Zenon DEF RunScript, StoreInv, ScriptOK
<1>2. ClientOK(Idle(0), current) /\ Idle(0).won = 0
  BY CurrentGated DEF ClientOK, Idle
<1>3. CASE client' = client
  <2>1. current' = current
    BY <1>1, Zenon DEF current
  <2> QED
    BY <1>1, <1>3, <2>1, Zenon DEF StoreInv, OneWinnerPerVersion
<1>4. CASE client' = [client EXCEPT ![x.by] = Idle(0)]
  BY <1>1, <1>2, <1>4, ClientStep, Zenon
<1> QED
  BY <1>3, <1>4, Zenon DEF RunScript

\* Redis runs a script that matches: the record becomes the script's, which
\* is the same record or one of the next version.
LEMMA WinningScript ==
  ASSUME StoreInv, NEW x \in flight, RunScript(x), Matches(x)
  PROVE  /\ ScriptOK(x, sends) /\ Decode(x.base) = current
         /\ RawOK(raw') /\ current' = x.next /\ current' \in Records
         /\ current' = current \/ current'.version = current.version + 1
<1>1. ScriptOK(x, sends) /\ raw = x.base /\ raw' = Json(x.next)
  BY Zenon DEF StoreInv, RunScript, Matches
<1>2. Decode(x.base) = current
  BY <1>1, Zenon DEF current
<1>3. /\ Gated(x.next) /\ Named(x.next)
      /\ x.next = current \/ x.next.version = current.version + 1
  BY <1>1, <1>2, ScriptNext, Zenon
<1>4. current' = x.next
  BY <1>1, <1>3, DecodeJson, Zenon DEF current
<1>5. x.next \in Records
  BY <1>3, Zenon DEF Gated
<1> QED
  BY <1>1, <1>2, <1>3, <1>4, <1>5, Zenon DEF RawOK

\* Whoever is told of a new version is the only one told of it: every other
\* win is at most as new as the record that was replaced.
LEMMA WinStep ==
  ASSUME StoreInv, NEW x \in flight, RunScript(x), Matches(x)
  PROVE  StoreInv'
<1> DEFINE w == Created(x)
           k == Idle(w)
<1>1. /\ ScriptOK(x, sends) /\ Decode(x.base) = current /\ RawOK(raw')
      /\ current' = x.next /\ current' \in Records
      /\ current' = current \/ current'.version = current.version + 1
  BY WinningScript, Zenon
<1>2. current.version \in Nat /\ current'.version \in Nat
  BY <1>1, CurrentGated, Zenon DEF Records
<1>3. \/ current' = current /\ w = 0
      \/ current'.version = current.version + 1 /\ w = current.version + 1
  BY <1>1, <1>2 DEF Created
<1>4. k.pc = "idle" /\ k.won = w
  BY Zenon DEF Idle
<1>5. sends \in Nat /\ sends' = sends /\ x.by \in Clients /\ flight' \subseteq flight
  <2>1. sends \in Nat
    BY DEF StoreInv
  <2>2. x.by \in Clients
    BY ONLY <1>1, Zenon DEF ScriptOK
  <2>3. sends' = sends /\ flight' \subseteq flight
    BY Zenon DEF RunScript
  <2> QED
    BY ONLY <2>1, <2>2, <2>3, Zenon
<1>6. client' = client \/ client' = [client EXCEPT ![x.by] = k]
  BY Zenon DEF RunScript
<1> HIDE DEF k, w
<1>7. client = [d \in Clients |-> client[d]]
  BY Zenon DEF StoreInv
<1>8. /\ client' = [d \in Clients |-> client'[d]]
      /\ \A d \in Clients : client'[d] = client[d] \/ (d = x.by /\ client'[d] = k)
  BY <1>5, <1>6, <1>7, Zenon
<1>9. ClientOK(k, current')
  BY ONLY <1>2, <1>3, <1>4 DEF ClientOK
<1>10. ASSUME NEW d \in Clients PROVE ClientOK(client[d], current')
  <2>1. ClientOK(client[d], current)
    BY Zenon DEF StoreInv
  <2>2. CASE current' = current
    BY <2>1, <2>2, Zenon
  <2>3. CASE current'.version = current.version + 1
    <3>1. client[d].pc = "deciding" => client[d].seen.version \in Nat
      BY <2>1, Zenon DEF ClientOK, Records
    <3> QED
      BY ONLY <1>2, <2>1, <2>3, <3>1 DEF ClientOK
  <2> QED
    BY <1>1, <2>2, <2>3, Zenon
<1>11. OneWinnerPerVersion'
  <2>1. \A d \in Clients : client[d].won \in Nat /\ client[d].won <= current.version
    BY Zenon DEF StoreInv, ClientOK
  <2>2. \A d \in Clients : w # 0 => client[d].won # w
    BY <1>2, <1>3, <2>1
  <2>3. ASSUME NEW c \in Clients, NEW d \in Clients, c # d, client'[c].won # 0
        PROVE  client'[c].won # client'[d].won
    <3>1. CASE client'[c] = client[c] /\ client'[d] = client[d]
      BY <2>3, <3>1, Zenon DEF StoreInv, OneWinnerPerVersion
    <3>2. CASE client'[c] = k /\ client'[d] = client[d]
      BY <1>4, <2>2, <2>3, <3>2, Zenon
    <3>3. CASE client'[c] = client[c] /\ client'[d] = k
      BY <1>4, <2>2, <2>3, <3>3, Zenon
    <3> QED
      BY <1>8, <2>3, <3>1, <3>2, <3>3
  <2> QED
    BY <2>3, Zenon DEF OneWinnerPerVersion
<1>12. current'.version <= 9 + sends'
  <2>1. current.version < 9 + sends /\ current.version <= 9 + sends
    BY <1>1, Zenon DEF ScriptOK, StoreInv
  <2> QED
    BY <1>1, <1>2, <1>5, <2>1
<1> QED
  BY <1>1, <1>5, <1>8, <1>9, <1>10, <1>11, <1>12 DEF StoreInv

\* Every step of the store preserves the invariant.
LEMMA StoreNext == ASSUME StoreInv, Next PROVE StoreInv'
<1>1. ASSUME NEW c \in Clients, ReadStatus(c) \/ SendScript(c) \/ Refused(c) \/ Timeout(c)
      PROVE  StoreInv'
  BY <1>1, QuietStep, SendStep, Zenon
<1>2. ASSUME NEW x \in flight, RunScript(x) PROVE StoreInv'
  BY <1>2, LateStep, WinStep, Zenon
<1> QED
  BY <1>1, <1>2, Zenon DEF Next

-----------------------------------------------------------------------------
\* The invariant holds of the store at all times.
THEOREM StoreInvAlways == Spec => []StoreInv
<1>1. StoreInv /\ [Next]_vars => StoreInv'
  <2>1. ASSUME StoreInv, UNCHANGED vars PROVE StoreInv'
    BY <2>1, Zenon DEF vars, StoreInv, OneWinnerPerVersion, current
  <2> QED
    BY <2>1, StoreNext, Zenon
<1> QED
  BY <1>1, StoreInit, PTL DEF Spec

\* Records, clients and scripts keep their types.
THEOREM StoreTypes == Spec => []TypeOK
<1>1. ASSUME StoreInv PROVE TypeOK
  <2>1. \A script \in flight : /\ script.by \in Clients
                               /\ Decode(script.base) \in Records
                               /\ script.next \in Records
    BY <1>1, ScriptNext, DecodeGated, Zenon DEF StoreInv, ScriptOK, Gated
  <2>2. \A c \in Clients : ClientOK(client[c], current)
    BY <1>1, Zenon DEF StoreInv
  <2>3. current \in Records /\ sends \in 0..MaxSends
    BY <1>1, CurrentGated, Zenon DEF StoreInv
  <2> QED
    BY <2>1, <2>2, <2>3, Zenon DEF TypeOK, ClientOK
<1> QED
  BY <1>1, StoreInvAlways, PTL

\* The version check of SharedStore::transition is enough: a client whose
\* version still matches has seen exactly the record that is stored.
THEOREM VersionsNameRecords == Spec => []VersionNamesRecord
<1>1. ASSUME StoreInv PROVE VersionNamesRecord
  BY <1>1, Zenon DEF StoreInv, ClientOK, VersionNamesRecord
<1> QED
  BY <1>1, StoreInvAlways, PTL

\* Two clients of SharedStore::transition are never both told Ok for the same
\* version, however many scripts of timed-out calls run late.
THEOREM WinnersAreUnique == Spec => []OneWinnerPerVersion
<1>1. ASSUME StoreInv PROVE OneWinnerPerVersion
  BY <1>1, Zenon DEF StoreInv
<1> QED
  BY <1>1, StoreInvAlways, PTL

-----------------------------------------------------------------------------
\* The records the atomic lifecycle starts from are the ones decode gives.
LEMMA AtomicInitialRecords == Atomic!InitialRecords = InitialRecords
  BY DEF Atomic!InitialRecords, InitialRecords, Atomic!Default, Default, Atomic!LegacyActive,
         LegacyActive, Atomic!LegacyDone, LegacyDone, Atomic!Normalised, Normalised,
         Atomic!UnboundSubmit, UnboundSubmit, Atomic!UnboundVerdict, UnboundVerdict

\* The atomic lifecycle accepts an event when the reducer of the store does.
LEMMA AtomicAccepts ==
  ASSUME NEW s, NEW actor, NEW ev
  PROVE  Atomic!Accepts(s, actor, ev) <=> Accepts(s, actor, ev)
<1>1. Atomic!MayMove(s, actor, ev) <=> MayMove(s, actor, ev)
  BY Zenon DEF Atomic!MayMove, MayMove, Atomic!Permitted, Permitted, Atomic!Approved, Approved
<1>2. Atomic!MayDecide(s, actor, ev) <=> MayDecide(s, actor, ev)
  BY Zenon DEF Atomic!MayDecide, MayDecide, Atomic!SameReview, SameReview,
         Atomic!ReviewPhases, ReviewPhases
<1>3. \A h : Atomic!MergeReady(s, h) <=> MergeReady(s, h)
  BY Zenon DEF Atomic!MergeReady, MergeReady, Atomic!Approved, Approved
<1> QED
  BY <1>1, <1>2, <1>3, Zenon
  DEF Atomic!Accepts, Accepts, Atomic!ReservationAllows, ReservationAllows,
      Atomic!MayPlan, MayPlan, Atomic!MayBlock, MayBlock, Atomic!MayVerified, MayVerified,
      Atomic!MayPr, MayPr, Atomic!MayReviewDelivered, MayReviewDelivered,
      Atomic!MayBeginMerge, MayBeginMerge, Atomic!MayCancelMerge, MayCancelMerge,
      Atomic!MayReconcileMerged, MayReconcileMerged, Atomic!MayMerged, MayMerged

\* It changes the record the same way.
LEMMA AtomicApply ==
  ASSUME NEW s, NEW actor, NEW ev
  PROVE  Atomic!Apply(s, actor, ev) = Apply(s, actor, ev)
<1>1. \A t : Atomic!ClearWork(t) = ClearWork(t)
  BY Zenon DEF Atomic!ClearWork, ClearWork
<1>2. Atomic!AfterPlan(s, ev) = AfterPlan(s, ev)
  BY <1>1, Zenon DEF Atomic!AfterPlan, AfterPlan
<1>3. Atomic!AfterMove(s, ev) = AfterMove(s, ev)
  BY <1>1 DEF Atomic!AfterMove, AfterMove, Atomic!ReviewPhases, ReviewPhases
<1>4. Atomic!AfterBlock(s, ev) = AfterBlock(s, ev)
  BY <1>1, Zenon DEF Atomic!AfterBlock, AfterBlock
<1>5. Atomic!DecisionOf(s, actor, ev) = DecisionOf(s, actor, ev)
  BY Zenon DEF Atomic!DecisionOf, DecisionOf
<1>6. Atomic!Recorded(s, actor, ev) = Recorded(s, actor, ev)
  BY <1>5, Zenon DEF Atomic!Recorded, Recorded
<1>7. \A t : Atomic!AfterTestingApproval(t) = AfterTestingApproval(t)
  BY Zenon DEF Atomic!AfterTestingApproval, AfterTestingApproval
<1>8. Atomic!AfterDecide(s, actor, ev) = AfterDecide(s, actor, ev)
  BY <1>1, <1>6, <1>7, Zenon DEF Atomic!AfterDecide, AfterDecide
<1>9. Atomic!AfterVerified(s, ev) = AfterVerified(s, ev)
  BY Zenon DEF Atomic!AfterVerified, AfterVerified
<1>10. Atomic!AfterPr(s, ev) = AfterPr(s, ev)
  BY Zenon DEF Atomic!AfterPr, AfterPr
<1>11. /\ Atomic!AfterReviewDelivered(s) = AfterReviewDelivered(s)
       /\ Atomic!AfterBeginMerge(s) = AfterBeginMerge(s)
       /\ Atomic!AfterCancelMerge(s) = AfterCancelMerge(s)
  BY Zenon DEF Atomic!AfterReviewDelivered, AfterReviewDelivered, Atomic!AfterBeginMerge,
         AfterBeginMerge, Atomic!AfterCancelMerge, AfterCancelMerge
<1>12. /\ Atomic!AfterReconcileMerged(s, ev) = AfterReconcileMerged(s, ev)
       /\ Atomic!AfterMerged(s, ev) = AfterMerged(s, ev)
  BY Zenon
     DEF Atomic!AfterReconcileMerged, AfterReconcileMerged, Atomic!AfterMerged, AfterMerged
<1>13. Atomic!Effect(s, actor, ev) = Effect(s, actor, ev)
  BY <1>2, <1>3, <1>4, <1>8, <1>9, <1>10, <1>11, <1>12 DEF Atomic!Effect, Effect
<1> QED
  BY <1>13, Zenon DEF Atomic!Apply, Apply

\* An accepted event on the stored record is a step of the atomic lifecycle.
LEMMA AtomicStep ==
  ASSUME NEW actor \in Actors, current \in Records, NEW ev \in EventsFrom(current, current),
         current.version < MaxVersion, Accepts(current, actor, ev),
         current' = Apply(current, actor, ev)
  PROVE  Atomic!Next
<1>1. Atomic!Commit(actor, ev)
  BY AtomicAccepts, AtomicApply, Zenon DEF Atomic!Commit
<1> DEFINE heads == {current.head} \ {None}
<1>2. heads \subseteq Heads
  BY Zenon DEF Records, Option
<1>3. actor \in Atomic!Actors
  BY Zenon DEF Actors, Atomic!Actors
<1>4. "text" \in Atomic!Texts
  BY Zenon DEF Atomic!Texts
<1>5. /\ current.review_round \in Atomic!Current(current.review_round)
      /\ current.revision \in Atomic!Current(current.revision)
  BY Zenon DEF Records, Atomic!Current
<1>6. Option(heads) \subseteq Atomic!Option(Heads) /\ Option(Heads) = Atomic!Option(Heads)
  BY <1>2, Zenon DEF Option, Atomic!Option
<1> HIDE DEF heads
<1>7. CASE ev = PlanEvent("text")
  <2>1. Atomic!Plan(actor)
    BY <1>1, <1>4, <1>7, Zenon DEF Atomic!Plan, PlanEvent, Atomic!PlanEvent
  <2> QED
    BY <1>3, <2>1, Zenon DEF Atomic!Next
<1>8. CASE ev = BlockEvent("text")
  <2>1. Atomic!Block(actor)
    BY <1>1, <1>4, <1>8, Zenon DEF Atomic!Block, BlockEvent, Atomic!BlockEvent
  <2> QED
    BY <1>3, <2>1, Zenon DEF Atomic!Next
<1>9. CASE ev = CancelMergeEvent
  <2>1. Atomic!CancelMerge(actor)
    BY <1>1, <1>9, Zenon DEF Atomic!CancelMerge, CancelMergeEvent, Atomic!CancelMergeEvent
  <2> QED
    BY <1>3, <2>1, Zenon DEF Atomic!Next
<1>10. ASSUME NEW p \in Phases, NEW h \in Option(Heads), ev = MoveEvent(p, h)
       PROVE  Atomic!Next
  <2>1. p \in Atomic!Phases
    BY Zenon DEF Phases, Atomic!Phases
  <2>2. Atomic!Move(actor)
    BY <1>1, <1>6, <1>10, <2>1, Zenon DEF Atomic!Move, MoveEvent, Atomic!MoveEvent
  <2> QED
    BY <1>3, <2>2, Zenon DEF Atomic!Next
<1>11. ASSUME NEW p \in ReviewPhases, NEW h \in Option(heads), NEW ok \in BOOLEAN,
              ev = DecideEvent(p, current.review_round, current.revision, h, ok, "text")
       PROVE  Atomic!Next
  <2>1. p \in Atomic!ReviewPhases /\ h \in Atomic!Option(Heads)
    BY <1>6, Zenon DEF ReviewPhases, Atomic!ReviewPhases
  <2>2. Atomic!Commit(actor, Atomic!DecideEvent(p, current.review_round, current.revision,
                                                h, ok, "text"))
    BY <1>1, <1>11, Zenon DEF DecideEvent, Atomic!DecideEvent
  <2>3. Atomic!Decide(actor)
    BY <1>4, <1>5, <2>1, <2>2, Zenon DEF Atomic!Decide
  <2> QED
    BY <1>3, <2>3, Zenon DEF Atomic!Next
<1>12. ASSUME NEW h \in heads, ev = VerifiedEvent(h, "text") PROVE Atomic!Next
  <2>1. Atomic!Verified(actor)
    BY <1>1, <1>2, <1>4, <1>12, Zenon DEF Atomic!Verified, VerifiedEvent, Atomic!VerifiedEvent
  <2> QED
    BY <1>3, <2>1, Zenon DEF Atomic!Next
<1>13. ASSUME NEW n \in PRs \cup {0}, ev = PrEvent(n) PROVE Atomic!Next
  <2>1. Atomic!Pr(actor)
    BY <1>1, <1>13, Zenon DEF Atomic!Pr, PrEvent, Atomic!PrEvent
  <2> QED
    BY <1>3, <2>1, Zenon DEF Atomic!Next
<1>14. CASE ev = ReviewDeliveredEvent(current.review_round)
  <2>1. Atomic!ReviewDelivered(actor)
    BY <1>1, <1>5, <1>14, Zenon
    DEF Atomic!ReviewDelivered, ReviewDeliveredEvent, Atomic!ReviewDeliveredEvent
  <2> QED
    BY <1>3, <2>1, Zenon DEF Atomic!Next
<1>15. ASSUME NEW h \in heads, ev = BeginMergeEvent(h) PROVE Atomic!Next
  <2>1. Atomic!BeginMerge(actor)
    BY <1>1, <1>2, <1>15, Zenon DEF Atomic!BeginMerge, BeginMergeEvent, Atomic!BeginMergeEvent
  <2> QED
    BY <1>3, <2>1, Zenon DEF Atomic!Next
<1>16. ASSUME NEW n \in PRs, ev = ReconcileMergedEvent(n, "text") PROVE Atomic!Next
  <2>1. Atomic!ReconcileMerged(actor)
    BY <1>1, <1>4, <1>16, Zenon
    DEF Atomic!ReconcileMerged, ReconcileMergedEvent, Atomic!ReconcileMergedEvent
  <2> QED
    BY <1>3, <2>1, Zenon DEF Atomic!Next
<1>17. ASSUME NEW n \in PRs, NEW h \in heads, ev = MergedEvent(n, h, "text") PROVE Atomic!Next
  <2>1. Atomic!Merged(actor)
    BY <1>1, <1>2, <1>4, <1>17, Zenon DEF Atomic!Merged, MergedEvent, Atomic!MergedEvent
  <2> QED
    BY <1>3, <2>1, Zenon DEF Atomic!Next
<1> QED
  <2>1. EventCase(current, ev)
    BY EventCases, Zenon
  <2> QED
    BY <2>1, <1>7, <1>8, <1>9, <1>10, <1>11, <1>12, <1>13, <1>14, <1>15, <1>16, <1>17
    DEF EventCase, heads

\* A script that wins is a step of the atomic lifecycle, or leaves the record.
LEMMA WinIsAtomic ==
  ASSUME StoreInv, NEW x \in flight, RunScript(x), Matches(x)
  PROVE  Atomic!Next
<1>1. ScriptOK(x, sends) /\ Decode(x.base) = current /\ current' = x.next
  BY WinningScript, Zenon
<1>2. current \in Records /\ current.version \in Nat
  BY CurrentGated, Zenon
<1>3. current.version < MaxVersion
  BY <1>1, <1>2, BoundsAssumption DEF ScriptOK, StoreInv
<1> QED
  <2>1. PICK actor \in Actors, ev \in EventsFrom(current, current) :
          Accepts(current, actor, ev) /\ x.next = Apply(current, actor, ev)
    BY ONLY <1>1, Zenon DEF ScriptOK
  <2> QED
    BY ONLY <1>1, <1>2, <1>3, <2>1, AtomicStep, Zenon

\* SharedStore::transition implements Lifecycle::apply: whatever clients read
\* and whenever their scripts run or are lost, every change of the stored
\* record is one accepted event applied to the record it replaces.
THEOREM StoreImplementsLifecycle == Spec => AtomicLifecycle
<1>1. Init => Atomic!Init
  BY StartingDecode, AtomicInitialRecords, Zenon DEF Init, Atomic!Init, current
<1>2. StoreInv /\ [Next]_vars => [Atomic!Next]_current
  <2>1. ASSUME raw' = raw PROVE current' = current
    BY <2>1, Zenon DEF current
  <2>2. ASSUME StoreInv, NEW x \in flight, RunScript(x) PROVE [Atomic!Next]_current
    BY <2>1, <2>2, WinIsAtomic, Zenon DEF RunScript
  <2>3. ASSUME NEW c \in Clients, ReadStatus(c) \/ SendScript(c) \/ Refused(c) \/ Timeout(c)
        PROVE  raw' = raw
    BY <2>3, Zenon DEF ReadStatus, SendScript, Refused, Timeout
  <2> QED
    BY <2>1, <2>2, <2>3, Zenon DEF Next, vars
<1> QED
  BY <1>1, <1>2, StoreInvAlways, PTL DEF Spec, AtomicLifecycle, Atomic!Spec
=============================================================================
