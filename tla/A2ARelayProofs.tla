--------------------------- MODULE A2ARelayProofs ---------------------------
(***************************************************************************)
(* Delegated verification, for every number of tasks, commands, concurrent *)
(* requests and executors, and every number of crashes, restarts, lost     *)
(* replies and cancellations: the evidence on a ticket is real, identical  *)
(* requests share one live task, and no task has two executors.            *)
(***************************************************************************)
EXTENDS A2ARelay, TLAPS

\* A ticket whose verification_task is a task of the relay.
Tickets ==
    [merge_pending     : BOOLEAN,
     pr_delivery       : Option(Decisions),
     review_round      : Nat,
     version           : Nat,
     phase             : Phases,
     plan              : Texts,
     revision          : Nat,
     head              : Option(Heads),
     plan_decision     : Option(Decisions),
     test_decision     : Option(Decisions),
     test_human        : Option(Decisions),
     pr_decision       : Option(Decisions),
     pr_human          : Option(Decisions),
     verified_head     : Option(Heads),
     verification_task : Option(Tasks),
     pr_number         : Option(PRs),
     merge_sha         : Option(Texts),
     feedback          : Option(Texts)]

Asks ==
    [pc : {"idle", "submit", "poll", "record"}, version : Nat, head : Option(Heads),
     command : Option(Commands), task : Option(Tasks)]

Execs ==
    [pc : {"idle", "claimed", "running", "complete", "publish"}, task : Option(Tasks),
     command : Option(Commands), head : Option(Heads), result : Option(Results)]

\* A result r for task t that claims success on a commit: the task really
\* ended with exit 0 on that commit.
Sound(t, r, ran) ==
    (r # None /\ r.exit = "zero" /\ r.head # None) => <<t, r.head>> \in ran

\* The relay's entry x for task t: it was handed out, its result is sound,
\* and while it is live its command leads to it.
EntryOK(t, x, keys, ids, ran) ==
    x # None =>
        /\ t \in ids /\ Sound(t, x.result, ran)
        /\ x.state = "completed" => x.result # None
        /\ x.state \in {"pending", "running"} => keys[x.command] = t

\* A deduplication key leads to an entry of its command.
KeyOK(c, keys, table) ==
    keys[c] # None => table[keys[c]] # None /\ table[keys[c]].command = c

\* SENTINEL's verify_request.
AskOK(k, ids, ran) ==
    /\ k.pc # "idle" => k.head \in Heads /\ k.command \in Commands
    /\ k.pc \in {"poll", "record"} => k.task \in ids
    /\ k.pc = "record" => <<k.task, k.head>> \in ran

\* FORGE's verify_serve: its task is no longer pending, so nobody else can
\* claim it, and what it is about to report is sound.
ExecOK(x, table, ids, ran) ==
    /\ x.pc = "idle" <=> x.task = None
    /\ x.pc # "idle" =>
          /\ x.task \in ids /\ x.command \in Commands
          /\ table[x.task] # None =>
               table[x.task].state # "pending" /\ table[x.task].command = x.command
    /\ x.pc = "running" => x.head \in Heads
    /\ x.pc \in {"complete", "publish"} => x.result \in Results /\ Sound(x.task, x.result, ran)

\* The ticket: its evidence names a task that passed on that commit.
TicketOK(s, ids, ran) ==
    /\ s \in Tickets /\ s.verification_task \in Option(ids)
    /\ s.verified_head # None => <<s.verification_task, s.verified_head>> \in ran

\* The inductive invariant.
RelayInv ==
    /\ TicketOK(ticket, issued, passed) /\ checkout \in Option(Heads)
    /\ tasks \in [Tasks -> Option(Entries)] /\ idempotency \in [Commands -> Option(Tasks)]
    /\ cancels \in [Tasks -> {"none", "mirror", "publish", "done"}]
    /\ request \in [Tasks -> Option(Commands)] /\ result \in [Tasks -> Option(Results)]
    /\ sentinel \in [Sentinels -> Asks] /\ exec \in [Executors -> Execs]
    /\ issued \subseteq Tasks /\ passed \subseteq issued \X Heads
    /\ \A t \in Tasks : EntryOK(t, tasks[t], idempotency, issued, passed)
    /\ \A t \in Tasks : Sound(t, result[t], passed)
    /\ \A c \in Commands : KeyOK(c, idempotency, tasks)
    /\ \A s \in Sentinels : AskOK(sentinel[s], issued, passed)
    /\ \A e \in Executors : ExecOK(exec[e], tasks, issued, passed)
    /\ \A e, f \in Executors : e # f /\ exec[e].task # None => exec[e].task # exec[f].task

\* What the audit trail holds when every write reaches it.
Audited ==
    /\ \A t \in Tasks : (tasks[t] # None /\ tasks[t].state = "completed") => result[t] # None
    /\ \A e \in Executors : exec[e].pc = "publish" => result[exec[e].task] # None

-----------------------------------------------------------------------------
\* Task ids and passed runs are never forgotten: what was established stays.
LEMMA StaysSound ==
  ASSUME NEW ids, NEW more, ids \subseteq more, NEW ran, NEW now, ran \subseteq now
  PROVE  /\ \A t, r : Sound(t, r, ran) => Sound(t, r, now)
         /\ \A t, x, keys : EntryOK(t, x, keys, ids, ran) => EntryOK(t, x, keys, more, now)
         /\ \A k : AskOK(k, ids, ran) => AskOK(k, more, now)
         /\ \A x, table : ExecOK(x, table, ids, ran) => ExecOK(x, table, more, now)
         /\ \A s : TicketOK(s, ids, ran) => TicketOK(s, more, now)
<1>1. \A t, r : Sound(t, r, ran) => Sound(t, r, now)
  BY Zenon DEF Sound
<1>2. \A t, x, keys : EntryOK(t, x, keys, ids, ran) => EntryOK(t, x, keys, more, now)
  BY <1>1, Zenon DEF EntryOK
<1>3. \A k : AskOK(k, ids, ran) => AskOK(k, more, now)
  BY Zenon DEF AskOK
<1>4. \A x, table : ExecOK(x, table, ids, ran) => ExecOK(x, table, more, now)
  BY <1>1 DEF ExecOK
<1>5. \A s : TicketOK(s, ids, ran) => TicketOK(s, more, now)
  BY Zenon DEF TicketOK, Option
<1> QED
  BY <1>1, <1>2, <1>3, <1>4, <1>5, Zenon

\* A client that is doing nothing.
LEMMA IdleClients ==
  /\ SentinelIdle \in Asks /\ \A ids, ran : AskOK(SentinelIdle, ids, ran)
  /\ ExecIdle \in Execs /\ ExecIdle.pc = "idle" /\ ExecIdle.task = None
  /\ \A table, ids, ran : ExecOK(ExecIdle, table, ids, ran)
<1>1. SentinelIdle \in Asks /\ \A ids, ran : AskOK(SentinelIdle, ids, ran)
  BY Zenon DEF SentinelIdle, Asks, AskOK, Option
<1>2. ExecIdle \in Execs /\ ExecIdle.pc = "idle" /\ ExecIdle.task = None
  BY Zenon DEF ExecIdle, Execs, Option
<1>3. \A table, ids, ran : ExecOK(ExecIdle, table, ids, ran)
  BY <1>2, Zenon DEF ExecOK
<1> QED
  BY <1>1, <1>2, <1>3, Zenon

\* NoEvidence claims nothing.
LEMMA NoEvidenceSound ==
  NoEvidence \in Results /\ NoEvidence # None /\ \A t, ran : Sound(t, NoEvidence, ran)
  BY RelayAssumption DEF NoEvidence, Results, Option, Sound

\* A step of one SENTINEL invocation, which may record evidence on the ticket.
LEMMA AskStep ==
  ASSUME RelayInv, UNCHANGED <<checkout, relay, audit, exec, issued, passed>>,
         TicketOK(ticket', issued, passed), NEW s \in Sentinels, NEW k \in Asks,
         sentinel' = [sentinel EXCEPT ![s] = k], AskOK(k, issued, passed)
  PROVE  RelayInv'
<1>1. sentinel' \in [Sentinels -> Asks] /\ \A r \in Sentinels : AskOK(sentinel'[r], issued, passed)
  BY Zenon DEF RelayInv
<1> QED
  BY <1>1, Zenon DEF RelayInv, relay, audit

\* A step of one executor that leaves the relay's tasks alone.
LEMMA ExecStep ==
  ASSUME RelayInv, UNCHANGED <<ticket, checkout, relay, request, sentinel, issued>>,
         passed \subseteq passed', passed' \subseteq issued \X Heads,
         result' \in [Tasks -> Option(Results)], \A t \in Tasks : Sound(t, result'[t], passed'),
         NEW e \in Executors, NEW x \in Execs, exec' = [exec EXCEPT ![e] = x],
         ExecOK(x, tasks, issued, passed'), x.task \in {exec[e].task, None}
  PROVE  RelayInv'
<1>1. exec' \in [Executors -> Execs] /\ exec'[e] = x /\ \A f \in Executors \ {e} : exec'[f] = exec[f]
  BY Zenon DEF RelayInv
<1>2. \A f \in Executors : ExecOK(exec'[f], tasks, issued, passed')
  BY <1>1, StaysSound, Zenon DEF RelayInv
<1>3. \A f, g \in Executors : f # g /\ exec'[f].task # None => exec'[f].task # exec'[g].task
  BY <1>1 DEF RelayInv
<1>4. /\ TicketOK(ticket, issued, passed')
      /\ \A t \in Tasks : EntryOK(t, tasks[t], idempotency, issued, passed')
      /\ \A s \in Sentinels : AskOK(sentinel[s], issued, passed')
  BY StaysSound, Zenon DEF RelayInv
<1> QED
  BY <1>1, <1>2, <1>3, <1>4, Zenon DEF RelayInv, relay

\* A step of FORGE's checkout or of a tasks/cancel handler before it publishes.
LEMMA SideStep ==
  ASSUME RelayInv, UNCHANGED <<ticket, tasks, idempotency, request, sentinel, exec, issued, passed>>,
         checkout' \in Option(Heads), cancels' \in [Tasks -> {"none", "mirror", "publish", "done"}],
         result' \in [Tasks -> Option(Results)], \A t \in Tasks : Sound(t, result'[t], passed)
  PROVE  RelayInv'
  BY Zenon DEF RelayInv

\* A write of the audit trail, whether it arrives or not.
LEMMA MirrorResult ==
  ASSUME RelayInv, NEW t \in Tasks, NEW r \in Results, NEW ran, passed \subseteq ran,
         Sound(t, r, ran), Mirror(result, t, r)
  PROVE  result' \in [Tasks -> Option(Results)] /\ \A u \in Tasks : Sound(u, result'[u], ran)
<1>1. result \in [Tasks -> Option(Results)] /\ \A u \in Tasks : Sound(u, result[u], ran)
  BY StaysSound, Zenon DEF RelayInv
<1>2. result' = result \/ result' = [result EXCEPT ![t] = r]
  BY Zenon DEF Mirror
<1> QED
  BY <1>1, <1>2, Zenon DEF Option

-----------------------------------------------------------------------------
\* What SENTINEL is told of a completed task is sound, from memory or from the
\* audit trail.
LEMMA ReportedIsSound ==
  ASSUME RelayInv, NEW t \in Tasks, GetTask(t) # None, GetTask(t).state = "completed"
  PROVE  GetTask(t).result \in Results /\ Sound(t, GetTask(t).result, passed)
<1>1. /\ tasks[t] \in Option(Entries) /\ result[t] \in Option(Results)
      /\ EntryOK(t, tasks[t], idempotency, issued, passed) /\ Sound(t, result[t], passed)
  BY Zenon DEF RelayInv
<1>2. CASE tasks[t] # None /\ (tasks[t].result # None \/ result[t] = None)
  <2>1. GetTask(t) = tasks[t]
    BY <1>2, Zenon DEF GetTask
  <2>2. tasks[t].result \in Option(Results)
    BY <1>1, <1>2, Zenon DEF Option, Entries
  <2> QED
    BY <1>1, <1>2, <2>1, <2>2, Zenon DEF EntryOK, Option
<1>3. CASE tasks[t] # None /\ tasks[t].result = None /\ result[t] # None
  <2>1. GetTask(t) = [command |-> tasks[t].command, state |-> "completed", result |-> result[t]]
    BY <1>3, Zenon DEF GetTask
  <2> QED
    BY <1>1, <1>3, <2>1 DEF Option
<1>4. CASE tasks[t] = None /\ request[t] # None /\ result[t] # None
  <2>1. GetTask(t) = [command |-> request[t], state |-> "completed", result |-> result[t]]
    BY <1>4, Zenon DEF GetTask
  <2> QED
    BY <1>1, <1>4, <2>1 DEF Option
<1>5. CASE tasks[t] = None /\ (request[t] = None \/ result[t] = None)
  BY <1>5, Zenon DEF GetTask
<1> QED
  BY <1>2, <1>3, <1>4, <1>5, Zenon

\* Event::Verified records the commit and the task together.
LEMMA VerifiedTicket ==
  ASSUME NEW s \in Tickets, NEW ids \in SUBSET Tasks, NEW ran, NEW h \in Heads, NEW t \in ids,
         <<t, h>> \in ran
  PROVE  TicketOK(Apply(s, "sentinel", VerifiedEvent(h, t)), ids, ran)
<1> DEFINE ev == VerifiedEvent(h, t)
           v == [s EXCEPT !.verified_head = h, !.verification_task = t]
           w == [v EXCEPT !.version = @ + 1]
<1>1. ev.type = "verified" /\ ev.head = h /\ ev.task = t
  BY Zenon DEF VerifiedEvent
<1>2. Apply(s, "sentinel", ev) = w
  <2> HIDE DEF ev
  <2>1. Effect(s, "sentinel", ev) = AfterVerified(s, ev)
    BY <1>1, Zenon DEF Effect
  <2>2. AfterVerified(s, ev) = v
    BY <1>1, Zenon DEF AfterVerified
  <2> QED
    BY <1>1, <2>1, <2>2, Zenon DEF Apply
<1>3. v \in Tickets /\ v.verified_head = h /\ v.verification_task = t
  <2>1. h \in Option(Heads) /\ t \in Option(Tasks)
    BY Zenon DEF Option
  <2> QED
    BY <2>1, Zenon DEF Tickets
<1> HIDE DEF v
<1>4. w \in Tickets /\ w.verified_head = v.verified_head /\ w.verification_task = v.verification_task
  BY <1>3 DEF Tickets
<1> QED
  BY <1>2, <1>3, <1>4, Zenon DEF TicketOK, Option

\* Event::Move keeps the evidence of the candidate, or drops all of it.
LEMMA MovedTicket ==
  ASSUME NEW ids \in SUBSET Tasks, NEW ran, NEW s, TicketOK(s, ids, ran),
         NEW phase \in {"building", "testing"}, NEW h \in Option(Heads)
  PROVE  TicketOK(Apply(s, "forge", MoveEvent(phase, h)), ids, ran)
<1> DEFINE ev == MoveEvent(phase, h)
           c == ClearWork(s)
           t == IF phase = "building" THEN c ELSE s
           hd == IF phase = "testing" THEN h ELSE t.head
           rr == IF phase \in ReviewPhases THEN t.review_round + 1 ELSE t.review_round
           m == [t EXCEPT !.plan_decision = t.plan_decision, !.plan = t.plan, !.head = hd,
                          !.review_round = rr, !.pr_delivery = None, !.feedback = None,
                          !.phase = phase]
           w == [m EXCEPT !.version = @ + 1]
<1>1. ev.type = "move" /\ ev.phase = phase /\ ev.head = h
  BY Zenon DEF MoveEvent
<1>2. s \in Tickets
  BY Zenon DEF TicketOK
<1>3. c \in Tickets /\ c.verified_head = None /\ c.verification_task = None
  BY <1>2, ZenonT(30) DEF ClearWork, Tickets, Option
<1> HIDE DEF c
<1>4. TicketOK(t, ids, ran)
  BY <1>3, Zenon DEF TicketOK, Option
<1>5. AfterMove(s, ev) = m
  <2> HIDE DEF ev
  <2> QED
    BY <1>1, Zenon DEF AfterMove, c
<1> HIDE DEF t
<1>6. t \in Tickets /\ hd \in Option(Heads) /\ rr \in Nat /\ phase \in Phases
  <2>1. t \in Tickets /\ phase \in Phases
    BY <1>4, Zenon DEF TicketOK, Phases
  <2> QED
    BY <2>1 DEF Tickets
<1> HIDE DEF hd, rr
<1>7. /\ m \in Tickets /\ m.verified_head = t.verified_head
      /\ m.verification_task = t.verification_task
  <2>1. None \in Option(Decisions) /\ None \in Option(Texts)
    BY Zenon DEF Option
  <2>2. t.plan_decision \in Option(Decisions) /\ t.plan \in Texts
    BY <1>6, Zenon DEF Tickets
  <2>3. m \in Tickets
    BY <1>6, <2>1, <2>2 DEF Tickets
  <2>4. m.verified_head = t.verified_head /\ m.verification_task = t.verification_task
    BY <1>6, Zenon DEF Tickets
  <2> QED
    BY <2>3, <2>4, Zenon
<1> HIDE DEF m
<1>8. w \in Tickets /\ w.verified_head = m.verified_head /\ w.verification_task = m.verification_task
  BY <1>7 DEF Tickets
<1>9. TicketOK(w, ids, ran)
  BY <1>4, <1>7, <1>8, Zenon DEF TicketOK
<1>10. Apply(s, "forge", ev) = s \/ Apply(s, "forge", ev) = w
  <2> HIDE DEF ev
  <2>1. Effect(s, "forge", ev) = m
    BY <1>1, <1>5, Zenon DEF Effect
  <2> QED
    BY <1>1, <2>1, Zenon DEF Apply
<1> QED
  BY <1>9, <1>10, Zenon

-----------------------------------------------------------------------------
\* verify_request, except for the creation of a task.
LEMMA SentinelStep ==
  ASSUME RelayInv, NEW s \in Sentinels, Request(s) \/ Poll(s) \/ GiveUp(s) \/ RecordVerified(s)
  PROVE  RelayInv'
<1>1. /\ sentinel \in [Sentinels -> Asks] /\ sentinel[s] \in Asks
      /\ AskOK(sentinel[s], issued, passed) /\ TicketOK(ticket, issued, passed)
      /\ issued \in SUBSET Tasks
  BY Zenon DEF RelayInv
<1>2. UNCHANGED <<checkout, relay, audit, exec, issued, passed>>
  BY Zenon DEF Request, Poll, GiveUp, RecordVerified
<1>3. CASE Request(s)
  <2>1. PICK c \in Commands : sentinel' = [sentinel EXCEPT ![s] =
             [pc |-> "submit", version |-> ticket.version, head |-> ticket.head,
              command |-> c, task |-> None]]
    BY <1>3, Zenon DEF Request
  <2> DEFINE k == [pc |-> "submit", version |-> ticket.version, head |-> ticket.head,
                   command |-> c, task |-> None]
  <2>2. ticket.version \in Nat /\ ticket.head \in Heads
    BY <1>1, <1>3, Zenon DEF Request, TicketOK, Tickets, Option
  <2>3. k \in Asks /\ AskOK(k, issued, passed)
    BY <2>2, Zenon DEF Asks, AskOK, Option
  <2>4. sentinel' = [sentinel EXCEPT ![s] = k] /\ ticket' = ticket
    BY <1>3, <2>1, Zenon DEF Request
  <2> HIDE DEF k
  <2> QED
    BY <1>1, <1>2, <2>3, <2>4, AskStep, Zenon
<1>4. CASE Poll(s)
  <2> DEFINE t == sentinel[s].task
             r == GetTask(t).result
             k == [sentinel[s] EXCEPT !.pc = "record"]
  <2>1. sentinel[s].pc = "poll" /\ GetTask(t) # None /\ GetTask(t).state = "completed"
    BY <1>4, Zenon DEF Poll
  <2>2. t \in issued /\ t \in Tasks
    BY <1>1, <2>1, Zenon DEF AskOK
  <2>3. r \in Results /\ Sound(t, r, passed)
    BY <2>1, <2>2, ReportedIsSound, Zenon
  <2>4. /\ sentinel' = [sentinel EXCEPT ![s] = IF Satisfies(s, r) THEN k ELSE SentinelIdle]
        /\ ticket' = ticket
    BY <1>1, <1>4, Zenon DEF Poll
  <2> HIDE DEF r
  <2>5. CASE Satisfies(s, r)
    <3>1. k \in Asks /\ k.pc = "record" /\ k.task = t /\ k.head = sentinel[s].head
          /\ k.command = sentinel[s].command
      BY <1>1, Zenon DEF Asks
    <3>2. sentinel[s].head \in Heads /\ sentinel[s].command \in Commands /\ sentinel[s].head # None
      BY <1>1, <2>1, HeadsAssumption, Zenon DEF AskOK
    <3>3. <<t, sentinel[s].head>> \in passed
      BY <2>3, <2>5, <3>2, RelayAssumption, Zenon DEF Satisfies, Sound
    <3> HIDE DEF k
    <3>4. AskOK(k, issued, passed)
      BY <2>2, <3>1, <3>2, <3>3, Zenon DEF AskOK
    <3> QED
      BY <1>1, <1>2, <2>4, <2>5, <3>1, <3>4, AskStep, Zenon
  <2>6. CASE ~Satisfies(s, r)
    BY <1>1, <1>2, <2>4, <2>6, IdleClients, AskStep, Zenon
  <2> QED
    BY <2>5, <2>6, Zenon
<1>5. CASE GiveUp(s)
  <2>1. sentinel' = [sentinel EXCEPT ![s] = SentinelIdle] /\ ticket' = ticket
    BY <1>5, Zenon DEF GiveUp
  <2> QED
    BY <1>1, <1>2, <2>1, IdleClients, AskStep, Zenon
<1>6. CASE RecordVerified(s)
  <2> DEFINE h == sentinel[s].head
             t == sentinel[s].task
  <2>1. sentinel[s].pc = "record" /\ sentinel' = [sentinel EXCEPT ![s] = SentinelIdle]
        /\ (ticket' = ticket \/ ticket' = Apply(ticket, "sentinel", VerifiedEvent(h, t)))
    BY <1>6, Zenon DEF RecordVerified
  <2>2. h \in Heads /\ t \in issued /\ <<t, h>> \in passed
    BY <1>1, <2>1, Zenon DEF AskOK
  <2>3. ticket \in Tickets
    BY <1>1, Zenon DEF TicketOK
  <2> HIDE DEF h, t
  <2>4. TicketOK(ticket', issued, passed)
    BY <1>1, <2>1, <2>2, <2>3, VerifiedTicket, Zenon
  <2> QED
    BY <1>2, <2>1, <2>4, IdleClients, AskStep, Zenon
<1> QED
  BY <1>3, <1>4, <1>5, <1>6, Zenon

\* FORGE's `status set`.
LEMMA StatusStep == ASSUME RelayInv, SetStatus PROVE RelayInv'
<1>1. PICK ev \in Moves : ticket' = Apply(ticket, "forge", ev)
  BY Zenon DEF SetStatus
<1>2. PICK phase \in {"building", "testing"}, h \in Option(Heads) : ev = MoveEvent(phase, h)
  BY Zenon DEF RelayInv, Moves, Option
<1>3. TicketOK(ticket, issued, passed) /\ issued \in SUBSET Tasks
  BY Zenon DEF RelayInv
<1>4. TicketOK(ticket', issued, passed)
  BY <1>1, <1>2, <1>3, MovedTicket, Zenon
<1> QED
  BY <1>4, Zenon DEF RelayInv, SetStatus, relay, audit

-----------------------------------------------------------------------------
\* A write to one entry of the relay's table, with the keys as they will be:
\* what remains to be shown is about that entry and the keys alone.
LEMMA EntryStep ==
  ASSUME RelayInv, UNCHANGED <<checkout, ticket, result, passed>>,
         NEW t \in Tasks, NEW v \in Option(Entries), tasks' = [tasks EXCEPT ![t] = v],
         idempotency' \in [Commands -> Option(Tasks)],
         cancels' \in [Tasks -> {"none", "mirror", "publish", "done"}],
         request' \in [Tasks -> Option(Commands)],
         issued \subseteq issued', issued' \subseteq Tasks,
         EntryOK(t, v, idempotency', issued', passed),
         \A u \in Tasks \ {t} : Live(u) => idempotency'[tasks[u].command] = u,
         \A c \in Commands : KeyOK(c, idempotency', tasks'),
         sentinel' \in [Sentinels -> Asks],
         \A s \in Sentinels : AskOK(sentinel'[s], issued', passed),
         exec' \in [Executors -> Execs],
         \A e \in Executors : ExecOK(exec'[e], tasks', issued', passed),
         \A e, f \in Executors : e # f /\ exec'[e].task # None => exec'[e].task # exec'[f].task
  PROVE  RelayInv'
<1>1. tasks' \in [Tasks -> Option(Entries)] /\ tasks'[t] = v
      /\ \A u \in Tasks \ {t} : tasks'[u] = tasks[u]
  BY Zenon DEF RelayInv
<1>2. passed \subseteq issued' \X Heads
  BY DEF RelayInv
<1>3. TicketOK(ticket, issued', passed)
  BY StaysSound, Zenon DEF RelayInv
<1>4. ASSUME NEW u \in Tasks PROVE EntryOK(u, tasks'[u], idempotency', issued', passed)
  <2>1. CASE u = t
    BY <1>1, <2>1, Zenon
  <2>2. CASE u # t
    <3>1. EntryOK(u, tasks[u], idempotency, issued, passed) /\ tasks'[u] = tasks[u]
      BY <1>1, <2>2, Zenon DEF RelayInv
    <3>2. Live(u) => idempotency'[tasks[u].command] = u
      BY <2>2, Zenon
    <3> QED
      BY <3>1, <3>2, Zenon DEF EntryOK, Live
  <2> QED
    BY <2>1, <2>2, Zenon
<1> QED
  BY <1>1, <1>2, <1>3, <1>4, Zenon DEF RelayInv

\* check_or_create_task: an identical request joins the live task, a new one
\* takes the key over.
LEMMA SubmitStep ==
  ASSUME RelayInv, NEW s \in Sentinels, Submit(s)
  PROVE  RelayInv'
<1> DEFINE c == sentinel[s].command
           k(t) == [sentinel[s] EXCEPT !.pc = "poll", !.task = t]
<1>1. PICK t \in Tasks :
        /\ IF Reuses(c)
           THEN t = idempotency[c] /\ UNCHANGED <<tasks, idempotency, request, issued>>
           ELSE Created(c, t)
        /\ \/ sentinel' = [sentinel EXCEPT ![s].pc = "poll", ![s].task = t]
           \/ sentinel' = [sentinel EXCEPT ![s] = SentinelIdle]
  BY Zenon DEF Submit
<1>2. /\ sentinel \in [Sentinels -> Asks] /\ sentinel[s] \in Asks
      /\ AskOK(sentinel[s], issued, passed) /\ sentinel[s].pc = "submit"
  BY Zenon DEF RelayInv, Submit
<1>3. c \in Commands /\ sentinel[s].head \in Heads
  BY <1>2, Zenon DEF AskOK
<1>4. UNCHANGED <<ticket, checkout, cancels, result, exec, passed>>
  BY Zenon DEF Submit
<1>5. PICK x \in {k(t), SentinelIdle} : sentinel' = [sentinel EXCEPT ![s] = x]
  BY <1>1, <1>2, Zenon
<1>6. /\ k(t) \in Asks /\ k(t).pc = "poll" /\ k(t).task = t
      /\ k(t).head = sentinel[s].head /\ k(t).command = c
  BY <1>2, Zenon DEF Asks, Option
<1> HIDE DEF k
<1>7. x \in Asks
  BY <1>5, <1>6, IdleClients, Zenon
<1>8. \A ids : t \in ids => AskOK(x, ids, passed)
  BY <1>3, <1>5, <1>6, IdleClients, Zenon DEF AskOK
<1> HIDE DEF c
<1>9. CASE Reuses(c)
  <2>1. t = idempotency[c] /\ UNCHANGED <<tasks, idempotency, request, issued>>
    BY <1>1, <1>9, Zenon
  <2>2. t \in issued
    BY <1>3, <1>9, <2>1, RelayAssumption, Zenon DEF RelayInv, KeyOK, EntryOK, Reuses
  <2>3. TicketOK(ticket, issued, passed)
    BY Zenon DEF RelayInv
  <2> QED
    BY <1>4, <1>5, <1>7, <1>8, <2>1, <2>2, <2>3, AskStep, Zenon DEF relay, audit
<1>10. CASE ~Reuses(c)
  <2> DEFINE v == [command |-> c, state |-> "pending", result |-> None]
  <2>1. /\ t \notin issued /\ issued' = issued \cup {t} /\ tasks' = [tasks EXCEPT ![t] = v]
        /\ idempotency' = [idempotency EXCEPT ![c] = t] /\ Mirror(request, t, c)
    BY <1>1, <1>10, Zenon DEF Created
  <2>2. v \in Entries /\ v.command = c /\ v.state = "pending" /\ v.result = None /\ v # None
    BY <1>3, RelayAssumption DEF Entries, Option
  <2> HIDE DEF v
  <2>3. request' \in [Tasks -> Option(Commands)]
    BY <1>3, <2>1, Zenon DEF RelayInv, Mirror, Option
  <2>4. idempotency' \in [Commands -> Option(Tasks)] /\ idempotency'[c] = t
        /\ \A d \in Commands \ {c} : idempotency'[d] = idempotency[d]
    BY <1>3, <2>1, Zenon DEF RelayInv, Option
  <2>5. tasks[t] = None
    BY <2>1, Zenon DEF RelayInv, EntryOK
  <2>6. tasks'[t] = v /\ \A u \in Tasks \ {t} : tasks'[u] = tasks[u]
    BY <2>1, Zenon DEF RelayInv
  <2>7. EntryOK(t, v, idempotency', issued', passed)
    BY <2>1, <2>2, <2>4, Zenon DEF EntryOK, Sound
  <2>8. ASSUME NEW u \in Tasks \ {t}, Live(u) PROVE idempotency'[tasks[u].command] = u
    <3>1. tasks[u].command \in Commands /\ idempotency[tasks[u].command] = u
      BY <2>8 DEF RelayInv, EntryOK, Live, Entries, Option
    <3>2. tasks[u].command # c
      BY <1>10, <2>8, <3>1, RelayAssumption, Zenon DEF Reuses
    <3> QED
      BY <2>4, <3>1, <3>2, Zenon
  <2>9. ASSUME NEW d \in Commands PROVE KeyOK(d, idempotency', tasks')
    <3>1. CASE d = c
      BY <2>2, <2>4, <2>6, <3>1, Zenon DEF KeyOK
    <3>2. CASE d # c
      <4>1. idempotency'[d] = idempotency[d] /\ KeyOK(d, idempotency, tasks)
            /\ idempotency[d] \in Option(Tasks)
        BY <2>4, <3>2, Zenon DEF RelayInv
      <4> QED
        BY <2>5, <2>6, <4>1, Zenon DEF KeyOK, Option
    <3> QED
      BY <3>1, <3>2, Zenon
  <2>10. ASSUME NEW r \in Sentinels PROVE AskOK(sentinel'[r], issued', passed)
    <3>1. AskOK(x, issued', passed)
      BY <1>8, <2>1, Zenon
    <3>2. AskOK(sentinel[r], issued', passed)
      BY <2>1, StaysSound, Zenon DEF RelayInv
    <3> QED
      BY <1>2, <1>5, <3>1, <3>2, Zenon
  <2>11. ASSUME NEW e \in Executors PROVE ExecOK(exec[e], tasks', issued', passed)
    <3>1. ExecOK(exec[e], tasks, issued, passed) /\ issued \subseteq Tasks
      BY Zenon DEF RelayInv
    <3>2. exec[e].pc # "idle" => exec[e].task \in issued /\ tasks'[exec[e].task] = tasks[exec[e].task]
      BY <2>1, <2>6, <3>1, Zenon DEF ExecOK
    <3> QED
      BY <2>1, <3>1, <3>2, Zenon DEF ExecOK
  <2>12. sentinel' \in [Sentinels -> Asks]
    BY <1>2, <1>5, <1>7, Zenon
  <2>13. /\ v \in Option(Entries) /\ issued \subseteq issued' /\ issued' \subseteq Tasks
         /\ cancels' \in [Tasks -> {"none", "mirror", "publish", "done"}]
         /\ exec' \in [Executors -> Execs]
         /\ \A e, f \in Executors : e # f /\ exec'[e].task # None => exec'[e].task # exec'[f].task
    BY <1>4, <2>1, <2>2 DEF RelayInv, Option
  <2> QED
    BY <1>4, <2>1, <2>3, <2>4, <2>7, <2>8, <2>9, <2>10, <2>11, <2>12, <2>13, EntryStep
<1> QED
  BY <1>9, <1>10, Zenon

-----------------------------------------------------------------------------
\* verify_serve between the claim and the report.
LEMMA ExecutorStep ==
  ASSUME RelayInv, NEW e \in Executors,
         Start(e) \/ Finish(e) \/ NoResult(e) \/ Complete(e) \/ ExecutorCrash(e)
  PROVE  RelayInv'
<1> DEFINE t == exec[e].task
<1>1. /\ exec \in [Executors -> Execs] /\ exec[e] \in Execs
      /\ ExecOK(exec[e], tasks, issued, passed) /\ exec[e].pc # "idle"
  BY Zenon DEF RelayInv, Start, Finish, NoResult, Complete, ExecutorCrash
<1>2. t \in issued /\ t \in Tasks /\ t # None
  BY <1>1, RelayAssumption, Zenon DEF ExecOK, RelayInv
<1>3. UNCHANGED <<ticket, checkout, relay, request, sentinel, issued>>
  BY Zenon DEF Start, Finish, NoResult, Complete, ExecutorCrash, audit
<1>4. /\ passed \subseteq issued \X Heads
      /\ result \in [Tasks -> Option(Results)] /\ \A u \in Tasks : Sound(u, result[u], passed)
  BY Zenon DEF RelayInv
<1>5. CASE ExecutorCrash(e) \/ (Complete(e) /\ tasks[t] = None /\ request[t] = None)
  <2>1. exec' = [exec EXCEPT ![e] = ExecIdle] /\ UNCHANGED <<result, passed>>
    BY <1>5, Zenon DEF Complete, ExecutorCrash, audit
  <2> QED
    BY <1>3, <1>4, <2>1, IdleClients, ExecStep, Zenon
<1>6. CASE Start(e)
  <2> DEFINE x == [exec[e] EXCEPT !.pc = "running", !.head = checkout]
  <2>1. checkout \in Heads
    BY <1>6, Zenon DEF Start, RelayInv, Option
  <2>2. /\ x \in Execs /\ x.pc = "running" /\ x.head = checkout /\ x.task = t
        /\ x.command = exec[e].command
    BY <1>1, <2>1, Zenon DEF Execs, Option
  <2>3. exec' = [exec EXCEPT ![e] = x] /\ UNCHANGED <<result, passed>>
    BY <1>1, <1>6, Zenon DEF Start, audit
  <2> HIDE DEF x
  <2>4. ExecOK(x, tasks, issued, passed)
    BY <1>1, <1>2, <2>1, <2>2, Zenon DEF ExecOK
  <2> QED
    BY <1>3, <1>4, <2>2, <2>3, <2>4, ExecStep, Zenon
<1>7. CASE Finish(e)
  <2>1. PICK exit \in {"zero", "nonzero"},
             head \in {None} \cup (IF checkout = exec[e].head THEN {checkout} ELSE {}) :
          /\ exec' = [exec EXCEPT ![e].pc = "complete", ![e].result = [exit |-> exit, head |-> head]]
          /\ Mirror(result, exec[e].task, [exit |-> exit, head |-> head])
          /\ passed' = IF exit = "zero" THEN passed \cup {<<exec[e].task, exec[e].head>>} ELSE passed
    BY <1>7, Zenon DEF Finish
  <2> DEFINE r == [exit |-> exit, head |-> head]
             x == [exec[e] EXCEPT !.pc = "complete", !.result = r]
  <2>2. exec[e].head \in Heads /\ head \in {None, exec[e].head}
    BY <1>1, <1>7, <2>1, Zenon DEF Finish, ExecOK
  <2>3. r \in Results /\ r.exit = exit /\ r.head = head
    BY <2>2, Zenon DEF Results, Option
  <2>4. exec' = [exec EXCEPT ![e] = x] /\ Mirror(result, t, r)
    BY <1>1, <2>1, Zenon
  <2> HIDE DEF r
  <2>5. passed \subseteq passed' /\ passed' \subseteq issued \X Heads
    BY <1>2, <1>4, <2>1, <2>2
  <2>6. Sound(t, r, passed')
    BY <2>1, <2>2, <2>3, Zenon DEF Sound
  <2>7. /\ x \in Execs /\ x.pc = "complete" /\ x.result = r /\ x.task = t
        /\ x.command = exec[e].command
    BY <1>1, <2>3, Zenon DEF Execs, Option
  <2> HIDE DEF x
  <2>8. ExecOK(x, tasks, issued, passed')
    BY <1>1, <1>2, <2>3, <2>6, <2>7, Zenon DEF ExecOK
  <2> HIDE DEF t
  <2>9. result' \in [Tasks -> Option(Results)] /\ \A u \in Tasks : Sound(u, result'[u], passed')
    BY <1>2, <2>3, <2>4, <2>5, <2>6, MirrorResult, Zenon
  <2> QED
    BY <1>3, <2>4, <2>5, <2>7, <2>8, <2>9, ExecStep DEF t
<1>8. CASE NoResult(e)
  <2> DEFINE x == [exec[e] EXCEPT !.pc = "complete", !.result = NoEvidence]
  <2>1. /\ x \in Execs /\ x.pc = "complete" /\ x.result = NoEvidence /\ x.task = t
        /\ x.command = exec[e].command
    BY <1>1, NoEvidenceSound, Zenon DEF Execs, Option
  <2>2. exec' = [exec EXCEPT ![e] = x] /\ UNCHANGED <<result, passed>>
    BY <1>1, <1>8, Zenon DEF NoResult, audit
  <2> HIDE DEF x
  <2>3. ExecOK(x, tasks, issued, passed)
    BY <1>1, <1>2, <2>1, NoEvidenceSound, Zenon DEF ExecOK
  <2> QED
    BY <1>3, <1>4, <2>1, <2>2, <2>3, ExecStep, Zenon
<1>9. CASE Complete(e) /\ ~(tasks[t] = None /\ request[t] = None)
  <2> DEFINE x == [exec[e] EXCEPT !.pc = "publish"]
  <2>1. /\ exec[e].pc = "complete" /\ exec' = [exec EXCEPT ![e] = x]
        /\ Mirror(result, t, exec[e].result) /\ passed' = passed
    BY <1>1, <1>9, Zenon DEF Complete
  <2>2. exec[e].result \in Results /\ Sound(t, exec[e].result, passed)
    BY <1>1, <2>1, Zenon DEF ExecOK
  <2>3. /\ x \in Execs /\ x.pc = "publish" /\ x.result = exec[e].result /\ x.task = t
        /\ x.command = exec[e].command
    BY <1>1, Zenon DEF Execs
  <2> HIDE DEF x
  <2>4. ExecOK(x, tasks, issued, passed)
    BY <1>1, <1>2, <2>2, <2>3, Zenon DEF ExecOK
  <2>5. result' \in [Tasks -> Option(Results)] /\ \A u \in Tasks : Sound(u, result'[u], passed)
    BY <1>2, <2>1, <2>2, MirrorResult, Zenon
  <2> QED
    BY <1>3, <1>4, <2>1, <2>3, <2>4, <2>5, ExecStep, Zenon
<1> QED
  BY <1>5, <1>6, <1>7, <1>8, <1>9, Zenon

\* An entry that is overwritten in place: the keys do not move.
LEMMA InPlaceStep ==
  ASSUME RelayInv, UNCHANGED <<ticket, checkout, idempotency, audit, sentinel, issued, passed>>,
         cancels' \in [Tasks -> {"none", "mirror", "publish", "done"}],
         NEW t \in Tasks, NEW v \in Entries, tasks' = [tasks EXCEPT ![t] = v],
         EntryOK(t, v, idempotency, issued, passed),
         tasks[t] # None => v.command = tasks[t].command,
         exec' \in [Executors -> Execs],
         \A e \in Executors : ExecOK(exec'[e], tasks', issued, passed),
         \A e, f \in Executors : e # f /\ exec'[e].task # None => exec'[e].task # exec'[f].task
  PROVE  RelayInv'
<1>1. tasks'[t] = v /\ v # None /\ \A u \in Tasks \ {t} : tasks'[u] = tasks[u]
  BY RelayAssumption, Zenon DEF RelayInv
<1>2. ASSUME NEW u \in Tasks \ {t}, Live(u) PROVE idempotency[tasks[u].command] = u
  BY <1>2, Zenon DEF RelayInv, EntryOK, Live
<1>3. ASSUME NEW c \in Commands PROVE KeyOK(c, idempotency, tasks')
  <2>1. KeyOK(c, idempotency, tasks) /\ idempotency[c] \in Option(Tasks)
    BY Zenon DEF RelayInv
  <2> QED
    BY <1>1, <2>1 DEF KeyOK, Option
<1>4. /\ idempotency' \in [Commands -> Option(Tasks)] /\ request' \in [Tasks -> Option(Commands)]
      /\ sentinel' \in [Sentinels -> Asks] /\ issued' \subseteq Tasks
      /\ \A s \in Sentinels : AskOK(sentinel'[s], issued', passed)
  BY Zenon DEF RelayInv, audit
<1>5. v \in Option(Entries)
  BY Zenon DEF Option
<1> QED
  BY <1>2, <1>3, <1>4, <1>5, EntryStep, Zenon DEF audit

\* claim_next_task: the task is pending, so nobody holds it.
LEMMA ClaimStep ==
  ASSUME RelayInv, NEW e \in Executors, Claim(e)
  PROVE  RelayInv'
<1>1. PICK t \in {u \in Tasks : tasks[u] # None /\ tasks[u].state = "pending"} :
        /\ tasks' = [tasks EXCEPT ![t].state = "running"]
        /\ \/ exec' = [exec EXCEPT ![e] = [ExecIdle EXCEPT
                         !.pc = "claimed", !.task = t, !.command = tasks[t].command]]
           \/ exec' = exec
  BY Zenon DEF Claim
<1> DEFINE v == [tasks[t] EXCEPT !.state = "running"]
           x == [ExecIdle EXCEPT !.pc = "claimed", !.task = t, !.command = tasks[t].command]
<1>2. UNCHANGED <<ticket, checkout, idempotency, cancels, audit, sentinel, issued, passed>>
  BY Zenon DEF Claim
<1>3. /\ tasks \in [Tasks -> Option(Entries)] /\ tasks[t] \in Entries
      /\ EntryOK(t, tasks[t], idempotency, issued, passed)
      /\ exec \in [Executors -> Execs]
  BY <1>1, Zenon DEF RelayInv, Option
<1>4. /\ v \in Entries /\ v.command = tasks[t].command /\ v.state = "running"
      /\ v.result = tasks[t].result
  BY <1>3, Zenon DEF Entries
<1>5. tasks' = [tasks EXCEPT ![t] = v] /\ tasks[t].command \in Commands
  BY <1>1, <1>3, Zenon DEF Entries
<1>6. x \in Execs /\ x.pc = "claimed" /\ x.task = t /\ x.command = tasks[t].command
  BY <1>1, <1>5, Zenon DEF ExecIdle, Execs, Option
<1> HIDE DEF v, x
<1>7. EntryOK(t, v, idempotency, issued, passed)
  BY <1>1, <1>3, <1>4, Zenon DEF EntryOK
<1>8. tasks'[t] = v /\ \A u \in Tasks \ {t} : tasks'[u] = tasks[u]
  BY <1>1, <1>3, <1>5, Zenon
<1>9. ASSUME NEW f \in Executors
      PROVE  ExecOK(exec[f], tasks', issued, passed) /\ exec[f].task # t
  <2>1. ExecOK(exec[f], tasks, issued, passed) /\ issued \subseteq Tasks
    BY Zenon DEF RelayInv
  <2>2. exec[f].task # t
    BY <1>1, <2>1, RelayAssumption, Zenon DEF ExecOK
  <2> QED
    BY <1>8, <2>1, <2>2, Zenon DEF ExecOK
<1>10. ExecOK(x, tasks', issued, passed)
  BY <1>1, <1>3, <1>4, <1>5, <1>6, <1>8, RelayAssumption DEF ExecOK, EntryOK
<1>11. exec' = [exec EXCEPT ![e] = x] \/ exec' = exec
  BY <1>1, Zenon DEF x
<1>12. /\ exec' \in [Executors -> Execs]
       /\ \A f \in Executors : ExecOK(exec'[f], tasks', issued, passed)
  BY <1>3, <1>6, <1>9, <1>10, <1>11, Zenon
<1>13. \A f, g \in Executors : f # g /\ exec'[f].task # None => exec'[f].task # exec'[g].task
  <2>1. \A f, g \in Executors : f # g /\ exec[f].task # None => exec[f].task # exec[g].task
    BY Zenon DEF RelayInv
  <2>2. CASE exec' = exec
    BY <2>1, <2>2, Zenon
  <2>3. CASE exec' = [exec EXCEPT ![e] = x]
    <3>1. \A f \in Executors : exec'[f].task = IF f = e THEN t ELSE exec[f].task
      BY <1>3, <1>6, <2>3, Zenon
    <3>2. \A f \in Executors : exec[f].task # t
      BY <1>9, Zenon
    <3> QED
      BY <2>1, <3>1, <3>2
  <2> QED
    BY <1>11, <2>2, <2>3, Zenon
<1>14. cancels' \in [Tasks -> {"none", "mirror", "publish", "done"}]
  BY <1>2, Zenon DEF RelayInv
<1> QED
  BY <1>1, <1>2, <1>4, <1>5, <1>7, <1>12, <1>13, <1>14, InPlaceStep

\* The rest of complete_task.
LEMMA PublishStep ==
  ASSUME RelayInv, NEW e \in Executors, Publish(e)
  PROVE  RelayInv'
<1> DEFINE t == exec[e].task
           v == [command |-> exec[e].command, state |-> "completed", result |-> exec[e].result]
<1>1. /\ exec[e].pc = "publish" /\ tasks' = [tasks EXCEPT ![t] = v]
      /\ exec' = [exec EXCEPT ![e] = ExecIdle]
      /\ UNCHANGED <<ticket, checkout, idempotency, cancels, audit, sentinel, issued, passed>>
  BY Zenon DEF Publish
<1>2. ExecOK(exec[e], tasks, issued, passed) /\ issued \subseteq Tasks
      /\ exec \in [Executors -> Execs] /\ tasks \in [Tasks -> Option(Entries)]
  BY Zenon DEF RelayInv
<1>3. /\ t \in issued /\ t \in Tasks /\ t # None /\ exec[e].command \in Commands
      /\ exec[e].result \in Results /\ Sound(t, exec[e].result, passed)
      /\ tasks[t] # None => tasks[t].command = exec[e].command
  BY <1>1, <1>2, RelayAssumption, Zenon DEF ExecOK
<1>4. /\ v \in Entries /\ v.command = exec[e].command /\ v.state = "completed"
      /\ v.result = exec[e].result
  BY <1>3, Zenon DEF Entries, Option
<1> HIDE DEF v
<1>5. EntryOK(t, v, idempotency, issued, passed)
  BY <1>3, <1>4, RelayAssumption, Zenon DEF EntryOK
<1>6. \A u \in Tasks \ {t} : tasks'[u] = tasks[u]
  BY <1>1, <1>2, Zenon
<1>7. ASSUME NEW f \in Executors PROVE ExecOK(exec'[f], tasks', issued, passed)
  <2>1. CASE f = e
    BY <1>1, <1>2, <2>1, IdleClients, Zenon
  <2>2. CASE f # e
    <3>1. exec'[f] = exec[f] /\ exec[f].task # t /\ ExecOK(exec[f], tasks, issued, passed)
      BY <1>1, <1>2, <1>3, <2>2, Zenon DEF RelayInv
    <3> QED
      BY <1>2, <1>6, <3>1 DEF ExecOK
  <2> QED
    BY <2>1, <2>2, Zenon
<1>8. /\ exec' \in [Executors -> Execs]
      /\ \A f, g \in Executors : f # g /\ exec'[f].task # None => exec'[f].task # exec'[g].task
      /\ cancels' \in [Tasks -> {"none", "mirror", "publish", "done"}]
  BY <1>1, IdleClients, Zenon DEF RelayInv
<1> HIDE DEF t
<1> QED
  BY <1>1, <1>3, <1>4, <1>5, <1>7, <1>8, InPlaceStep, Zenon

-----------------------------------------------------------------------------
\* tasks/cancel publishes the cancellation of a task it still finds.
LEMMA CancelPublishStep ==
  ASSUME RelayInv, NEW t \in Tasks, CancelPublish(t)
  PROVE  RelayInv'
<1> DEFINE v == [tasks[t] EXCEPT !.state = "cancelled", !.result = NoEvidence]
<1>1. /\ UNCHANGED <<ticket, checkout, idempotency, audit, sentinel, exec, issued, passed>>
      /\ tasks' = [tasks EXCEPT ![t] = IF tasks[t] = None THEN None ELSE v]
      /\ cancels' = [cancels EXCEPT ![t] = "done"]
  BY Zenon DEF CancelPublish, RelayInv
<1>2. /\ tasks \in [Tasks -> Option(Entries)] /\ EntryOK(t, tasks[t], idempotency, issued, passed)
      /\ cancels' \in [Tasks -> {"none", "mirror", "publish", "done"}]
  BY <1>1, Zenon DEF RelayInv
<1>3. CASE tasks[t] = None
  <2>1. tasks' = tasks
    BY <1>1, <1>2, <1>3, Zenon
  <2>2. UNCHANGED <<request, result>>
    BY <1>1, Zenon DEF audit
  <2>3. /\ checkout \in Option(Heads) /\ result \in [Tasks -> Option(Results)]
        /\ \A u \in Tasks : Sound(u, result[u], passed)
    BY Zenon DEF RelayInv
  <2> QED
    BY <1>1, <1>2, <2>1, <2>2, <2>3, SideStep, Zenon
<1>4. CASE tasks[t] # None
  <2>1. tasks[t] \in Entries
    BY <1>2, <1>4, Zenon DEF Option
  <2>2. /\ v \in Entries /\ v.command = tasks[t].command /\ v.state = "cancelled"
        /\ v.result = NoEvidence
    BY <2>1, NoEvidenceSound, Zenon DEF Entries, Option
  <2>3. tasks' = [tasks EXCEPT ![t] = v]
    BY <1>1, <1>4, Zenon
  <2> HIDE DEF v
  <2>4. EntryOK(t, v, idempotency, issued, passed)
    BY <1>2, <1>4, <2>2, NoEvidenceSound, Zenon DEF EntryOK
  <2>5. tasks'[t] = v /\ \A u \in Tasks \ {t} : tasks'[u] = tasks[u]
    BY <1>2, <2>3, Zenon
  <2>6. ASSUME NEW e \in Executors PROVE ExecOK(exec[e], tasks', issued, passed)
    <3>1. ExecOK(exec[e], tasks, issued, passed) /\ issued \subseteq Tasks
      BY Zenon DEF RelayInv
    <3> QED
      BY <1>4, <2>2, <2>5, <3>1 DEF ExecOK
  <2>7. /\ exec' \in [Executors -> Execs]
        /\ \A e, f \in Executors : e # f /\ exec'[e].task # None => exec'[e].task # exec'[f].task
    BY <1>1, Zenon DEF RelayInv
  <2> QED
    BY <1>1, <1>2, <2>2, <2>3, <2>4, <2>6, <2>7, InPlaceStep, Zenon
<1> QED
  BY <1>3, <1>4, Zenon

\* cleanup_idempotency drops a key and its task together, and no other key
\* leads to that task.
LEMMA EvictStep ==
  ASSUME RelayInv, NEW c \in Commands, Evict(c)
  PROVE  RelayInv'
<1> DEFINE t == idempotency[c]
<1>1. /\ t # None /\ ~Live(t) /\ tasks' = [tasks EXCEPT ![t] = None]
      /\ idempotency' = [idempotency EXCEPT ![c] = None]
      /\ UNCHANGED <<ticket, checkout, cancels, audit, sentinel, exec, issued, passed>>
  BY Zenon DEF Evict
<1>2. /\ t \in Tasks /\ KeyOK(c, idempotency, tasks) /\ None \in Option(Entries)
      /\ tasks \in [Tasks -> Option(Entries)] /\ idempotency \in [Commands -> Option(Tasks)]
  BY <1>1, Zenon DEF RelayInv, Option
<1>3. tasks'[t] = None /\ \A u \in Tasks \ {t} : tasks'[u] = tasks[u]
  BY <1>1, <1>2, Zenon
<1>4. /\ idempotency' \in [Commands -> Option(Tasks)] /\ idempotency'[c] = None
      /\ \A d \in Commands \ {c} : idempotency'[d] = idempotency[d]
  BY <1>1, <1>2, Zenon DEF Option
<1>5. ASSUME NEW u \in Tasks \ {t}, Live(u) PROVE idempotency'[tasks[u].command] = u
  <2>1. tasks[u].command \in Commands /\ idempotency[tasks[u].command] = u
    BY <1>5 DEF RelayInv, EntryOK, Live, Entries, Option
  <2> QED
    BY <1>4, <2>1, Zenon
<1>6. ASSUME NEW d \in Commands PROVE KeyOK(d, idempotency', tasks')
  <2>1. CASE d = c
    BY <1>4, <2>1, Zenon DEF KeyOK
  <2>2. CASE d # c
    <3>1. KeyOK(d, idempotency, tasks) /\ idempotency[d] \in Option(Tasks)
          /\ idempotency'[d] = idempotency[d]
      BY <1>4, <2>2, Zenon DEF RelayInv
    <3>2. idempotency[d] # t
      BY <1>1, <1>2, <2>2, <3>1, Zenon DEF KeyOK
    <3> QED
      BY <1>3, <3>1, <3>2, Zenon DEF KeyOK, Option
  <2> QED
    BY <2>1, <2>2, Zenon
<1>7. ASSUME NEW e \in Executors PROVE ExecOK(exec[e], tasks', issued, passed)
  <2>1. ExecOK(exec[e], tasks, issued, passed) /\ issued \subseteq Tasks
    BY Zenon DEF RelayInv
  <2> QED
    BY <1>3, <2>1, Zenon DEF ExecOK
<1>8. EntryOK(t, None, idempotency', issued', passed)
  BY Zenon DEF EntryOK
<1>9. /\ cancels' \in [Tasks -> {"none", "mirror", "publish", "done"}]
      /\ request' \in [Tasks -> Option(Commands)] /\ issued' \subseteq Tasks
      /\ sentinel' \in [Sentinels -> Asks] /\ exec' \in [Executors -> Execs]
      /\ \A s \in Sentinels : AskOK(sentinel'[s], issued', passed)
      /\ \A e, f \in Executors : e # f /\ exec'[e].task # None => exec'[e].task # exec'[f].task
  BY <1>1, Zenon DEF RelayInv, audit
<1> HIDE DEF t
<1> QED
  BY <1>1, <1>2, <1>4, <1>5, <1>6, <1>7, <1>8, <1>9, EntryStep DEF audit

\* A restart forgets the tasks; executors in the middle of a run go on.
LEMMA RestartStep == ASSUME RelayInv, Restart PROVE RelayInv'
<1>1. /\ tasks' = [t \in Tasks |-> None] /\ idempotency' = [c \in Commands |-> None]
      /\ cancels' = [t \in Tasks |-> IF cancels[t] = "none" THEN "none" ELSE "done"]
      /\ exec' = [e \in Executors |-> IF exec[e].pc = "publish" THEN ExecIdle ELSE exec[e]]
      /\ UNCHANGED <<ticket, checkout, request, result, sentinel, issued, passed>>
  BY Zenon DEF Restart, audit
<1>2. /\ tasks' \in [Tasks -> Option(Entries)] /\ \A t \in Tasks : tasks'[t] = None
      /\ idempotency' \in [Commands -> Option(Tasks)] /\ \A c \in Commands : idempotency'[c] = None
      /\ cancels' \in [Tasks -> {"none", "mirror", "publish", "done"}]
  BY <1>1, Zenon DEF Option
<1>3. /\ exec' \in [Executors -> Execs]
      /\ \A e \in Executors : exec'[e] = ExecIdle \/ exec'[e] = exec[e]
  BY <1>1, IdleClients, Zenon DEF RelayInv
<1>4. ASSUME NEW e \in Executors PROVE ExecOK(exec'[e], tasks', issued, passed)
  <2>1. ExecOK(exec[e], tasks, issued, passed) /\ issued \subseteq Tasks
    BY Zenon DEF RelayInv
  <2>2. ExecOK(exec[e], tasks', issued, passed)
    BY <1>2, <2>1, Zenon DEF ExecOK
  <2> QED
    BY <1>3, <2>2, IdleClients, Zenon
<1>5. \A e, f \in Executors : e # f /\ exec'[e].task # None => exec'[e].task # exec'[f].task
  BY <1>3, IdleClients DEF RelayInv
<1>6. /\ \A t \in Tasks : EntryOK(t, tasks'[t], idempotency', issued, passed)
      /\ \A c \in Commands : KeyOK(c, idempotency', tasks')
  BY <1>2, Zenon DEF EntryOK, KeyOK
<1> QED
  BY <1>1, <1>2, <1>3, <1>4, <1>5, <1>6, Zenon DEF RelayInv

\* tasks/cancel before it publishes, and FORGE's edits.
LEMMA QuietStep ==
  ASSUME RelayInv, Edit \/ \E t \in Tasks : CancelCheck(t) \/ CancelMirror(t)
  PROVE  RelayInv'
<1>1. UNCHANGED <<ticket, tasks, idempotency, request, sentinel, exec, issued, passed>>
  BY Zenon DEF Edit, CancelCheck, CancelMirror, relay, audit
<1>2. /\ checkout \in Option(Heads) /\ cancels \in [Tasks -> {"none", "mirror", "publish", "done"}]
      /\ result \in [Tasks -> Option(Results)] /\ \A u \in Tasks : Sound(u, result[u], passed)
  BY Zenon DEF RelayInv
<1>3. CASE Edit
  BY <1>1, <1>2, <1>3, SideStep, Zenon DEF Edit, relay, audit
<1>4. ASSUME NEW t \in Tasks, CancelCheck(t) PROVE RelayInv'
  BY <1>1, <1>2, <1>4, SideStep, Zenon DEF CancelCheck, audit
<1>5. ASSUME NEW t \in Tasks, CancelMirror(t) PROVE RelayInv'
  <2>1. result' = result \/ Mirror(result, t, NoEvidence)
    BY <1>5, Zenon DEF CancelMirror
  <2>2. result' \in [Tasks -> Option(Results)] /\ \A u \in Tasks : Sound(u, result'[u], passed)
    BY <1>2, <2>1, NoEvidenceSound, MirrorResult, Zenon
  <2>3. checkout' = checkout /\ cancels' \in [Tasks -> {"none", "mirror", "publish", "done"}]
    BY <1>2, <1>5 DEF CancelMirror
  <2> QED
    BY <1>1, <1>2, <2>2, <2>3, SideStep, Zenon
<1> QED
  BY <1>3, <1>4, <1>5, Zenon

-----------------------------------------------------------------------------
\* A candidate in testing, and a relay that knows nothing.
LEMMA InitRelay == Init => RelayInv
<1> SUFFICES ASSUME Init PROVE RelayInv
  BY Zenon
<1>1. /\ ticket = InTesting /\ checkout \in Option(Heads)
      /\ tasks = [t \in Tasks |-> None] /\ idempotency = [c \in Commands |-> None]
      /\ cancels \in [Tasks -> {"none", "mirror", "publish", "done"}]
      /\ request \in [Tasks -> Option(Commands)] /\ result = [t \in Tasks |-> None]
      /\ sentinel = [s \in Sentinels |-> SentinelIdle] /\ exec = [e \in Executors |-> ExecIdle]
      /\ issued = {} /\ passed = {}
  BY RelayAssumption, Zenon DEF Init, Option
<1>2. TicketOK(ticket, issued, passed)
  <2> DEFINE d == UnboundVerdict("sentinel", 1, None)
  <2>1. d \in Option(Decisions)
    BY Zenon DEF UnboundVerdict, Decisions, Option
  <2> HIDE DEF d
  <2>2. InTesting = [Default EXCEPT !.version = 4, !.phase = "testing", !.plan = "text",
                       !.revision = 1, !.review_round = 2, !.head = FirstHead, !.plan_decision = d]
    BY Zenon DEF InTesting, d
  <2>3. FirstHead \in Option(Heads)
    BY RelayAssumption, Zenon DEF Option
  <2>4. Default \in Tickets /\ Default.verified_head = None /\ Default.verification_task = None
    BY Zenon DEF Default, Tickets, Option, Phases, Texts
  <2>5. InTesting \in Tickets
    BY <2>1, <2>2, <2>3, <2>4 DEF Tickets, Phases, Texts
  <2>6. InTesting.verified_head = None /\ InTesting.verification_task = None
    BY <2>2, <2>4, Zenon DEF Tickets
  <2> QED
    BY <1>1, <2>5, <2>6, Zenon DEF TicketOK, Option
<1>3. /\ tasks \in [Tasks -> Option(Entries)] /\ idempotency \in [Commands -> Option(Tasks)]
      /\ result \in [Tasks -> Option(Results)]
      /\ \A t \in Tasks : tasks[t] = None /\ result[t] = None
      /\ \A c \in Commands : idempotency[c] = None
  BY <1>1, Zenon DEF Option
<1>4. /\ \A t \in Tasks : EntryOK(t, tasks[t], idempotency, issued, passed)
      /\ \A t \in Tasks : Sound(t, result[t], passed)
      /\ \A c \in Commands : KeyOK(c, idempotency, tasks)
  BY <1>3, Zenon DEF EntryOK, Sound, KeyOK
<1>5. /\ sentinel \in [Sentinels -> Asks] /\ exec \in [Executors -> Execs]
      /\ \A s \in Sentinels : AskOK(sentinel[s], issued, passed)
      /\ \A e \in Executors : ExecOK(exec[e], tasks, issued, passed)
      /\ \A e, f \in Executors : e # f /\ exec[e].task # None => exec[e].task # exec[f].task
  BY <1>1, IdleClients, Zenon
<1>6. issued \subseteq Tasks /\ passed \subseteq issued \X Heads
  BY <1>1, Zenon
<1> QED
  BY <1>1, <1>2, <1>3, <1>4, <1>5, <1>6, Zenon DEF RelayInv

\* Every step of the two workers and of the relay keeps the invariant.
LEMMA NextRelay == RelayInv /\ [Next]_vars => RelayInv'
<1> SUFFICES ASSUME RelayInv, [Next]_vars PROVE RelayInv'
  BY Zenon
<1>1. CASE UNCHANGED vars
  BY <1>1, Zenon DEF vars, RelayInv
<1>2. ASSUME NEW s \in Sentinels,
             Request(s) \/ Submit(s) \/ Poll(s) \/ GiveUp(s) \/ RecordVerified(s)
      PROVE  RelayInv'
  BY <1>2, SubmitStep, SentinelStep, Zenon
<1>3. ASSUME NEW e \in Executors, Executor(e) \/ ExecutorCrash(e) PROVE RelayInv'
  BY <1>3, ExecutorStep, ClaimStep, PublishStep, Zenon DEF Executor
<1>4. ASSUME NEW t \in Tasks, CancelCheck(t) \/ CancelMirror(t) \/ CancelPublish(t)
      PROVE  RelayInv'
  BY <1>4, QuietStep, CancelPublishStep, Zenon
<1>5. ASSUME NEW c \in Commands, Evict(c) PROVE RelayInv'
  BY <1>5, EvictStep, Zenon
<1>6. CASE Restart \/ Edit \/ SetStatus
  BY <1>6, RestartStep, QuietStep, StatusStep, Zenon
<1> QED
  BY <1>1, <1>2, <1>3, <1>4, <1>5, <1>6, Zenon DEF Next

\* The inductive invariant holds in every reachable state of the relay.
THEOREM RelayInvAlways == Spec => []RelayInv
  BY InitRelay, NextRelay, PTL DEF Spec

\* The relay, the audit trail and both clients hold what they should; a
\* deduplication key leads to a task the relay still holds.
THEOREM RelayTypes == Spec => []TypeOK
<1>1. RelayInv => TypeOK
  <2> SUFFICES ASSUME RelayInv PROVE TypeOK
    BY Zenon
  <2>1. ASSUME NEW t \in Tasks
        PROVE  /\ tasks[t] \in Option(Entries)
               /\ request[t] \in Option(Commands) /\ result[t] \in Option(Results)
               /\ cancels[t] \in {"none", "mirror", "publish", "done"}
    BY Zenon DEF RelayInv
  <2>2. ASSUME NEW c \in Commands, idempotency[c] # None
        PROVE  /\ idempotency[c] \in issued
               /\ tasks[idempotency[c]] # None /\ tasks[idempotency[c]].command = c
    <3>1. KeyOK(c, idempotency, tasks) /\ idempotency[c] \in Option(Tasks)
      BY Zenon DEF RelayInv
    <3>2. idempotency[c] \in Tasks
      BY <2>2, <3>1, Zenon DEF Option
    <3>3. EntryOK(idempotency[c], tasks[idempotency[c]], idempotency, issued, passed)
      BY <3>2, Zenon DEF RelayInv
    <3> QED
      BY <2>2, <3>1, <3>3, Zenon DEF KeyOK, EntryOK
  <2>3. ASSUME NEW s \in Sentinels, sentinel[s].pc \in {"submit", "poll", "record"}
        PROVE  sentinel[s].head \in Heads /\ sentinel[s].command \in Commands
    BY <2>3, Zenon DEF RelayInv, AskOK
  <2>4. ASSUME NEW e \in Executors, exec[e].pc # "idle"
        PROVE  exec[e].task \in issued /\ exec[e].command \in Commands
    BY <2>4, Zenon DEF RelayInv, ExecOK
  <2>5. ticket.verification_task \in Option(issued) /\ passed \subseteq issued \X Heads
    BY Zenon DEF RelayInv, TicketOK
  <2> QED
    BY <2>1, <2>2, <2>3, <2>4, <2>5, Zenon DEF TypeOK
<1> QED
  BY <1>1, RelayInvAlways, PTL

\* The gate evidence is real: a ticket that names a verified commit and a task
\* names a task that ended with exit 0 on that commit.
THEOREM EvidenceAlwaysReal == Spec => []EvidenceIsReal
<1>1. RelayInv => EvidenceIsReal
  BY Zenon DEF RelayInv, TicketOK, EvidenceIsReal
<1> QED
  BY <1>1, RelayInvAlways, PTL

\* At most one task is pending or running for identical requests.
THEOREM LiveTasksAreUnique == Spec => []OneLiveTask
<1>1. RelayInv => OneLiveTask
  BY DEF RelayInv, EntryOK, Live, OneLiveTask
<1> QED
  BY <1>1, RelayInvAlways, PTL

\* A task is never in the hands of two executors.
THEOREM ExecutorsAreUnique == Spec => []OneExecutorPerTask
<1>1. RelayInv => OneExecutorPerTask
  BY Zenon DEF RelayInv, OneExecutorPerTask
<1> QED
  BY <1>1, RelayInvAlways, PTL

-----------------------------------------------------------------------------
\* complete_task mirrors before it publishes: when every write of the audit
\* trail arrives, a report about to be published is already there.
LEMMA NextAudited ==
  ASSUME ~RedisFails
  PROVE  RelayInv /\ Audited /\ [Next]_vars => Audited'
<1> SUFFICES ASSUME RelayInv, Audited, [Next]_vars PROVE Audited'
  BY Zenon
<1>1. /\ tasks \in [Tasks -> Option(Entries)] /\ exec \in [Executors -> Execs]
      /\ result \in [Tasks -> Option(Results)] /\ issued \subseteq Tasks
      /\ \A e \in Executors : ExecOK(exec[e], tasks, issued, passed)
  BY Zenon DEF RelayInv
<1>2. ASSUME NEW t \in Tasks, NEW r \in Results, Mirror(result, t, r)
      PROVE  result' \in [Tasks -> Option(Results)] /\ result'[t] # None
             /\ \A u \in Tasks : result[u] # None => result'[u] # None
  <2>1. result' = [result EXCEPT ![t] = r] /\ r # None
    BY <1>2, RelayAssumption, Zenon DEF Mirror
  <2> QED
    BY <1>1, <2>1, Zenon DEF Option
<1>3. CASE UNCHANGED <<tasks, exec, result>>
  BY <1>3, Zenon DEF Audited
<1>4. ASSUME NEW s \in Sentinels,
             Request(s) \/ Submit(s) \/ Poll(s) \/ GiveUp(s) \/ RecordVerified(s)
      PROVE  Audited'
  <2>1. CASE Request(s) \/ Poll(s) \/ GiveUp(s) \/ RecordVerified(s)
    BY <1>3, <2>1, Zenon DEF Request, Poll, GiveUp, RecordVerified, relay, audit
  <2>2. CASE Submit(s)
    <3>1. UNCHANGED <<exec, result>>
      BY <2>2, Zenon DEF Submit
    <3>2. \A t \in Tasks : tasks'[t] = tasks[t] \/ tasks'[t].state = "pending"
      BY <1>1, <2>2 DEF Submit, Created
    <3> QED
      BY <3>1, <3>2, Zenon DEF Audited
  <2> QED
    BY <1>4, <2>1, <2>2, Zenon
<1>5. ASSUME NEW e \in Executors, Executor(e) \/ ExecutorCrash(e) PROVE Audited'
  <2> DEFINE t == exec[e].task
  <2>1. CASE Claim(e)
    <3>1. result' = result /\ \A f \in Executors : exec'[f].pc = "publish" => exec'[f] = exec[f]
      BY <1>1, <2>1, ZenonT(30) DEF Claim, audit, ExecIdle, Execs
    <3>2. \A u \in Tasks : tasks'[u] = tasks[u] \/ tasks'[u].state = "running"
      BY <1>1, <2>1 DEF Claim, Entries, Option
    <3> QED
      BY <3>1, <3>2, Zenon DEF Audited
  <2>2. CASE Start(e) \/ NoResult(e) \/ ExecutorCrash(e)
    <3>1. UNCHANGED <<tasks, result>>
      BY <2>2, Zenon DEF Start, NoResult, ExecutorCrash, relay, audit
    <3>2. \A f \in Executors : exec'[f].pc = "publish" => exec'[f] = exec[f]
      BY <1>1, <2>2 DEF Start, NoResult, ExecutorCrash, ExecIdle, Execs
    <3> QED
      BY <3>1, <3>2, Zenon DEF Audited
  <2>3. CASE Finish(e)
    <3>1. t \in Tasks /\ tasks' = tasks /\ checkout \in Option(Heads)
      BY <1>1, <2>3, Zenon DEF Finish, ExecOK, relay, RelayInv
    <3>2. PICK r \in Results :
            /\ exec' = [exec EXCEPT ![e].pc = "complete", ![e].result = r] /\ Mirror(result, t, r)
      <4>1. PICK exit \in {"zero", "nonzero"},
                 head \in {None} \cup (IF checkout = exec[e].head THEN {checkout} ELSE {}) :
              /\ exec' = [exec EXCEPT ![e].pc = "complete",
                                      ![e].result = [exit |-> exit, head |-> head]]
              /\ Mirror(result, t, [exit |-> exit, head |-> head])
        BY <2>3, Zenon DEF Finish
      <4>2. head \in Option(Heads)
        BY <3>1, <4>1, Zenon DEF Option
      <4>3. [exit |-> exit, head |-> head] \in Results
        BY <4>1, <4>2, Zenon DEF Results
      <4> QED
        BY <4>1, <4>3, Zenon
    <3>3. \A u \in Tasks : result[u] # None => result'[u] # None
      BY <1>2, <3>1, <3>2, Zenon
    <3>4. \A f \in Executors : exec'[f].pc = "publish" => exec'[f] = exec[f]
      BY <1>1, <3>2, Zenon DEF Execs
    <3>5. \A f \in Executors : exec[f].pc = "publish" => exec[f].task \in Tasks
      BY <1>1, Zenon DEF ExecOK
    <3> QED
      BY <3>1, <3>3, <3>4, <3>5, Zenon DEF Audited
  <2>4. CASE Complete(e)
    <3>1. tasks' = tasks /\ t \in Tasks /\ exec[e].result \in Results
      BY <1>1, <2>4, Zenon DEF Complete, ExecOK, relay
    <3>2. CASE exec' = [exec EXCEPT ![e] = ExecIdle] /\ result' = result
      <4>1. \A f \in Executors : exec'[f].pc = "publish" => exec'[f] = exec[f]
        BY <1>1, <3>2, Zenon DEF ExecIdle
      <4> QED
        BY <3>1, <3>2, <4>1 DEF Audited
    <3>3. CASE exec' = [exec EXCEPT ![e].pc = "publish"] /\ Mirror(result, t, exec[e].result)
      <4>1. result'[t] # None /\ \A u \in Tasks : result[u] # None => result'[u] # None
        BY <1>2, <3>1, <3>3, Zenon
      <4>2. \A f \in Executors : exec'[f].task = t \/ exec'[f] = exec[f]
        BY <1>1, <3>3 DEF Execs
      <4>3. \A f \in Executors : exec[f].pc = "publish" => exec[f].task \in Tasks
        BY <1>1, Zenon DEF ExecOK
      <4> QED
        BY <3>1, <4>1, <4>2, <4>3, Zenon DEF Audited
    <3> QED
      BY <2>4, <3>2, <3>3, Zenon DEF Complete
  <2>5. CASE Publish(e)
    <3>1. result' = result /\ exec[e].pc = "publish" /\ t \in Tasks
      BY <1>1, <2>5, Zenon DEF Publish, audit, ExecOK
    <3>2. \A u \in Tasks : tasks'[u] = tasks[u] \/ u = t
      BY <1>1, <2>5, Zenon DEF Publish
    <3>3. \A f \in Executors : exec'[f].pc = "publish" => exec'[f] = exec[f]
      BY <1>1, <2>5, Zenon DEF Publish, ExecIdle
    <3> QED
      BY <3>1, <3>2, <3>3 DEF Audited
  <2> QED
    BY <1>5, <2>1, <2>2, <2>3, <2>4, <2>5, Zenon DEF Executor
<1>6. ASSUME NEW t \in Tasks, CancelCheck(t) \/ CancelMirror(t) \/ CancelPublish(t)
      PROVE  Audited'
  <2>1. CASE CancelCheck(t)
    BY <1>3, <2>1, Zenon DEF CancelCheck, audit
  <2>2. CASE CancelMirror(t)
    <3>1. UNCHANGED <<tasks, exec>> /\ (result' = result \/ Mirror(result, t, NoEvidence))
      BY <2>2, Zenon DEF CancelMirror
    <3>2. \A u \in Tasks : result[u] # None => result'[u] # None
      BY <1>2, <3>1, NoEvidenceSound, Zenon
    <3>3. \A f \in Executors : exec[f].pc = "publish" => exec[f].task \in Tasks
      BY <1>1, Zenon DEF ExecOK
    <3> QED
      BY <3>1, <3>2, <3>3, Zenon DEF Audited
  <2>3. CASE CancelPublish(t)
    <3>1. UNCHANGED <<exec, result>>
      BY <2>3, Zenon DEF CancelPublish, audit
    <3>2. \A u \in Tasks : tasks'[u] = tasks[u] \/ tasks'[u] = None \/ tasks'[u].state = "cancelled"
      BY <1>1, <2>3, Zenon DEF CancelPublish, Entries, Option
    <3> QED
      BY <3>1, <3>2, Zenon DEF Audited
  <2> QED
    BY <1>6, <2>1, <2>2, <2>3, Zenon
<1>7. ASSUME NEW c \in Commands, Evict(c) PROVE Audited'
  <2>1. UNCHANGED <<exec, result>> /\ \A u \in Tasks : tasks'[u] = tasks[u] \/ tasks'[u] = None
    BY <1>1, <1>7, Zenon DEF Evict, audit
  <2> QED
    BY <2>1, Zenon DEF Audited
<1>8. CASE Restart
  <2>1. /\ result' = result /\ \A u \in Tasks : tasks'[u] = None
        /\ \A f \in Executors : exec'[f].pc # "publish"
    BY <1>8, IdleClients, Zenon DEF Restart, audit
  <2> QED
    BY <2>1, Zenon DEF Audited
<1>9. CASE Edit \/ SetStatus
  BY <1>3, <1>9, Zenon DEF Edit, SetStatus, relay, audit
<1>10. CASE UNCHANGED vars
  BY <1>3, <1>10, Zenon DEF vars
<1> QED
  BY <1>4, <1>5, <1>6, <1>7, <1>8, <1>9, <1>10, Zenon DEF Next

\* When every write of the audit trail arrives, no task is seen as completed
\* before its result is durable.  (SharedStore::set does not report a failed
\* write, and then it may be: MCA2ARelayDurable.cfg.)
THEOREM CompletedAlwaysDurable ==
  ASSUME ~RedisFails
  PROVE  Spec => []CompletedIsDurable
<1>1. Init => Audited
  BY IdleClients, Zenon DEF Init, Audited
<1>2. RelayInv /\ Audited /\ [Next]_vars => Audited'
  BY NextAudited, Zenon
<1>3. Audited => CompletedIsDurable
  BY Zenon DEF Audited, CompletedIsDurable
<1> QED
  BY <1>1, <1>2, <1>3, RelayInvAlways, PTL DEF Spec
=============================================================================
