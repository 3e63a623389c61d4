---------------------------- MODULE SentinelReviews ----------------------------
(***************************************************************************)
(* NEXUS's review scheduler for one ticket (crates/agent-nexus/src/lib.rs, *)
(* poll_harness_status_and_spawn_agents, direct Coder mode): under a lease *)
(* it reads the ticket's lifecycle, picks a SENTINEL slot, provisions its  *)
(* workspace and asks the ticket's one SENTINEL conversation for the       *)
(* review round that is due, or tells FORGE about a decision.  FORGE, the  *)
(* reviewers, the reviews of other tickets and Coder move in between.      *)
(*                                                                         *)
(* The lifecycle itself is modelled in LifecycleReducer.  Here FORGE works *)
(* (planning, building, blocked, a PR decided), a gate review is due       *)
(* (plan_ready, testing), or the recorded PR is to be reviewed (submit); a *)
(* review namespace (phase, revision, head, round) names one review that   *)
(* falls due, and only the current one matters: what a chat was asked, and *)
(* what a poll works on, is the current review or an earlier one.  The     *)
(* adoption of chats that older releases left per round is left out.       *)
(***************************************************************************)
EXTENDS Naturals, FiniteSets

CONSTANTS Pollers,    \* controllers that poll the ticket
          Sentinels,  \* SENTINEL slots
          Paired,     \* the slot paired with the ticket's FORGE
          Chats,      \* 1..n, Coder chats in order of creation
          Slow,       \* whether waiting for a workspace may outlast the poll lease
          MaxFaults   \* bound on crashes, failed calls and lost workspaces or chats

VARIABLES life, conv, session, alias, sentinel, wsId, wsUp, pollLease, poll,
          lostPoll, faults

vars == <<life, conv, session, alias, sentinel, wsId, wsUp, pollLease, poll,
          lostPoll, faults>>

NoOne == "none"
Ids == 0..(MaxFaults + 2)                    \* workspace ids of the ticket; 0: none

(* notice: FORGE is to be told of a decision or a blocker. *)
Lifecycle == [phase : {"working", "gate", "pr"}, notice : BOOLEAN]
Chat == [st : {"none", "busy", "waiting", "over"}, ws : Ids, asked : BOOLEAN]
SentinelSlot == [st : {"idle", "this", "other"}, ws : Ids]

Idle == [pc |-> "idle", cur |-> FALSE, s |-> NoOne, c |-> 0]

Exists(c) == c # 0 /\ conv[c].st \in {"busy", "waiting"}
Current == IF wsUp THEN wsId ELSE 0

Init == /\ life = [phase |-> "working", notice |-> FALSE]
        /\ conv = [c \in Chats |-> [st |-> "none", ws |-> 0, asked |-> FALSE]]
        /\ session = 0
        /\ alias = 0
        /\ sentinel = [s \in Sentinels |-> [st |-> "idle", ws |-> 0]]
        /\ wsId = 0
        /\ wsUp = FALSE
        /\ pollLease = NoOne
        /\ poll = [p \in Pollers |-> Idle]
        /\ lostPoll = FALSE
        /\ faults = 0

Fault == faults < MaxFaults /\ faults' = faults + 1

-----------------------------------------------------------------------------
(* One poll of the ticket. *)

ReviewDue == life.phase \in {"gate", "pr"}

\* Mutant: the lease is not consulted.
ClaimableAnyway(p) == TRUE

try_claim(p) == pollLease = NoOne

Release(p) == /\ pollLease' = IF pollLease = p THEN NoOne ELSE pollLease
              /\ poll' = [poll EXCEPT ![p] = Idle]
Go(p, r) == poll' = [poll EXCEPT ![p] = r] /\ UNCHANGED pollLease

(* A stored chat that is gone is forgotten; a PR round that has its chat is left alone, a    *)
(* gate round goes on to see whether the chat is bound to the current workspace.             *)
PollReview(p) ==
  /\ poll[p].pc = "idle"
  /\ try_claim(p)
  /\ ReviewDue
  /\ ~(life.phase = "pr" /\ Exists(alias))
  /\ alias' = IF Exists(alias) THEN alias ELSE 0
  /\ pollLease' = p
  /\ poll' = [poll EXCEPT ![p] = [Idle EXCEPT !.pc = "slot", !.cur = TRUE]]
  /\ UNCHANGED <<life, conv, session, sentinel, wsId, wsUp, lostPoll, faults>>

(* The slot that already reviews the ticket, else its pair if idle, else any idle one. *)
review_sentinel_for_ticket ==
  LET mine == {s \in Sentinels : sentinel[s].st = "this"}
      idle == {s \in Sentinels : sentinel[s].st = "idle"}
  IN  CASE mine # {} -> mine
        [] mine = {} /\ Paired \in idle -> {Paired}
        [] OTHER -> idle

TakeSlot(p, s) ==
  /\ poll[p].pc = "slot"
  /\ s \in review_sentinel_for_ticket
  /\ Go(p, [poll[p] EXCEPT !.pc = IF sentinel[s].ws = 0 THEN "provision" ELSE "ask", !.s = s])
  /\ UNCHANGED <<life, conv, session, alias, sentinel, wsId, wsUp, lostPoll, faults>>

NoSlot(p) == /\ poll[p].pc = "slot"
             /\ review_sentinel_for_ticket = {}
             /\ Release(p)
             /\ UNCHANGED <<life, conv, session, alias, sentinel, wsId, wsUp, lostPoll,
                            faults>>

(* create_workspace adopts the workspace of the ticket's name; its id is stored in the slot  *)
(* at once, and the poll gives up when it or its instructions are not ready in time.         *)
Provision(p, ready) ==
  /\ poll[p].pc = "provision"
  /\ wsUp' = TRUE
  /\ wsId' = IF wsUp THEN wsId ELSE wsId + 1
  /\ sentinel' = [sentinel EXCEPT ![poll[p].s].ws = wsId']
  /\ \/ ready /\ Go(p, [poll[p] EXCEPT !.pc = "ask"]) /\ UNCHANGED faults
     \/ ~ready /\ Release(p) /\ Fault
  /\ UNCHANGED <<life, conv, session, alias, lostPoll>>

(* alias is the chat stored for the current review, if p works on that one. *)
AliasOf(p) == IF poll[p].cur THEN alias ELSE 0

\* Mutant: the chat key does not name the review round.
AnyRound(p, c) == alias' = c

SetAlias(p, c) == alias' = IF poll[p].cur THEN c ELSE alias

(* A gate round whose chat runs in the slot's workspace only binds the slot. *)
ReuseChat(p) ==
  /\ poll[p].pc = "ask"
  /\ Exists(AliasOf(p))
  /\ conv[alias].ws = sentinel[poll[p].s].ws
  /\ sentinel' = [sentinel EXCEPT ![poll[p].s].st = "this"]
  /\ Release(p)
  /\ UNCHANGED <<life, conv, session, alias, wsId, wsUp, lostPoll, faults>>

\* Mutant: the next round is sent to a reviewer that still works on the last one.
AlwaysReady(c) == TRUE

Ready(c) == conv[c].st = "waiting"

(* continue_sentinel_review, up to its last call. *)
Ask(p) ==
  LET ws == sentinel[poll[p].s].ws
      c == session
  IN  /\ poll[p].pc = "ask"
      /\ Exists(AliasOf(p)) => conv[alias].ws # ws
      /\ SetAlias(p, 0)
      /\ \/ /\ ~Exists(c)                                     \* gone, or there was none
            /\ session' = 0
            /\ Go(p, [poll[p] EXCEPT !.pc = "create"])
            /\ UNCHANGED conv
         \/ /\ Exists(c) /\ conv[c].ws = ws
            /\ IF Ready(c) THEN Go(p, [poll[p] EXCEPT !.pc = "send", !.c = c]) ELSE Release(p)
            /\ UNCHANGED <<conv, session>>
         \/ /\ Exists(c) /\ conv[c].ws # ws                    \* interrupted, if it still runs
            /\ conv' = [conv EXCEPT ![c].st = "waiting"]
            /\ Go(p, [poll[p] EXCEPT !.pc = "archive", !.c = c])
            /\ UNCHANGED session
      /\ UNCHANGED <<life, sentinel, wsId, wsUp, lostPoll, faults>>

Over == [st |-> "over", ws |-> 0, asked |-> FALSE]
Archived(c) == [conv EXCEPT ![c] = Over]

Archive(p) == /\ poll[p].pc = "archive"
              /\ conv' = Archived(poll[p].c)
              /\ session' = 0
              /\ Go(p, [poll[p] EXCEPT !.pc = "create", !.c = 0])
              /\ UNCHANGED <<life, alias, sentinel, wsId, wsUp, lostPoll, faults>>

Unused == {c \in Chats : conv[c].st = "none"}

create_chat(p) ==
  /\ poll[p].pc = "create"
  /\ Unused # {}
  /\ LET c == CHOOSE x \in Unused : \A y \in Unused : x <= y
     IN  /\ conv' = [conv EXCEPT ![c] = [st |-> "busy", ws |-> sentinel[poll[p].s].ws,
                                         asked |-> poll[p].cur]]
         /\ Go(p, [poll[p] EXCEPT !.pc = "store", !.c = c])
  /\ UNCHANGED <<life, session, alias, sentinel, wsId, wsUp, lostPoll, faults>>

send_chat_message(p) ==
  /\ poll[p].pc = "send"
  /\ conv' = [conv EXCEPT ![poll[p].c].st = "busy", ![poll[p].c].asked = poll[p].cur]
  /\ Go(p, [poll[p] EXCEPT !.pc = "store"])
  /\ UNCHANGED <<life, session, alias, sentinel, wsId, wsUp, lostPoll, faults>>

(* continue_sentinel_review stores the conversation, and its caller then the slot. *)
Store(p) == /\ poll[p].pc = "store"
            /\ session' = poll[p].c
            /\ SetAlias(p, poll[p].c)
            /\ Go(p, [poll[p] EXCEPT !.pc = "bind"])
            /\ UNCHANGED <<life, conv, sentinel, wsId, wsUp, lostPoll, faults>>

Bind(p) == /\ poll[p].pc = "bind"
           /\ sentinel' = [sentinel EXCEPT ![poll[p].s] = [st |-> "this",
                                                           ws |-> conv[poll[p].c].ws]]
           /\ Release(p)
           /\ UNCHANGED <<life, conv, session, alias, wsId, wsUp, lostPoll, faults>>

(* FORGE's chat gets the message and then the key of this decision is set. *)
Notify(p, ok) ==
  /\ poll[p].pc = "idle"
  /\ try_claim(p)
  /\ life.notice
  /\ life' = IF ok THEN [life EXCEPT !.notice = FALSE] ELSE life
  /\ IF ok THEN UNCHANGED faults ELSE Fault
  /\ UNCHANGED <<conv, session, alias, sentinel, wsId, wsUp, pollLease, poll, lostPoll>>

(* A call to Coder fails: the poll ends and the next one starts over. *)
CallFails(p) == /\ poll[p].pc \in {"provision", "ask", "archive", "create", "send"}
                /\ Release(p)
                /\ Fault
                /\ UNCHANGED <<life, conv, session, alias, sentinel, wsId, wsUp, lostPoll>>

PollerCrash(p) == /\ poll[p].pc # "idle"
                  /\ poll' = [poll EXCEPT ![p] = Idle]
                  /\ lostPoll' = (lostPoll \/ poll[p].pc = "store")
                  /\ Fault
                  /\ UNCHANGED <<life, conv, session, alias, sentinel, wsId, wsUp, pollLease>>

(* 900 s after the claim: its holder died, or it still waits for a workspace.                *)
LeaseExpires == /\ pollLease # NoOne
                /\ \/ poll[pollLease].pc = "idle"
                   \/ Slow /\ poll[pollLease].pc = "provision"
                /\ pollLease' = NoOne
                /\ UNCHANGED <<life, conv, session, alias, sentinel, wsId, wsUp, poll, lostPoll, faults>>

-----------------------------------------------------------------------------
(* FORGE, the reviewers and a human move the lifecycle. *)

Advance(l) == /\ life' = l
              /\ UNCHANGED <<session, sentinel, wsId, wsUp, pollLease, lostPoll>>

RequestReview(phase) ==
  /\ life.phase = "working"
  /\ Advance([phase |-> phase, notice |-> FALSE])
  /\ alias' = 0
  /\ conv' = [c \in Chats |-> [conv[c] EXCEPT !.asked = FALSE]]
  /\ poll' = [p \in Pollers |-> [poll[p] EXCEPT !.cur = FALSE]]
  /\ UNCHANGED faults

(* A verdict of another round is refused by the lifecycle; FORGE waits to hear of one, except *)
(* of the approval of its PR.                                                                 *)
Verdict(c, approved) == /\ conv[c].st = "busy"
                        /\ conv[c].asked
                        /\ ReviewDue
                        /\ Advance([life EXCEPT !.phase = "working",
                                               !.notice = (life.phase = "gate" \/ ~approved)])
                        /\ UNCHANGED <<conv, alias, poll, faults>>

(* A human rejects, or the ticket is blocked. *)
Interrupted == /\ ReviewDue
               /\ Fault
               /\ Advance([life EXCEPT !.phase = "working", !.notice = TRUE])
               /\ UNCHANGED <<conv, alias, poll>>

-----------------------------------------------------------------------------
(* Coder and the other tickets. *)

World == UNCHANGED <<life, session, alias, pollLease, poll, lostPoll>>

(* The agent ends its turn, with or without a verdict. *)
TurnEnds(c) == /\ conv[c].st = "busy"
               /\ conv' = [conv EXCEPT ![c].st = "waiting"]
               /\ World
               /\ UNCHANGED <<sentinel, wsId, wsUp, faults>>

ChatDeleted(c) == /\ Exists(c)
                  /\ Fault
                  /\ conv' = [conv EXCEPT ![c] = Over]
                  /\ World
                  /\ UNCHANGED <<sentinel, wsId, wsUp>>

(* NEXUS's recovery gives a busy slot whose workspace crashed, or is gone, the ticket's       *)
(* workspace of the same name, or a new one.                                                 *)
Recovered(s) == /\ sentinel[s].st = "this"
                /\ LET gone == sentinel[s].ws # Current
                   IN  /\ wsId' = IF gone /\ wsUp THEN wsId ELSE wsId + 1
                       /\ IF gone THEN UNCHANGED faults ELSE Fault
                /\ wsUp' = TRUE
                /\ sentinel' = [sentinel EXCEPT ![s].ws = wsId']
                /\ World
                /\ UNCHANGED conv

(* The review of another ticket takes an idle slot: in passing, with the workspace it may  *)
(* have, or from under a poll that has just chosen it.                                       *)
OtherTakes(s) == /\ s = Paired                    \* one contended slot is enough
                 /\ sentinel[s].st = "idle"
                 /\ IF sentinel[s].ws = 0 /\ \A p \in Pollers : poll[p].s # s
                    THEN UNCHANGED faults ELSE Fault
                 /\ sentinel' = [sentinel EXCEPT ![s].st = "other"]
                 /\ World
                 /\ UNCHANGED <<conv, wsId, wsUp>>

(* That ticket ends: its slot's workspace is destroyed and leaves every slot. *)
OtherLeaves(s) == LET ws == sentinel[s].ws
                  IN  /\ sentinel[s].st = "other"
                      /\ sentinel' = [x \in Sentinels |->
                           CASE x = s -> [st |-> "idle", ws |-> 0]
                             [] x # s /\ ws # 0 /\ sentinel[x].ws = ws -> [sentinel[x] EXCEPT !.ws = 0]
                             [] OTHER -> sentinel[x]]
                      /\ wsUp' = (wsUp /\ ws # wsId)
                      /\ World
                      /\ UNCHANGED <<conv, wsId, faults>>

Poll == \E p \in Pollers : \/ PollReview(p)
                           \/ \E s \in Sentinels : TakeSlot(p, s)
                           \/ NoSlot(p)
                           \/ \E ready \in BOOLEAN : Provision(p, ready)
                           \/ ReuseChat(p)
                           \/ Ask(p)
                           \/ Archive(p)
                           \/ create_chat(p)
                           \/ send_chat_message(p)
                           \/ Store(p)
                           \/ Bind(p)
                           \/ \E ok \in BOOLEAN : Notify(p, ok)

Next == \/ Poll
        \/ \E p \in Pollers : CallFails(p) \/ PollerCrash(p)
        \/ LeaseExpires
        \/ \E phase \in {"gate", "pr"} : RequestReview(phase)
        \/ \E c \in Chats, approved \in BOOLEAN : Verdict(c, approved)
        \/ Interrupted
        \/ \E c \in Chats : TurnEnds(c) \/ ChatDeleted(c)
        \/ \E s \in Sentinels : Recovered(s) \/ OtherTakes(s) \/ OtherLeaves(s)

(* Polls recur, dead leases expire, an agent's turn ends, other tickets end. *)
Fairness == /\ WF_vars(Poll)
            /\ WF_vars(LeaseExpires)
            /\ \A c \in Chats : WF_vars(TurnEnds(c))
            /\ \A s \in Sentinels : WF_vars(OtherLeaves(s)) /\ WF_vars(Recovered(s))

Spec == Init /\ [][Next]_vars /\ Fairness

TypeOK == /\ life \in Lifecycle
          /\ conv \in [Chats -> Chat]
          /\ session \in Chats \cup {0}
          /\ alias \in Chats \cup {0}
          /\ sentinel \in [Sentinels -> SentinelSlot]
          /\ wsId \in Ids
          /\ wsUp \in BOOLEAN
          /\ pollLease \in Pollers \cup {NoOne}
          /\ lostPoll \in BOOLEAN
          /\ faults \in 0..MaxFaults

(* One conversation per ticket: a second SENTINEL chat is created only after the first is   *)
(* deleted or archived, unless a controller dies between creating a chat and storing it.    *)
OneConversation == lostPoll \/ Cardinality({c \in Chats : Exists(c)}) <= 1

(* A reviewer that still works on an earlier round is not handed the next one: the round    *)
(* waits until its turn has ended.                                                          *)
NoRoundOverAnother ==
  \A c \in Chats : (conv[c].st = "busy" /\ ~conv[c].asked) => ~conv'[c].asked

(* A review that falls due is put to a reviewer in the ticket's current workspace, or is    *)
(* over, whatever crashes, failed calls and replaced workspaces come in between.  A PR      *)
(* review may stay with a chat of an old workspace, which the PR branch does not look at.   *)
Asked == ReviewDue => \E c \in Chats : Exists(c) /\ conv[c].asked
                                      /\ (life.phase = "pr" \/ conv[c].ws = Current)
ReviewIsAsked == []<>Asked
=============================================================================
