---------------------------- MODULE RuntimeChats ----------------------------
(***************************************************************************)
(* The worker conversations that the manager keeps for a hosted Nexus      *)
(* (routes/runtime.rs) and the deliveries Nexus makes through them: the    *)
(* rework directives of a FORGE and the review rounds of a SENTINEL.       *)
(* Coder holds the conversations; the manager holds one row per workspace  *)
(* and ticket, and one per delivered message key.  A request of Nexus can  *)
(* outlive its client: its handler then runs on and nobody reads the       *)
(* reply.  A manager that dies rolls its transaction back, but not what    *)
(* Coder has done.  The workspace is a running worker of the right ticket  *)
(* and the owner's Coder account is linked.                                *)
(***************************************************************************)
EXTENDS Integers, FiniteSets

CONSTANTS Callers,    \* requests of Nexus that can be under way at once
          Chats,      \* conversations Coder can create, numbered from 1
          MaxItems,   \* directives or review rounds that come up
          MaxMiscarry \* mishaps in a behaviour

VARIABLES ask,      \* what Nexus has to deliver, and under which message key
          caller,   \* requests under way
          chatRow,  \* the manager's row in runtime_chats
          sentRows, \* the manager's rows in runtime_chat_messages
          talk,     \* conversations in Coder
          wsGen,    \* the Coder workspace that the worker's row names
          nexusChat, \* the ticket's chat key in the store of Nexus
          miscarried

vars == <<ask, caller, chatRow, sentRows, talk, wsGen, nexusChat, miscarried>>

Items == 0..MaxItems   \* 0 is the prompt of a plain assignment
Gens == {1, 2}

NoChat == [st |-> "none", ws |-> 1, got |-> {}, keys |-> {}, marks |-> {}, twice |-> FALSE,
           scrolled |-> FALSE]
Idle == [at |-> "idle", item |-> 0, key |-> 0, chat |-> 0, live |-> TRUE]

TypeOK ==
  /\ ask \in [lane : {"forge", "sentinel"}, item : Items, key : Items, last : Items, reused : BOOLEAN]
  /\ caller \in [Callers -> [at : {"idle", "create", "listed", "made", "send", "unseen", "sent", "told"},
                             item : Items, key : Items, chat : Chats \cup {0}, live : BOOLEAN]]
  /\ chatRow \in [chat : Chats \cup {0}, ws : Gens]
  /\ sentRows \subseteq Chats \X Items
  /\ talk \in [Chats -> [st : {"none", "ok", "error", "gone"}, ws : Gens, got : SUBSET Items,
                         keys : SUBSET Items, marks : SUBSET Items, twice : BOOLEAN,
                         scrolled : BOOLEAN]]
  /\ wsGen \in Gens
  /\ nexusChat \in Chats \cup {0}
  /\ miscarried \in 0..MaxMiscarry

Init == /\ ask \in [lane : {"forge", "sentinel"}, item : {0}, key : {0}, last : {0}, reused : {FALSE}]
        /\ caller = [c \in Callers |-> Idle]
        /\ chatRow = [chat |-> 0, ws |-> 1]
        /\ sentRows = {}
        /\ talk = [k \in Chats |-> NoChat]
        /\ wsGen = 1
        /\ nexusChat = 0
        /\ miscarried = 0

Live(k) == k # 0 /\ talk[k].st \in {"ok", "error"}
Busy(c) == caller[c].at # "idle"
Moved(c, r) == caller' = [caller EXCEPT ![c] = r]
To(c, at) == Moved(c, [caller[c] EXCEPT !.at = at])
Ends(c) == Moved(c, Idle)

-----------------------------------------------------------------------------
(* What there is to deliver.                                               *)

\* Mutant: VESSEL takes a new id only for the first directive of a ticket.
FirstKeyOnly(n) == IF ask.last = 0 THEN n ELSE ask.key

\* The delivery id stays while a directive is pending, and is new after it was consumed.
DeliveryId(n) == IF ask.item = 0 THEN n ELSE ask.key

\* VESSEL runs between the passes of NEXUS in one controller.
persist_rework_directive ==
  /\ ask.lane = "forge" /\ ask.last < MaxItems /\ nexusChat # 0
  /\ \A c \in Callers : ~(Busy(c) /\ caller[c].live)
  /\ LET n == ask.last + 1
     IN ask' = [ask EXCEPT !.item = n, !.last = n, !.key = DeliveryId(n),
                           !.reused = ask.item # 0]
  /\ UNCHANGED <<caller, chatRow, sentRows, talk, wsGen, nexusChat, miscarried>>

\* The worker moves its lifecycle on at any time: a new namespace is due for review.
ReviewDue ==
  /\ ask.lane = "sentinel" /\ ask.last < MaxItems
  /\ LET n == ask.last + 1
     IN ask' = [ask EXCEPT !.item = n, !.last = n, !.key = n]
  /\ UNCHANGED <<caller, chatRow, sentRows, talk, wsGen, nexusChat, miscarried>>

-----------------------------------------------------------------------------
(* Nexus.                                                                  *)

\* An assignment without a chat starts one; a directive or a round is delivered.
Due == ask.item # 0 \/ (ask.lane = "forge" /\ nexusChat = 0)

Begin(c) ==
  /\ ~Busy(c) /\ Due
  /\ \A d \in Callers : ~(Busy(d) /\ caller[d].live)
  /\ Moved(c, [at |-> "create", item |-> ask.item, key |-> ask.key, chat |-> 0, live |-> TRUE])
  /\ UNCHANGED <<ask, chatRow, sentRows, talk, wsGen, nexusChat, miscarried>>

\* Mutant: every answer counts as a fresh conversation that has read the prompt.
CreatedByDefault(c, created) == "told"

\* A conversation that was there already has not read the prompt: a directive or a
\* round follows as a message.  The reply to a dead client leads nowhere.
AfterReply(c, created) ==
  IF created \/ caller[c].item = 0 THEN "told" ELSE "send"

Replied(c, chat, created) ==
  IF ~caller[c].live THEN Ends(c)
  ELSE Moved(c, [caller[c] EXCEPT !.chat = chat, !.at = AfterReply(c, created)])

create_managed_chat_for_assignment(c) ==
  /\ ask.lane = "forge" /\ caller[c].live
  /\ ask' = IF caller[c].item = 0 THEN ask ELSE [ask EXCEPT !.item = 0, !.reused = FALSE]

ensure_managed_sentinel_review(c) ==
  /\ ask.lane = "sentinel" /\ caller[c].live
  /\ ask' = IF ask.item = caller[c].item THEN [ask EXCEPT !.item = 0] ELSE ask

\* Both paths store the chat only after the prompt was delivered.
Finish(c) ==
  /\ caller[c].at = "told"
  /\ Ends(c)
  /\ \/ create_managed_chat_for_assignment(c) /\ nexusChat' = caller[c].chat
     \/ ensure_managed_sentinel_review(c) /\ nexusChat' = caller[c].chat
     \/ ~caller[c].live /\ UNCHANGED <<ask, nexusChat>>
  /\ UNCHANGED <<chatRow, sentRows, talk, wsGen, miscarried>>

-----------------------------------------------------------------------------
(* POST runtime/chats.                                                     *)

\* Mutant: nothing keeps two creations for a workspace apart.
NoLock(c) == TRUE

\* pg_advisory_xact_lock on the workspace, held until the transaction ends.
WorkspaceLock(c) == \A d \in Callers \ {c} : caller[d].at \notin {"listed", "made"}

\* Mutant: the stored conversation is returned without asking Coder for it.
RowBound == chatRow.chat # 0 /\ chatRow.ws = wsGen

RowLive == /\ chatRow.chat # 0 /\ chatRow.ws = wsGen
           /\ Live(chatRow.chat)

\* Mutant: a conversation without a row is not looked for.
NothingListed == {}

\* list_chats: a conversation of this workspace, owner and labels.
Reconciled == {k \in Chats : Live(k) /\ talk[k].ws = wsGen}

\* A stored conversation that failed is sent the resume prompt.
Nudged(k) == IF talk[k].st = "error" THEN [talk EXCEPT ![k].st = "ok"] ELSE talk

ReturnStored(c) ==
  /\ RowLive
  /\ talk' = Nudged(chatRow.chat)
  /\ Replied(c, chatRow.chat, FALSE)
  /\ UNCHANGED chatRow

AdoptListed(c) ==
  /\ ~RowLive
  /\ \E k \in Reconciled : /\ chatRow' = [chat |-> k, ws |-> wsGen]
                           /\ Replied(c, k, FALSE)
  /\ UNCHANGED talk

NoneListed(c) ==
  /\ ~RowLive /\ Reconciled = {}
  /\ To(c, "listed")
  /\ UNCHANGED <<chatRow, talk>>

create_chat(c) ==
  /\ caller[c].at = "create" /\ WorkspaceLock(c)
  /\ ReturnStored(c) \/ AdoptListed(c) \/ NoneListed(c)
  /\ UNCHANGED <<ask, sentRows, wsGen, nexusChat, miscarried>>

CreateInCoder(c) ==
  /\ caller[c].at = "listed"
  /\ \E k \in Chats :
       /\ talk[k].st = "none" /\ \A j \in Chats : j < k => talk[j].st # "none"
       /\ talk' = [talk EXCEPT ![k] = [NoChat EXCEPT !.st = "ok", !.ws = wsGen,
                                                     !.got = {caller[c].item}]]
       /\ Moved(c, [caller[c] EXCEPT !.at = "made", !.chat = k])
  /\ UNCHANGED <<ask, chatRow, sentRows, wsGen, nexusChat, miscarried>>

\* The row replaces the one of a lost conversation in the same transaction.
InsertChat(c) ==
  /\ caller[c].at = "made"
  /\ chatRow' = [chat |-> caller[c].chat, ws |-> talk[caller[c].chat].ws]
  /\ Replied(c, caller[c].chat, TRUE)
  /\ UNCHANGED <<ask, sentRows, talk, wsGen, nexusChat, miscarried>>

-----------------------------------------------------------------------------
(* POST runtime/chats/{chat}/messages.                                     *)

\* Mutant: a message without a row is sent again.
ReceivedByRow(k, key) == FALSE

\* The marker of an earlier delivery among the last 200 messages.
chat_message_contains_marker(k, key) == key \in talk[k].marks

\* Mutant: deliveries of one message are not serialised.
NoDeliveryLock(c) == TRUE

DeliveryLock(c) == \A d \in Callers \ {c} :
  ~(caller[d].at \in {"unseen", "sent"} /\ caller[d].chat = caller[c].chat /\ caller[d].key = caller[c].key)

Receives(k, i, key) ==
  talk' = [talk EXCEPT ![k].st = "ok", ![k].got = @ \cup {i}, ![k].keys = @ \cup {key},
                       ![k].marks = @ \cup {key},
                       ![k].twice = @ \/ key \in talk[k].keys]

send_chat_message(c) ==
  /\ caller[c].at = "send" /\ caller[c].live /\ DeliveryLock(c)
  /\ LET k == caller[c].chat
         key == caller[c].key
     IN \/ /\ chatRow.chat # k \/ (<<k, key>> \notin sentRows /\ ~Live(k))
           /\ Ends(c) /\ UNCHANGED <<sentRows, talk>>
        \/ /\ chatRow.chat = k /\ <<k, key>> \in sentRows
           /\ To(c, "told") /\ UNCHANGED <<sentRows, talk>>
        \/ /\ chatRow.chat = k /\ <<k, key>> \notin sentRows /\ Live(k)
           /\ chat_message_contains_marker(k, key)
           /\ sentRows' = sentRows \cup {<<k, key>>}
           /\ To(c, "told") /\ UNCHANGED talk
        \/ /\ chatRow.chat = k /\ <<k, key>> \notin sentRows /\ Live(k)
           /\ ~chat_message_contains_marker(k, key)
           /\ To(c, "unseen") /\ UNCHANGED <<sentRows, talk>>
  /\ UNCHANGED <<ask, chatRow, wsGen, nexusChat, miscarried>>

SendToCoder(c) ==
  /\ caller[c].at = "unseen"
  /\ IF Live(caller[c].chat)
       THEN Receives(caller[c].chat, caller[c].item, caller[c].key) /\ To(c, "sent")
       ELSE Ends(c) /\ UNCHANGED talk
  /\ UNCHANGED <<ask, chatRow, sentRows, wsGen, nexusChat, miscarried>>

InsertMessage(c) ==
  /\ caller[c].at = "sent"
  /\ sentRows' = sentRows \cup {<<caller[c].chat, caller[c].key>>}
  /\ To(c, "told")
  /\ UNCHANGED <<ask, chatRow, talk, wsGen, nexusChat, miscarried>>

\* A request that was not yet taken up when its client died goes nowhere.
Dropped(c) ==
  /\ caller[c].at = "send" /\ ~caller[c].live
  /\ Ends(c)
  /\ UNCHANGED <<ask, chatRow, sentRows, talk, wsGen, nexusChat, miscarried>>

-----------------------------------------------------------------------------
(* Mishaps.                                                                *)

Mishap == miscarried < MaxMiscarry /\ miscarried' = miscarried + 1

\* The manager dies between Coder's answer and its commit.
ManagerDies(c) ==
  /\ Mishap /\ caller[c].at \in {"made", "sent"}
  /\ Ends(c)
  /\ UNCHANGED <<ask, chatRow, sentRows, talk, wsGen, nexusChat>>

\* Nexus is restarted, or the connection breaks, while its request is under way.
ClientGone(c) ==
  /\ Mishap /\ Busy(c) /\ caller[c].live
  /\ Moved(c, [caller[c] EXCEPT !.live = FALSE])
  /\ UNCHANGED <<ask, chatRow, sentRows, talk, wsGen, nexusChat>>

\* A conversation fails, is archived, or grows past the 200 messages that are searched.
ChatChanges(k) ==
  /\ Mishap /\ Live(k)
  /\ \E st \in {"error", "gone"} : talk[k].st # st /\ talk' = [talk EXCEPT ![k].st = st]
  /\ UNCHANGED <<ask, caller, chatRow, sentRows, wsGen, nexusChat>>

ChatScrolls(k) ==
  /\ Mishap /\ Live(k) /\ talk[k].marks # {}
  /\ talk' = [talk EXCEPT ![k].marks = {}, ![k].scrolled = TRUE]
  /\ UNCHANGED <<ask, caller, chatRow, sentRows, wsGen, nexusChat>>

\* The worker's workspace is created anew.
WorkspaceReplaced ==
  /\ Mishap /\ wsGen = 1 /\ wsGen' = 2
  /\ UNCHANGED <<ask, caller, chatRow, sentRows, talk, nexusChat>>

Handles(c) == create_chat(c) \/ CreateInCoder(c) \/ InsertChat(c) \/ send_chat_message(c)
              \/ SendToCoder(c) \/ InsertMessage(c) \/ Dropped(c) \/ Finish(c)
Begins == \E c \in Callers : Begin(c)

Next == \/ persist_rework_directive \/ ReviewDue \/ Begins \/ WorkspaceReplaced
        \/ \E c \in Callers : Handles(c) \/ ManagerDies(c) \/ ClientGone(c)
        \/ \E k \in Chats : ChatChanges(k) \/ ChatScrolls(k)

Fairness == WF_vars(Begins) /\ \A c \in Callers : WF_vars(Handles(c))

Spec == Init /\ [][Next]_vars /\ Fairness

(* create_chat keeps one conversation per workspace and ticket: whatever     *)
(* request was abandoned or rolled back after Coder had created one, the     *)
(* next finds it, and two requests never create side by side.                *)
OneConversation == Cardinality({k \in Chats : Live(k) /\ talk[k].ws = wsGen}) <= 1

(* send_chat_message enqueues a message key at most once in a conversation,  *)
(* whether Nexus retries, the manager dies before its row is written or an   *)
(* abandoned request still runs; a conversation that outgrew the 200         *)
(* messages searched for the marker is excepted.                             *)
KeyEnqueuedOnce == \A k \in Chats : talk[k].twice => talk[k].scrolled

(* Nexus drops a directive or closes a review round only after a             *)
(* conversation has read it.  Excepted is a directive that replaced a        *)
(* pending one and shares its delivery id.                                   *)
NothingDropped ==
  (ask.item # 0 /\ ask'.item = 0 /\ ~ask.reused)
     => \E k \in Chats : ask.item \in talk[k].got

(* Every directive and every round is delivered, or another takes its place. *)
Answered(i) == ask.item # i
Delivered == \A i \in 1..MaxItems : []<>Answered(i)
=============================================================================
