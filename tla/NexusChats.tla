---------------------------- MODULE NexusChats ----------------------------
(***************************************************************************)
(* The Coder chat of a FORGE assignment, without a manager                 *)
(* (agent-nexus/src/lib.rs, agent-forge/src/lib.rs and                     *)
(* agent-vessel/src/node.rs): NEXUS inspects the chats it labelled, resumes*)
(* the stored one, rotates it when its workspace was replaced or it is     *)
(* gone, and creates another; FORGE's poll and VESSEL's rework directives  *)
(* share its keys.  The nodes of the flow run one after the other; the     *)
(* agent in the chat, Coder and SENTINEL's plan review run beside them, any*)
(* call to Coder may fail, with or without its effect, and the controller  *)
(* may crash between any two calls.  A chat is a number, 0 when there is   *)
(* none; so is a rework directive.                                         *)
(***************************************************************************)
EXTENDS Integers, FiniteSets
LOCAL INSTANCE SequencesExt

CONSTANTS CREATE_CHAT_MAX_ATTEMPTS, CHAT_RESUME_MAX_ATTEMPTS,
          MaxWorkspaces,   \* bound: workspaces of the slot, the first and its replacements
          MaxDirectives,   \* bound: rework directives
          MaxMischance     \* bound: failed calls, removed chats and crashes

VARIABLES convs,       \* the chats of this ticket in Coder
          chatKey,     \* ticket:{id}:chat:forge
          chatAction,  \* ticket:{id}:chat_action:forge
          dispatched,  \* chat named by ticket:{id}:dispatch:forge
          rework,      \* ticket:{id}:rework_directive:forge
          asked,       \* the latest directive that was stored there
          slotWs,      \* the workspace of the worker slot
          pending,     \* workspaces with an instructions_pending key
          instructed,  \* workspaces with their instructions
          gate,        \* "closed" while a submitted plan waits for its approval
          nexusAt,     \* where the flow is, the chat in hand and the failed tries
          nudges,      \* history: follow-ups sent to the chat since it, or a call to it, failed
          strayed,     \* history: a chat was created and its id never stored
          mischance

vars == <<convs, chatKey, chatAction, dispatched, rework, asked, slotWs, pending,
          instructed, gate, nexusAt, nudges, strayed, mischance>>

ChatIds == 1..(MaxWorkspaces + MaxMischance)
NoChat == [ws |-> 0, status |-> "none", prompt |-> 0]
Exists(c) == convs[c].status \notin {"none", "gone"}
NewId == CHOOSE c \in ChatIds : convs[c].status = "none" /\ \A o \in ChatIds : o < c => convs[o].status # "none"

Init == /\ convs = [c \in ChatIds |-> NoChat]
        /\ chatKey = 0 /\ chatAction = "none" /\ dispatched = 0
        /\ rework = 0 /\ asked = 0
        /\ slotWs = 1 /\ pending = {1} /\ instructed = {}
        /\ gate = "open"
        /\ nexusAt = [at |-> "inspect", chat |-> 0, tries |-> 0]
        /\ nudges = 0 /\ strayed = FALSE /\ mischance = 0

At(stage) == nexusAt.at = stage
GoesTo(stage) == nexusAt' = [at |-> stage, chat |-> 0, tries |-> 0]
Mischance == mischance < MaxMischance /\ mischance' = mischance + 1
Chats == <<convs, nudges>>
Keys == <<chatKey, chatAction, dispatched, rework, asked>>
Slot == <<slotWs, pending, instructed, gate>>

\* What a message does to the chat it reaches.
Woken(c) == convs' = [convs EXCEPT ![c].status = "running"]
AnyFailed == \E c \in ChatIds : convs[c].status = "error"

----------------------------------------------------------------------------
(* inspect_coder_recovery: every labelled chat of the ticket, in the order *)
(* Coder lists them, rewrites the one action key.                          *)

\* Mutant: a chat that waits counts as done, whatever it was last sent.
InspectedAnyway(action, c) ==
    CASE convs[c].status = "error" -> "resume_needed"
      [] convs[c].status = "waiting" -> IF action = "interrupted" THEN "resume_needed" ELSE "completed"
      [] OTHER -> action

Inspected(action, c) ==
    CASE convs[c].status = "error" -> "resume_needed"
      [] convs[c].status = "waiting" /\ action = "interrupted" -> "resume_needed"
      [] convs[c].status = "waiting" /\ action \notin {"follow_up_sent", "completed"} -> "completed"
      [] OTHER -> action

inspect_coder_recovery ==
    /\ At("inspect") /\ GoesTo("ensure")
    /\ \E listed \in SetToSeqs({c \in ChatIds : Exists(c)}) :
         chatAction' = FoldLeft(Inspected, chatAction, listed)
    /\ UNCHANGED <<Chats, chatKey, dispatched, rework, asked, Slot, strayed, mischance>>

ListFails ==
    /\ At("inspect") /\ GoesTo("ensure") /\ Mischance
    /\ UNCHANGED <<Chats, Keys, Slot, strayed>>

----------------------------------------------------------------------------
(* create_chat_for_assignment: the stored chat.                            *)

is_waiting_for_planning_gate == gate = "closed"

should_resume_existing_chat(status, action) ==
    \/ status = "error"
    \/ status = "waiting"
       /\ action \in {"none", "completed", "interrupted", "resume_needed", "resume_failed"}

\* Mutant: a chat on a workspace that was replaced is kept.
MissingOnly(c) == convs[c].status = "gone"

\* The chat no longer exists, or is bound to another workspace.
Stale(c) == convs[c].status = "gone" \/ convs[c].ws # slotWs

RotateChat ==
    /\ At("ensure") /\ chatKey # 0 /\ Stale(chatKey) /\ GoesTo("prepare")
    /\ chatKey' = 0 /\ chatAction' = "none"
    /\ dispatched' = IF convs[chatKey].status = "gone" THEN dispatched ELSE 0
    /\ UNCHANGED <<Chats, rework, asked, Slot, strayed, mischance>>

NothingStored ==
    /\ At("ensure") /\ chatKey = 0 /\ GoesTo("prepare")
    /\ UNCHANGED <<Chats, Keys, Slot, strayed, mischance>>

KeepChat ==
    /\ At("ensure") /\ chatKey # 0 /\ ~Stale(chatKey)
    /\ LET c == convs[chatKey] IN
         IF ~is_waiting_for_planning_gate /\ should_resume_existing_chat(c.status, chatAction)
         THEN nexusAt' = [at |-> "resume", chat |-> chatKey, tries |-> 0]
         ELSE GoesTo("forge")
    /\ UNCHANGED <<Chats, Keys, Slot, strayed, mischance>>

\* Mutant: any failed lookup counts as a chat that is gone.
ForgetsChat == chatKey' = 0 /\ chatAction' = "none" /\ GoesTo("prepare")

LookupFails == UNCHANGED <<chatKey, chatAction>> /\ GoesTo("forge")

LookupError ==
    /\ At("ensure") /\ chatKey # 0 /\ Mischance /\ LookupFails
    /\ UNCHANGED <<Chats, dispatched, rework, asked, Slot, strayed>>

\* resume_chat succeeds; the chat may have moved on since it was looked up.
resume_chat ==
    /\ At("resume") /\ Exists(nexusAt.chat) /\ GoesTo("forge")
    /\ Woken(nexusAt.chat)
    /\ chatAction' = "follow_up_sent"
    /\ nudges' = IF AnyFailed THEN 0 ELSE nudges + 1
    /\ UNCHANGED <<chatKey, dispatched, rework, asked, Slot, strayed, mischance>>

\* It fails, although the message may have been delivered.
ResumeFails ==
    /\ At("resume") /\ GoesTo("forge")
    /\ \/ ~Exists(nexusAt.chat) /\ UNCHANGED <<convs, mischance>>
       \/ Exists(nexusAt.chat) /\ Mischance /\ (Woken(nexusAt.chat) \/ UNCHANGED convs)
    /\ chatAction' = "resume_failed" /\ nudges' = 0
    /\ UNCHANGED <<chatKey, dispatched, rework, asked, Slot, strayed>>

----------------------------------------------------------------------------
(* create_chat_for_assignment: another chat.                               *)

\* Mutant: the key goes before the instructions are there.
PendingCleared == pending \ {slotWs}

\* A provisioning that failed or took too long leaves its key.
PendingAfterFailure == pending

ensure_workspace_instructions ==
    /\ At("prepare") /\ GoesTo("create")
    /\ pending' = pending \ {slotWs}
    /\ instructed' = IF slotWs \in pending THEN instructed \cup {slotWs} ELSE instructed
    /\ UNCHANGED <<Chats, Keys, slotWs, gate, strayed, mischance>>

\* The instructions could not be provisioned: the chat is deferred.
DeferChat ==
    /\ At("prepare") /\ slotWs \in pending /\ Mischance /\ GoesTo("forge")
    /\ pending' = PendingAfterFailure
    /\ UNCHANGED <<Chats, Keys, slotWs, instructed, gate, strayed>>

\* No organization to create the chat in.
NoOrganization ==
    /\ At("prepare") /\ Mischance /\ GoesTo("forge")
    /\ UNCHANGED <<Chats, Keys, Slot, strayed>>

\* Mutant: the chat starts with the task although a directive waits.
TaskPrompt(status) == [ws |-> slotWs, status |-> status, prompt |-> 0]

\* The chat Coder creates: a stored directive is its only prompt, 0 is the task.
NewChat(status) == [ws |-> slotWs, status |-> status, prompt |-> rework]

create_chat ==
    /\ At("create")
    /\ \E status \in {"running", "error"} : convs' = [convs EXCEPT ![NewId] = NewChat(status)]
    /\ nexusAt' = [at |-> "created", chat |-> NewId, tries |-> 0]
    /\ UNCHANGED <<nudges, Keys, Slot, strayed, mischance>>

\* The request fails, although Coder may have created the chat.
CreateFails ==
    /\ At("create") /\ Mischance
    /\ \/ UNCHANGED <<convs, strayed>>
       \/ convs' = [convs EXCEPT ![NewId] = NewChat("running")] /\ strayed' = TRUE
    /\ IF nexusAt.tries + 1 >= CREATE_CHAT_MAX_ATTEMPTS THEN GoesTo("forge")
       ELSE nexusAt' = [nexusAt EXCEPT !.tries = @ + 1]
    /\ UNCHANGED <<nudges, Keys, Slot>>

ConsumeDirective ==
    /\ At("created") /\ rework' = 0
    /\ nexusAt' = [nexusAt EXCEPT !.at = IF convs[nexusAt.chat].status = "error" THEN "revive" ELSE "store"]
    /\ UNCHANGED <<Chats, chatKey, chatAction, dispatched, asked, Slot, strayed, mischance>>

\* A chat that came up in error is nudged a few times, and kept either way.
ReviveChat ==
    /\ At("revive")
    /\ \/ Exists(nexusAt.chat) /\ Woken(nexusAt.chat) /\ nexusAt' = [nexusAt EXCEPT !.at = "store"] /\ UNCHANGED mischance
       \/ /\ UNCHANGED convs /\ (IF Exists(nexusAt.chat) THEN Mischance ELSE UNCHANGED mischance)
          /\ nexusAt' = IF nexusAt.tries + 1 >= CHAT_RESUME_MAX_ATTEMPTS THEN [nexusAt EXCEPT !.at = "store"]
                        ELSE [nexusAt EXCEPT !.tries = @ + 1]
    /\ UNCHANGED <<nudges, Keys, Slot, strayed>>

StoreChat ==
    /\ At("store") /\ GoesTo("forge")
    /\ chatKey' = nexusAt.chat /\ chatAction' = "started" /\ dispatched' = nexusAt.chat
    /\ nudges' = 0
    /\ UNCHANGED <<convs, rework, asked, Slot, strayed, mischance>>

----------------------------------------------------------------------------
(* The nodes after NEXUS, and what runs beside the flow.                   *)

\* FORGE's poll: a chat in error is to be resumed.
sync_chat_status_to_store ==
    /\ At("forge") /\ GoesTo("vessel")
    /\ chatAction' = IF chatKey # 0 /\ convs[chatKey].status = "error" THEN "resume_needed" ELSE chatAction
    /\ UNCHANGED <<Chats, chatKey, dispatched, rework, asked, Slot, strayed, mischance>>

StatusUnread ==
    /\ At("forge") /\ chatKey # 0 /\ Mischance /\ GoesTo("vessel")
    /\ UNCHANGED <<Chats, Keys, Slot, strayed>>

\* VESSEL: a directive goes to the stored chat, or waits for the next one.
persist_rework_directive ==
    /\ At("vessel") /\ chatKey = 0 /\ asked < MaxDirectives /\ GoesTo("inspect")
    /\ rework' = asked + 1 /\ asked' = asked + 1
    /\ UNCHANGED <<Chats, chatKey, chatAction, dispatched, Slot, strayed, mischance>>

dispatch_ci_fix_for_pr ==
    /\ At("vessel") /\ chatKey # 0 /\ Exists(chatKey) /\ GoesTo("inspect")
    /\ Woken(chatKey)
    /\ UNCHANGED <<nudges, Keys, Slot, strayed, mischance>>

NothingToDispatch ==
    /\ At("vessel") /\ GoesTo("inspect")
    /\ UNCHANGED <<Chats, Keys, Slot, strayed, mischance>>

\* Between two polls the recovery of a failed workspace replaced it.
ReplaceWorkspace ==
    /\ At("inspect") /\ slotWs < MaxWorkspaces
    /\ slotWs' = slotWs + 1 /\ pending' = pending \cup {slotWs + 1}
    /\ UNCHANGED <<Chats, Keys, instructed, gate, nexusAt, strayed, mischance>>

\* The agent ends its turn, or Coder fails it.
TurnEnds(c) ==
    /\ convs[c].status = "running"
    /\ \/ convs' = [convs EXCEPT ![c].status = "waiting"] /\ UNCHANGED nudges
       \/ convs' = [convs EXCEPT ![c].status = "error"] /\ nudges' = 0
    /\ UNCHANGED <<Keys, Slot, nexusAt, strayed, mischance>>

\* The agent submits its plan; SENTINEL approves or rejects it.
PlanGate ==
    /\ \/ gate = "open" /\ chatKey # 0 /\ convs[chatKey].status = "running" /\ gate' = "closed"
       \/ gate = "closed" /\ gate' = "open"
    /\ UNCHANGED <<Chats, Keys, slotWs, pending, instructed, nexusAt, strayed, mischance>>

ChatRemoved(c) ==
    /\ Exists(c) /\ Mischance
    /\ convs' = [convs EXCEPT ![c].status = "gone"]
    /\ UNCHANGED <<nudges, Keys, Slot, nexusAt, strayed>>

Crash ==
    /\ ~At("inspect") /\ Mischance /\ GoesTo("inspect")
    /\ strayed' = (strayed \/ nexusAt.at \in {"created", "revive", "store"})
    /\ UNCHANGED <<Chats, Keys, Slot>>

Poll == \/ inspect_coder_recovery \/ RotateChat \/ NothingStored \/ KeepChat
        \/ resume_chat \/ ResumeFails \/ ensure_workspace_instructions \/ create_chat
        \/ ConsumeDirective \/ ReviveChat \/ StoreChat
        \/ sync_chat_status_to_store \/ NothingToDispatch

Next == \/ Poll \/ ListFails \/ LookupError \/ DeferChat \/ NoOrganization \/ CreateFails \/ StatusUnread
        \/ persist_rework_directive \/ dispatch_ci_fix_for_pr \/ ReplaceWorkspace \/ PlanGate \/ Crash
        \/ \E c \in ChatIds : TurnEnds(c) \/ ChatRemoved(c)

Spec == Init /\ [][Next]_vars /\ WF_vars(Poll)

----------------------------------------------------------------------------
(* The keys hold chats, actions and directives that were handed out.       *)
TypeOK == /\ convs \in [ChatIds -> [ws : 0..MaxWorkspaces, prompt : 0..MaxDirectives,
                                    status : {"none", "running", "waiting", "error", "gone"}]]
          /\ chatKey \in {0} \cup ChatIds /\ dispatched \in {0} \cup ChatIds
          /\ chatAction \in {"none", "started", "completed", "interrupted", "follow_up_sent",
                             "resume_needed", "resume_failed"}
          /\ rework \in 0..MaxDirectives /\ asked \in 0..MaxDirectives
          /\ slotWs \in 1..MaxWorkspaces /\ pending \cup instructed \subseteq 1..MaxWorkspaces
          /\ gate \in {"open", "closed"} /\ nudges \in Nat
          /\ nexusAt.chat \in {0} \cup ChatIds
          /\ mischance \in 0..MaxMischance

(* One workspace never runs two conversations of the ticket: a lookup that *)
(* fails keeps the stored chat (lib.rs:1779).  A chat whose id was never   *)
(* stored, because the answer or the controller was lost, is the exception.*)
OneConversation ==
    strayed \/ Cardinality({c \in ChatIds : Exists(c) /\ convs[c].ws = slotWs}) <= 1

(* A stored rework directive is dropped only once a chat was started with  *)
(* it, however often its creation fails (lib.rs:1984).                     *)
DirectiveCarried ==
    asked # 0 => rework = asked \/ \E c \in ChatIds : convs[c].prompt = asked

(* A chat that waits is followed up once, and not again on every poll,     *)
(* while neither the call nor a chat of the ticket fails (lib.rs:4614).    *)
NudgedOnce == nudges <= 1

(* No chat starts in a workspace before its instructions are there, also   *)
(* when provisioning them failed or was cut off before (lib.rs:1946).      *)
InstructedFirst == \A c \in ChatIds : convs[c].ws # 0 => convs[c].ws \in instructed

(* The assigned ticket keeps coming back to a chat on its workspace.       *)
BoundToWorkspace == chatKey # 0 /\ convs[chatKey].ws = slotWs
ChatReplaced == []<>BoundToWorkspace
=============================================================================
