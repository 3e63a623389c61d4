--------------------------- MODULE RelayRequests ----------------------------
(***************************************************************************)
(* The requests SENTINEL and FORGE of a pair make to the A2A relay         *)
(* (agent-nexus/src/a2a/http_server.rs, verify_handler.rs and              *)
(* openflows-harness/src/a2a_client.rs, store.rs, executor.rs): the token  *)
(* of the pair that NEXUS records when it provisions a workspace, the      *)
(* checks every method makes, the polling SENTINEL and the executor with   *)
(* its cancel poller.  The relay may restart, with another secret or not,  *)
(* and any call may be lost.  The tasks of the relay under concurrent      *)
(* requests of one pair are in A2ARelay; here several pairs share it.      *)
(***************************************************************************)
EXTENDS Integers, FiniteSets

CONSTANTS Pairs, TaskIds,
          None,
          MaxFaults, MaxSecrets   \* bounds: lost calls and restarts, secrets of the hooks

Roles == {"sentinel", "forge"}

VARIABLES hookSecret,   \* the secret the tokens are derived from, by number
          tokenHash,    \* pair:{id}:a2a_token_sha256
          wsToken,      \* A2A_PAIR_TOKEN of each workspace
          relayTask,    \* the relay's tasks
          audited,      \* audit:a2a:{task}:request and :result
          verify,       \* SENTINEL's verify request
          serve,        \* FORGE's verify serve
          told,         \* <<pair, task>> results given out
          relayFaults

vars == <<hookSecret, tokenHash, wsToken, relayTask, audited, verify, serve, told, relayFaults>>

Results == {"run", "timeout", "failed", "cancelled"}
NotAsking == [stage |-> "idle", task |-> None]
NotServing == [stage |-> "idle", task |-> None, cancel |-> FALSE, poller |-> FALSE, result |-> None]

Init == /\ hookSecret = 1
        /\ tokenHash = [p \in Pairs |-> 0]
        /\ wsToken = [p \in Pairs |-> [r \in Roles |-> 0]]
        /\ relayTask = [t \in TaskIds |-> None]
        /\ audited = [t \in TaskIds |-> [pair |-> None, result |-> None, by |-> None]]
        /\ verify = [p \in Pairs |-> NotAsking]
        /\ serve = [p \in Pairs |-> NotServing]
        /\ told = {} /\ relayFaults = 0

Fault == relayFaults < MaxFaults /\ relayFaults' = relayFaults + 1

----------------------------------------------------------------------------
(* Tokens.                                                                 *)

\* Mutant: the token is recorded once.
RecordedOnce(p) == IF tokenHash[p] = 0 THEN hookSecret ELSE tokenHash[p]

\* a2a_pair_token, derived from the secret and the ticket.
RecordedToken(p) == hookSecret

\* NEXUS records the token and then creates the workspace: it fails, or it finds
\* one of that name, which keeps the token it was created with.
Provision(p, r) ==
    /\ tokenHash' = [tokenHash EXCEPT ![p] = RecordedToken(p)]
    /\ \/ wsToken' = [wsToken EXCEPT ![p][r] = hookSecret]
       \/ UNCHANGED wsToken
    /\ UNCHANGED <<hookSecret, relayTask, audited, verify, serve, told, relayFaults>>

\* verify_pair_token
verify_pair_token(p, r) == tokenHash[p] # 0 /\ tokenHash[p] = wsToken[p][r]

----------------------------------------------------------------------------
(* The relay.                                                              *)

\* Mutant: only the relay's own tasks answer.
InMemoryOnly(t) == relayTask[t]

\* get_task: an audited result completes a task that the relay does not know
\* or still counts as live.
get_task(t) ==
    LET fromAudit == [pair |-> audited[t].pair, state |-> "completed", result |-> audited[t].result]
    IN  CASE relayTask[t] # None /\ (relayTask[t].result # None \/ audited[t].result = None) -> relayTask[t]
          [] audited[t].pair # None /\ audited[t].result # None -> fromAudit
          [] OTHER -> None

Owned(t, p) == IF get_task(t) = None THEN TRUE ELSE get_task(t).pair = p

\* Mutant: a task that is not known any more belongs to everyone.
OwnedWhenKnown(t, p) == Owned(t, p)

\* handle_tasks_complete also asks the audit trail.
MayComplete(t, p) == Owned(t, p) /\ (get_task(t) = None => audited[t].pair \in {None, p})

check_or_create_task(t, p) ==
    /\ relayTask' = [relayTask EXCEPT ![t] = [pair |-> p, state |-> "pending", result |-> None]]
    /\ audited' = [audited EXCEPT ![t].pair = p]

\* complete_task mirrors the result first; it needs the task or its audited request.
complete_task(t, p, result) ==
    /\ audited[t].pair # None
    /\ audited' = [audited EXCEPT ![t].result = result, ![t].by = p]
    /\ relayTask' = [relayTask EXCEPT ![t] = [pair |-> audited[t].pair, state |-> "completed", result |-> result]]

----------------------------------------------------------------------------
(* SENTINEL: verify request.                                               *)

Live(t) == relayTask[t] # None /\ relayTask[t].state \in {"pending", "running"}

\* An identical live request is joined.  One that does not validate leaves
\* nothing behind.
submit_verify_request(p, t) ==
    IF \E u \in TaskIds : Live(u) /\ relayTask[u].pair = p
    THEN Live(t) /\ relayTask[t].pair = p /\ UNCHANGED <<relayTask, audited>>
    ELSE /\ audited[t].pair = None /\ check_or_create_task(t, p)
         /\ \A u \in TaskIds : u < t => audited[u].pair # None

verify_request(p) ==
    /\ verify[p].stage = "idle" /\ verify_pair_token(p, "sentinel")
    /\ \E t \in TaskIds :
         /\ submit_verify_request(p, t)
         /\ verify' = [verify EXCEPT ![p] = [stage |-> "polling", task |-> t]]
    /\ UNCHANGED <<hookSecret, tokenHash, wsToken, serve, told, relayFaults>>

Ended(p) == verify' = [verify EXCEPT ![p] = NotAsking]

\* get_task_status: only a completed task has an answer; an error ends the request.
get_task_status(p) ==
    LET t == verify[p].task IN
    /\ verify[p].stage = "polling"
    /\ IF ~verify_pair_token(p, "sentinel") \/ get_task(t) = None \/ ~Owned(t, p)
       THEN Ended(p) /\ UNCHANGED told
       ELSE /\ get_task(t).state = "completed"
            /\ Ended(p) /\ told' = told \cup {<<p, t>>}
    /\ UNCHANGED <<hookSecret, tokenHash, wsToken, relayTask, audited, serve, relayFaults>>

\* The deadline of a request passes.
DeadlinePasses(p) ==
    /\ verify[p].stage = "polling" /\ Ended(p)
    /\ UNCHANGED <<hookSecret, tokenHash, wsToken, relayTask, audited, serve, told, relayFaults>>

\* handle_tasks_cancel: a synthetic result for a live task; the answer is the same
\* when the relay does not know it.
handle_tasks_cancel(p, t) ==
    /\ verify_pair_token(p, "sentinel") /\ Owned(t, p)
    /\ get_task(t) # None /\ get_task(t).state \in {"pending", "running"}
    /\ audited' = [audited EXCEPT ![t].result = "cancelled", ![t].by = p]
    /\ relayTask' = [relayTask EXCEPT ![t].state = "cancelled", ![t].result = "cancelled"]
    /\ UNCHANGED <<hookSecret, tokenHash, wsToken, verify, serve, told, relayFaults>>

----------------------------------------------------------------------------
(* FORGE: verify serve.                                                    *)

Serving(p, s) == serve' = [serve EXCEPT ![p] = s]

\* The answer to a claim may be lost: the task then stays running.
claim_next_task(p) ==
    /\ serve[p].stage = "idle" /\ verify_pair_token(p, "forge")
    /\ \E t \in TaskIds :
         /\ relayTask[t] # None /\ relayTask[t].pair = p /\ relayTask[t].state = "pending"
         /\ relayTask' = [relayTask EXCEPT ![t].state = "running"]
         /\ \/ /\ Serving(p, [stage |-> "running", task |-> t, cancel |-> FALSE, poller |-> TRUE, result |-> None])
               /\ UNCHANGED relayFaults
            \/ Fault /\ UNCHANGED serve
    /\ UNCHANGED <<hookSecret, tokenHash, wsToken, audited, verify, told>>

\* The poller beside the execution: cancelled sets the token, completed and a
\* failed call end it, an answer without a status is polled again.
get_task_status_str(p) ==
    LET t == serve[p].task
        known == verify_pair_token(p, "forge") /\ get_task(t) # None /\ Owned(t, p)
    IN  /\ serve[p].stage = "running" /\ serve[p].poller
        /\ \/ /\ known /\ get_task(t).state \in {"cancelled", "completed"}
              /\ Serving(p, [serve[p] EXCEPT !.poller = FALSE, !.cancel = get_task(t).state = "cancelled"])
              /\ UNCHANGED relayFaults
           \/ Fault /\ Serving(p, [serve[p] EXCEPT !.poller = FALSE])
        /\ UNCHANGED <<hookSecret, tokenHash, wsToken, relayTask, audited, verify, told>>

\* wait_for_process sees the token, kills the process group and fails.
wait_for_process(p) ==
    /\ serve[p].stage = "running" /\ serve[p].cancel
    /\ Serving(p, [serve[p] EXCEPT !.stage = "reporting", !.result = "failed"])
    /\ UNCHANGED <<hookSecret, tokenHash, wsToken, relayTask, audited, verify, told, relayFaults>>

\* execute_verify_task: a run that ends is audited by FORGE itself, a timeout and
\* a failure to run are not.
execute_verify_task(p) ==
    /\ serve[p].stage = "running" /\ ~serve[p].cancel
    /\ \E result \in {"run", "timeout", "failed"} :
         /\ Serving(p, [serve[p] EXCEPT !.stage = "reporting", !.result = result])
         /\ audited' = IF result # "run" THEN audited
                       ELSE [audited EXCEPT ![serve[p].task].result = "run", ![serve[p].task].by = p]
    /\ UNCHANGED <<hookSecret, tokenHash, wsToken, relayTask, verify, told, relayFaults>>

\* The result is reported once, and not again when the report fails.
ReportResult(p) ==
    LET t == serve[p].task IN
    /\ serve[p].stage = "reporting" /\ Serving(p, NotServing)
    /\ \/ /\ verify_pair_token(p, "forge") /\ MayComplete(t, p) /\ complete_task(t, p, serve[p].result)
          /\ UNCHANGED relayFaults
       \/ /\ ~verify_pair_token(p, "forge") /\ UNCHANGED <<relayTask, audited, relayFaults>>
       \/ Fault /\ UNCHANGED <<relayTask, audited>>
    /\ UNCHANGED <<hookSecret, tokenHash, wsToken, verify, told>>

\* A client uses a task id of another pair: it gets an answer, or reports a result.
WrongTask(p, t) ==
    /\ audited[t].pair \notin {None, p}
    /\ \/ /\ verify_pair_token(p, "sentinel") /\ get_task(t) # None /\ Owned(t, p)
          /\ told' = told \cup {<<p, t>>} /\ UNCHANGED <<relayTask, audited>>
       \/ /\ verify_pair_token(p, "forge") /\ MayComplete(t, p) /\ complete_task(t, p, "failed")
          /\ UNCHANGED told
    /\ UNCHANGED <<hookSecret, tokenHash, wsToken, verify, serve, relayFaults>>

----------------------------------------------------------------------------
(* The relay restarts with what Redis holds; the clients go on.            *)
RestartRelay ==
    /\ Fault
    /\ \E s \in {hookSecret, hookSecret + 1} : s <= MaxSecrets /\ hookSecret' = s
    /\ relayTask' = [t \in TaskIds |-> None]
    /\ UNCHANGED <<tokenHash, wsToken, audited, verify, serve, told>>

\* cleanup_idempotency forgets a task that ended an hour ago.
Forget(t) ==
    /\ relayTask[t] # None /\ ~Live(t)
    /\ relayTask' = [relayTask EXCEPT ![t] = None]
    /\ UNCHANGED <<hookSecret, tokenHash, wsToken, audited, verify, serve, told, relayFaults>>

Next == \/ RestartRelay
        \/ \E t \in TaskIds : Forget(t)
        \/ \E p \in Pairs :
             \/ \E r \in Roles : Provision(p, r)
             \/ \E t \in TaskIds : handle_tasks_cancel(p, t) \/ WrongTask(p, t)
             \/ verify_request(p) \/ get_task_status(p) \/ DeadlinePasses(p)
             \/ claim_next_task(p) \/ get_task_status_str(p) \/ wait_for_process(p)
             \/ execute_verify_task(p) \/ ReportResult(p)

Spec == Init /\ [][Next]_vars

----------------------------------------------------------------------------
(* The relay, the trail and the clients hold tasks of known pairs.         *)
TypeOK ==
    /\ \A p \in Pairs : /\ tokenHash[p] \in 0..MaxSecrets
                        /\ \A r \in Roles : wsToken[p][r] \in 0..MaxSecrets
                        /\ verify[p].stage \in {"idle", "polling"}
                        /\ serve[p].stage \in {"idle", "running", "reporting"}
    /\ \A t \in TaskIds : /\ audited[t].pair \in Pairs \cup {None}
                          /\ audited[t].result \in Results \cup {None}
                          /\ relayTask[t] # None => relayTask[t].pair = audited[t].pair

(* A result is reported by the pair that owns its task and given out to    *)
(* that pair only, also when the relay has restarted and knows the task    *)
(* only from the audit trail (http_server.rs:292-298, 393-410).            *)
PairScoped ==
    /\ \A x \in told : audited[x[2]].pair = x[1]
    /\ \A t \in TaskIds : audited[t].by \in {None, audited[t].pair}

(* The relay accepts every workspace that was provisioned under the secret *)
(* it runs with: only a change of the secret locks workspaces out          *)
(* (lib.rs:1114-1120, routing.rs:239-256).                                 *)
ProvisionedIsAccepted ==
    \A p \in Pairs, r \in Roles : wsToken[p][r] = hookSecret => verify_pair_token(p, r)

(* A command that ran to its end is answered, though the report of FORGE   *)
(* was lost and is not repeated, and though the relay restarted.  Timeouts *)
(* and failures to run have no such guarantee: their request waits for its *)
(* deadline (openflows-harness/src/store.rs:727-729).                      *)
RunIsAnswered ==
    \A t \in TaskIds : audited[t].result = "run" =>
       /\ get_task(t) # None
       /\ get_task(t).state \in {"completed", "cancelled"}
=============================================================================
