------------------------------- MODULE Outbox -------------------------------
(***************************************************************************)
(* The manager's durable outbox (outbox.rs) and the worker loop that       *)
(* drains it (connections/worker.rs).  An event is inserted in the         *)
(* transaction of the change that caused it.  Workers claim the oldest     *)
(* eligible event under a 30 second lease with a fresh token, process it,  *)
(* and settle it under that lease.  An event may own an operation row,     *)
(* which is settled in the same transaction.                               *)
(*                                                                         *)
(* Two replicas can share a lease_owner: it is built from the process id,  *)
(* which is the same in every container.  The token is what tells their    *)
(* claims apart, so the owner is left out and the token is modelled.       *)
(***************************************************************************)
EXTENDS Integers, FiniteSets, FiniteSetsExt

CONSTANTS Events,      \* 1..n, in created_at order
          Owning,      \* the events that carry an operation_id
          Workers,     \* manager replicas running the worker loop
          MaxMishaps   \* bound: temporary mishaps, crashes and stalls met by one event

VARIABLES event,  \* the outbox_events row of each event
          owned,     \* state of the operation row the event owns
          claim,  \* what each worker holds in memory
          last,   \* history: the token of the last claim of each event
          did     \* history: tokens under which the handler ran to its end

vars == <<event, owned, claim, last, did>>

Tokens == 0..Cardinality(Workers)
NoClaim == [ev |-> 0, token |-> 0, result |-> "none"]

OutboxRow == [state : {"absent", "pending", "delivered", "failed"},
              token : Tokens \cup {-1}, live : BOOLEAN, due : BOOLEAN,
              mishaps : 0..MaxMishaps]

OutboxClaim == [ev : Events \cup {0}, token : Tokens,
                result : {"none", "running", "ok", "temporary", "permanent"}]

Init == /\ event = [e \in Events |-> [state |-> "absent", token |-> -1, live |-> FALSE,
                                      due |-> TRUE, mishaps |-> 0]]
        /\ owned = [e \in Events |-> IF e \in Owning THEN "absent" ELSE "none"]
        /\ claim = [w \in Workers |-> NoClaim]
        /\ last = [e \in Events |-> 0]
        /\ did = [e \in Events |-> {}]

\* Mutant: the operation is created in a state of its own.
InsertTwice(e) ==
    /\ event[e].state = "absent"
    /\ event' = [event EXCEPT ![e].state = "pending"]
    /\ owned' = [owned EXCEPT ![e] = "pending"]
    /\ UNCHANGED <<claim, last, did>>

(* The insert commits with the operation row and the change that caused it. *)
insert_in_tx(e) ==
    /\ event[e].state = "absent"
    /\ \A d \in Events : d < e => event[d].state # "absent"
    /\ event' = [event EXCEPT ![e].state = "pending"]
    /\ owned' = [owned EXCEPT ![e] = IF e \in Owning THEN "queued" ELSE "none"]
    /\ UNCHANGED <<claim, last, did>>

\* Mutant: an event is only ever tried once more, and never dead-lettered.
EligibleOnce(e) == event[e].state = "pending" /\ event[e].due /\ ~event[e].live /\ event[e].mishaps = 0

Eligible(e) == event[e].state = "pending" /\ event[e].due /\ ~event[e].live

FreshTokens == Tokens \ {claim[w].token : w \in {v \in Workers : claim[v].ev # 0}}

claim_filtered(w) ==
    /\ claim[w].ev = 0
    /\ \E e \in Events :
          /\ Eligible(e)
          /\ \A d \in Events : Eligible(d) => e <= d
          /\ LET token == Min(FreshTokens) IN
             /\ event' = [event EXCEPT ![e].token = token, ![e].live = TRUE]
             /\ claim' = [claim EXCEPT ![w] = [ev |-> e, token |-> token,
                                               result |-> "running"]]
             /\ last' = [last EXCEPT ![e] = token]
             /\ did' = [did EXCEPT ![e] = @ \ {token}]
    /\ UNCHANGED owned

\* Mutant: the settling statements compare the lease owner and not the token.
LeasedByOwner(w) == LET row == event[claim[w].ev] IN
    row.live /\ row.state = "pending"

\* What every settling statement requires of the row: our token, still live.
Leased(w) == LET row == event[claim[w].ev] IN
    row.token = claim[w].token /\ row.live /\ row.state = "pending"

Running(w) == claim[w].result = "running"

\* Every 10 seconds of processing: the lease is extended, or the worker gives up.
heartbeat(w) ==
    /\ Running(w)
    /\ ~Leased(w)
    /\ claim' = [claim EXCEPT ![w] = NoClaim]
    /\ UNCHANGED <<event, owned, last, did>>

\* The handler of the event ends; its error code decides the kind of failure.
process(w, result) ==
    /\ Running(w)
    /\ result = "temporary" => event[claim[w].ev].mishaps < MaxMishaps
    /\ claim' = [claim EXCEPT ![w].result = result]
    /\ did' = IF result = "ok"
                THEN [did EXCEPT ![claim[w].ev] = @ \cup {claim[w].token}] ELSE did
    /\ event' = IF result = "temporary"
                  THEN [event EXCEPT ![claim[w].ev].mishaps = @ + 1] ELSE event
    /\ UNCHANGED <<owned, last>>

\* Mutant: the event is delivered without settling the operation it owns.
DeliverWithoutOperation(w) ==
    /\ claim[w].result = "ok"
    /\ event' = IF Leased(w) THEN [event EXCEPT ![claim[w].ev].state = "delivered",
                                                ![claim[w].ev].live = FALSE] ELSE event
    /\ claim' = [claim EXCEPT ![w] = NoClaim]
    /\ UNCHANGED <<owned, last, did>>

\* Mutant: the delivery statement is keyed by the event id alone.
DeliverUnfenced(w) ==
    /\ claim[w].result = "ok"
    /\ event' = [event EXCEPT ![claim[w].ev].state = "delivered"]
    /\ owned' = [owned EXCEPT ![claim[w].ev] = IF @ = "queued" THEN "succeeded" ELSE @]
    /\ claim' = [claim EXCEPT ![w] = NoClaim]
    /\ UNCHANGED <<last, did>>

\* Delivery and the owned operation, in one transaction.
complete_operation_delivery(w) ==
    /\ claim[w].result = "ok"
    /\ IF Leased(w)
         THEN /\ event' = [event EXCEPT ![claim[w].ev].state = "delivered",
                                        ![claim[w].ev].token = -1, ![claim[w].ev].live = FALSE]
              /\ owned' = [owned EXCEPT ![claim[w].ev] = IF @ = "queued" THEN "succeeded" ELSE @]
         ELSE UNCHANGED <<event, owned>>
    /\ claim' = [claim EXCEPT ![w] = NoClaim]
    /\ UNCHANGED <<last, did>>

\* A permanent failure is terminal; a temporary one only sets retry_at.
fail_delivery(w) ==
    LET e == claim[w].ev IN
    /\ claim[w].result \in {"temporary", "permanent"}
    /\ IF ~Leased(w) THEN UNCHANGED <<event, owned>>
       ELSE IF claim[w].result = "permanent"
         THEN /\ event' = [event EXCEPT ![e].state = "failed", ![e].token = -1,
                                        ![e].live = FALSE]
              /\ owned' = [owned EXCEPT ![e] = IF @ = "queued" THEN "failed" ELSE @]
         ELSE /\ event' = [event EXCEPT ![e].token = -1, ![e].live = FALSE,
                                        ![e].due = FALSE]
              /\ UNCHANGED owned
    /\ claim' = [claim EXCEPT ![w] = NoClaim]
    /\ UNCHANGED <<last, did>>

RetryDue(e) == /\ event[e].state = "pending" /\ ~event[e].due
               /\ event' = [event EXCEPT ![e].due = TRUE]
               /\ UNCHANGED <<owned, claim, last, did>>

\* A held lease only runs out when its holder stalls past the heartbeats.
Held(e) == \E w \in Workers : claim[w].ev = e /\ Leased(w)

LeaseExpires(e) == /\ event[e].state = "pending" /\ event[e].live /\ ~Held(e)
                   /\ event' = [event EXCEPT ![e].live = FALSE]
                   /\ UNCHANGED <<owned, claim, last, did>>

Stall(e) == /\ Held(e) /\ event[e].mishaps < MaxMishaps
            /\ event' = [event EXCEPT ![e].live = FALSE, ![e].mishaps = @ + 1]
            /\ UNCHANGED <<owned, claim, last, did>>

Crash(w) == /\ claim[w].ev # 0 /\ event[claim[w].ev].mishaps < MaxMishaps
            /\ event' = [event EXCEPT ![claim[w].ev].mishaps = @ + 1]
            /\ claim' = [claim EXCEPT ![w] = NoClaim]
            /\ UNCHANGED <<owned, last, did>>

Settle(w) == complete_operation_delivery(w) \/ fail_delivery(w)

Next == \/ \E e \in Events : insert_in_tx(e) \/ RetryDue(e) \/ LeaseExpires(e) \/ Stall(e)
        \/ \E w \in Workers : \/ claim_filtered(w) \/ heartbeat(w) \/ Crash(w)
                              \/ \E r \in {"ok", "temporary", "permanent"} : process(w, r)
                              \/ Settle(w)

\* The worker loop polls for ever, handlers end, timers fire.  A replica may
\* stall or die, but not for ever.
Fairness == /\ \A e \in Events : WF_vars(RetryDue(e)) /\ WF_vars(LeaseExpires(e))
            /\ \A w \in Workers : /\ WF_vars(claim_filtered(w))
                                  /\ WF_vars(process(w, "ok") \/ process(w, "permanent"))
                                  /\ WF_vars(Settle(w))

Spec == Init /\ [][Next]_vars /\ Fairness

TypeOK == /\ event \in [Events -> OutboxRow]
          /\ owned \in [Events -> {"none", "absent", "queued", "succeeded", "failed"}]
          /\ claim \in [Workers -> OutboxClaim]
          /\ did \in [Events -> SUBSET Tokens]

(* complete_operation_delivery and fail_delivery settle an event and its    *)
(* operation together: whatever leases expire and whichever replica dies,   *)
(* an operation is succeeded exactly when its event is delivered, and       *)
(* failed exactly when its event failed permanently.                        *)
EventAndOperationAgree ==
    \A e \in Owning : /\ (owned[e] = "succeeded") = (event[e].state = "delivered")
                      /\ (owned[e] = "failed") = (event[e].state = "failed")

(* claim_filtered never hands out a leased event, so while a lease lives    *)
(* its token is held by at most one worker, and an event is only delivered  *)
(* under the claim whose handler ran to its end: a worker that lost its     *)
(* lease cannot settle what the next holder is still processing.            *)
DeliveredByItsProcessor ==
    \A e \in Events : event[e].state = "delivered" => last[e] \in did[e]

(* An event that was settled stays settled: no late worker, retry or        *)
(* expired lease reopens, re-delivers or fails it (delivered_at IS NULL in  *)
(* every settling statement of outbox.rs).                                  *)
SettledForGood ==
    \A e \in Events : event[e].state \in {"delivered", "failed"} =>
       event'[e].state = event[e].state /\ owned'[e] = owned[e]

(* Every event that was enqueued is in the end delivered or failed, however *)
(* leases, retries and crashes interleave: the retry time and the lease     *)
(* expiry always make it eligible again (claim_filtered, fail_delivery).    *)
Settled(e) == event[e].state \in {"absent", "delivered", "failed"}
EverySettled == \A e \in Events : []<>Settled(e)
=============================================================================
