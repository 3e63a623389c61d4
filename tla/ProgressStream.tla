--------------------------- MODULE ProgressStream ---------------------------
(***************************************************************************)
(* Progress of a verify task through the A2A relay                         *)
(* (agent-nexus/src/a2a/routing.rs, http_server.rs and                     *)
(* openflows-harness/src/a2a_client.rs): FORGE pushes output chunks, the   *)
(* relay numbers and buffers them under a count and a byte limit and sends *)
(* them to the broadcast channel of the task, and stream requests replay   *)
(* the buffer before they follow the channel.  A chunk is its sequence     *)
(* number and its size.  A receiver that reads too slowly loses the oldest *)
(* chunks; a restart of the relay loses buffer, numbering and channel.     *)
(***************************************************************************)
EXTENDS Integers, Sequences, FiniteSets
LOCAL INSTANCE SequencesExt

CONSTANTS Streams,                \* clients of the event stream
          MAX_EVENTS, MAX_BYTES,  \* limits of the buffer
          CHANNEL,                \* capacity of the broadcast channel
          Sizes,                  \* sizes of a chunk
          MaxPushes, MaxRestarts  \* bounds

VARIABLES buffer,    \* EventBuffer of the task
          channel,   \* number of its broadcast channel, 0 when there is none
          channels,  \* channels opened so far
          stream,    \* each client's request
          pushes, restarts

vars == <<buffer, channel, channels, stream, pushes, restarts>>

NewBuffer == [events |-> <<>>, next_seq |-> 0]
NoStream == [stage |-> "off", got |-> <<>>, queue |-> <<>>, on |-> 0, from |-> 0,
             until |-> 0, lost |-> {}, last |-> 0, stale |-> FALSE]

Init == /\ buffer = NewBuffer
        /\ channel = 1 /\ channels = 1
        /\ stream = [s \in Streams |-> NoStream]
        /\ pushes = 0 /\ restarts = 0

Seqs(events) == [i \in DOMAIN events |-> events[i].seq]
Bytes(events) == FoldLeft(LAMBDA sum, e : sum + e.size, 0, events)
Fits(events) == Len(events) <= MAX_EVENTS /\ Bytes(events) <= MAX_BYTES
Last0(seqs) == IF seqs = <<>> THEN 0 ELSE Last(seqs)

----------------------------------------------------------------------------
(* The buffer.                                                             *)

NextSeq == buffer.next_seq

\* Mutant: the newest chunks make room.
EvictNewest(events) ==
    LET n == CHOOSE n \in 0..Len(events) : Fits(SubSeq(events, 1, n))
                 /\ \A m \in 0..Len(events) : Fits(SubSeq(events, 1, m)) => m <= n
    IN  SubSeq(events, 1, n)

\* First in, first out, until both limits hold: a chunk that is too large for
\* the buffer empties it.
Evict(events) ==
    LET n == CHOOSE n \in 0..Len(events) : Fits(SubSeq(events, n + 1, Len(events)))
                 /\ \A m \in 0..Len(events) : Fits(SubSeq(events, m + 1, Len(events))) => n <= m
    IN  SubSeq(events, n + 1, Len(events))

push(size) == [events   |-> Evict(Append(buffer.events, [seq |-> NextSeq, size |-> size])),
               next_seq |-> buffer.next_seq + 1]

\* Mutant: the chunks after the last one.
AfterLast(last) == SelectSeq(buffer.events, LAMBDA e : e.seq > last)

\* The last chunk itself is included: 0 stands for "none yet" as well.
events_since(last) == SelectSeq(buffer.events, LAMBDA e : e.seq >= last)

----------------------------------------------------------------------------
(* FORGE: tasks/push_progress.                                             *)

\* A full receiver loses its oldest chunk.
Received(st, seq) ==
    LET queue == Append(st.queue, seq)
    IN  IF Len(queue) <= CHANNEL THEN [st EXCEPT !.queue = queue]
        ELSE [st EXCEPT !.queue = Tail(queue), !.lost = @ \cup {Head(queue)}]

\* What a push means for a stream: it receives the chunk, or it had replayed and
\* not yet subscribed, or its channel was replaced under it.
Broadcast(st, seq) ==
    CASE st.stage = "live" /\ st.on = channel -> Received(st, seq)
      [] st.stage \in {"replayed", "creating"} \/ (st.stage = "live" /\ st.on # channel) ->
            [st EXCEPT !.lost = @ \cup {seq}]
      [] OTHER -> st

\* The buffer stays locked while the chunk is sent.
push_progress_event ==
    /\ pushes < MaxPushes /\ pushes' = pushes + 1
    /\ \E size \in Sizes : buffer' = push(size)
    /\ stream' = [s \in Streams |-> Broadcast(stream[s], NextSeq)]
    /\ UNCHANGED <<channel, channels, restarts>>

----------------------------------------------------------------------------
(* SENTINEL: the event stream.                                             *)

\* handle_stream replays the buffer first.
Replay(s) ==
    /\ stream[s].stage \in {"off", "caught"}
    /\ LET seqs == Seqs(events_since(0))
       IN  stream' = [stream EXCEPT ![s] = [NoStream EXCEPT !.stage = "replayed", !.got = seqs,
                         !.from = IF seqs = <<>> THEN buffer.next_seq ELSE Head(seqs),
                         !.last = IF seqs = <<>> THEN @ ELSE Last(seqs)]]
    /\ UNCHANGED <<buffer, channel, channels, pushes, restarts>>

\* Mutant: what was buffered meanwhile is replayed, from the last chunk on.
ReplayAgain(s) ==
    /\ stream[s].stage = "replayed" /\ channel # 0
    /\ stream' = [stream EXCEPT ![s].stage = "live", ![s].on = channel,
                                ![s].got = @ \o Seqs(events_since(stream[s].last))]
    /\ UNCHANGED <<buffer, channel, channels, pushes, restarts>>

\* subscribe_to_task finds the channel, or goes on to open one.
subscribe_to_task(s) ==
    /\ stream[s].stage = "replayed"
    /\ stream' = IF channel # 0 THEN [stream EXCEPT ![s].stage = "live", ![s].on = channel]
                 ELSE [stream EXCEPT ![s].stage = "creating"]
    /\ UNCHANGED <<buffer, channel, channels, pushes, restarts>>

\* The channel it opens replaces one channels meanwhile.
OpenChannel(s) ==
    /\ stream[s].stage = "creating"
    /\ channels' = channels + 1 /\ channel' = channels + 1
    /\ stream' = [stream EXCEPT ![s].stage = "live", ![s].on = channels + 1]
    /\ UNCHANGED <<buffer, pushes, restarts>>

\* subscribe_sse reads the next chunk.
ReadEvent(s) ==
    /\ stream[s].stage = "live" /\ stream[s].queue # <<>>
    /\ stream' = [stream EXCEPT ![s].got = Append(@, Head(stream[s].queue)),
                                ![s].queue = Tail(@), ![s].last = Head(stream[s].queue)]
    /\ UNCHANGED <<buffer, channel, channels, pushes, restarts>>

Disconnect(s) ==
    /\ stream[s].stage \in {"replayed", "creating", "live"}
    /\ stream' = [stream EXCEPT ![s].stage = "off", ![s].queue = <<>>]
    /\ UNCHANGED <<buffer, channel, channels, pushes, restarts>>

\* handle_tasks_resubscribe, with the last event id the client has seen.
Resubscribe(s) ==
    /\ stream[s].stage = "off"
    /\ stream' = [stream EXCEPT ![s].stage = "caught",
                     ![s].got = @ \o SelectSeq(Seqs(events_since(stream[s].last)),
                                               LAMBDA n : n \notin Range(stream[s].got)),
                     ![s].until = buffer.next_seq]
    /\ UNCHANGED <<buffer, channel, channels, pushes, restarts>>

\* The relay restarts; the client keeps the last id of the old numbering.
Restart ==
    /\ restarts < MaxRestarts /\ restarts' = restarts + 1
    /\ buffer' = NewBuffer /\ channel' = 0
    /\ stream' = [s \in Streams |-> [NoStream EXCEPT !.last = stream[s].last,
                                                    !.stale = stream[s].last # 0]]
    /\ UNCHANGED <<channels, pushes>>

Next == \/ push_progress_event \/ Restart
        \/ \E s \in Streams : Replay(s) \/ subscribe_to_task(s) \/ OpenChannel(s)
                              \/ ReadEvent(s) \/ Disconnect(s) \/ Resubscribe(s)

Spec == Init /\ [][Next]_vars

----------------------------------------------------------------------------
(* The buffer and the requests hold numbered chunks.                       *)
TypeOK == /\ buffer.next_seq \in 0..MaxPushes /\ Fits(buffer.events)
          /\ channel \in 0..channels /\ channels \in Nat
          /\ \A s \in Streams :
               /\ stream[s].stage \in {"off", "replayed", "creating", "live", "caught"}
               /\ Range(stream[s].got) \cup Range(stream[s].queue) \cup stream[s].lost \subseteq 0..MaxPushes

(* A stream delivers the chunks in the order FORGE pushed them and none of *)
(* them twice, across replay and channel (http_server.rs:566-575).         *)
InOrderOnce ==
    \A s \in Streams : LET seen == stream[s].got \o stream[s].queue
                       IN  \A i, j \in DOMAIN seen : i < j => seen[i] < seen[j]

(* From the first chunk a stream replays it misses none, whatever was      *)
(* evicted since, but those pushed between its replay and its subscription,*)
(* those it read too slowly for, and those pushed after another stream     *)
(* replaced its channel.                                                   *)
NothingElseMissed ==
    \A s \in Streams : stream[s].stage \in {"replayed", "creating", "live"} =>
       stream[s].from..(buffer.next_seq - 1) \subseteq
          Range(stream[s].got) \cup Range(stream[s].queue) \cup stream[s].lost

(* A client that resubscribes with the last id it saw has every chunk that *)
(* is still buffered, also when it had seen none; ids from before a restart*)
(* of the relay are the exception (routing.rs:106-114).                    *)
CaughtUp ==
    \A s \in Streams : stream[s].stage = "caught" /\ ~stream[s].stale =>
       {n \in Range(Seqs(buffer.events)) : n < stream[s].until} \subseteq
          Range(stream[s].got) \cup stream[s].lost
=============================================================================
