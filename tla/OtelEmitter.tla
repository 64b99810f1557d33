---------------------------- MODULE OtelEmitter ----------------------------
(* The OTLP emitter: requests flush their spans and log records into two    *)
(* bounded queues, workers batch and post them, Shutdown closes the queues  *)
(* and waits for the workers or for its deadline.                           *)
EXTENDS Naturals, Sequences, SequencesExt

CONSTANTS Requests,   \* requests that flush a buffer
          Recorded,   \* request -> [span |-> count, log |-> count]
          Workers,    \* per queue
          QueueSize, BatchSize

Kinds == {"span", "log"}

ASSUME EmitterConstants ==
    /\ Recorded \in [Requests -> [Kinds -> Nat]]
    /\ {QueueSize, BatchSize} \subseteq Nat \ {0}
    /\ Workers # {}

\* What a request recorded of one kind, in order.
ItemsOf(r, k) == [n \in 1..Recorded[r][k] |-> [req |-> r, kind |-> k, n |-> n]]

Items == UNION { Range(ItemsOf(r, k)) : r \in Requests, k \in Kinds }
WorkerIds == Workers \X Kinds

VARIABLES
    flushed,   \* requests that flushed their buffer
    pending,   \* request -> items its Flush has still to enqueue
    readers,   \* requests inside Enqueue, holding closeMu for reading
    queue,     \* kind -> the channel's items
    closed,    \* both channels are closed
    dropped,   \* items refused: queue full or closed
    batch,     \* worker -> the items it holds
    wpc,       \* worker -> "receive", "post", "lastPost" or "returned"
    posted,    \* item -> times it was posted
    shutdown,  \* "no", "waiting", "drained" or "expired"
    panicked   \* a send met a closed channel

emitterVars == <<flushed, pending, readers, queue, closed, dropped, batch, wpc, posted,
                 shutdown, panicked>>

NewEmitter ==
    /\ pending = [r \in Requests |-> <<>>]
    /\ flushed = {} /\ readers = {} /\ dropped = {} /\ closed = FALSE /\ panicked = FALSE
    /\ queue = [k \in Kinds |-> <<>>]
    /\ batch = [w \in WorkerIds |-> <<>>] /\ wpc = [w \in WorkerIds |-> "receive"]
    /\ posted = [i \in Items |-> 0]
    /\ shutdown = "no"

Running == shutdown \notin {"drained", "expired"} /\ ~panicked

-----------------------------------------------------------------------------
(* Requests.                                                                *)

\* Flush takes the buffer's spans, then its logs.
Flush(r) ==
    /\ Running
    /\ r \notin flushed
    /\ flushed' = flushed \union {r}
    /\ pending' = [pending EXCEPT ![r] = ItemsOf(r, "span") \o ItemsOf(r, "log")]
    /\ UNCHANGED <<readers, queue, closed, dropped, batch, wpc, posted, shutdown, panicked>>

\* Enqueue takes the read lock and reads closed ...
EnqueueCheck(r) ==
    /\ Running
    /\ pending[r] # <<>> /\ r \notin readers
    /\ IF closed
       THEN /\ dropped' = dropped \union {Head(pending[r])}
            /\ pending' = [pending EXCEPT ![r] = Tail(@)]
            /\ UNCHANGED readers
       ELSE readers' = readers \union {r} /\ UNCHANGED <<dropped, pending>>
    /\ UNCHANGED <<flushed, queue, closed, batch, wpc, posted, shutdown, panicked>>

\* ... and sends without blocking, still under the lock.  A send on a closed
\* channel panics.
EnqueueSend(r) ==
    /\ Running
    /\ r \in readers
    /\ LET i == Head(pending[r])
           room == Len(queue[i.kind]) < QueueSize
       IN /\ panicked' = closed
          /\ queue' = IF ~closed /\ room THEN [queue EXCEPT ![i.kind] = Append(@, i)] ELSE queue
          /\ dropped' = IF ~closed /\ ~room THEN dropped \union {i} ELSE dropped
    /\ readers' = readers \ {r}
    /\ pending' = [pending EXCEPT ![r] = Tail(@)]
    /\ UNCHANGED <<flushed, closed, batch, wpc, posted, shutdown>>

-----------------------------------------------------------------------------
(* Workers.                                                                 *)

\* One receive: an item, or the end of a closed and empty channel.
Receive(w) ==
    /\ Running /\ wpc[w] = "receive"
    /\ LET k == w[2]
       IN \/ /\ queue[k] # <<>>
             /\ queue' = [queue EXCEPT ![k] = Tail(@)]
             /\ batch' = [batch EXCEPT ![w] = Append(@, Head(queue[k]))]
             /\ wpc' = [wpc EXCEPT ![w] = IF Len(batch[w]) + 1 >= BatchSize THEN "post" ELSE @]
          \/ /\ queue[k] = <<>> /\ closed
             /\ wpc' = [wpc EXCEPT ![w] = IF batch[w] = <<>> THEN "returned" ELSE "lastPost"]
             /\ UNCHANGED <<queue, batch>>
    /\ UNCHANGED <<flushed, pending, readers, closed, dropped, posted, shutdown, panicked>>

\* The flush timer fires.
FlushTimer(w) ==
    /\ Running /\ wpc[w] = "receive" /\ batch[w] # <<>>
    /\ wpc' = [wpc EXCEPT ![w] = "post"]
    /\ UNCHANGED <<flushed, pending, readers, queue, closed, dropped, batch, posted, shutdown, panicked>>

\* exportBatch / exportLogBatch: one post, never retried, whatever it returns.
ExportBatch(w) ==
    /\ Running /\ wpc[w] \in {"post", "lastPost"}
    /\ posted' = [i \in Items |-> IF Contains(batch[w], i) THEN posted[i] + 1 ELSE posted[i]]
    /\ batch' = [batch EXCEPT ![w] = <<>>]
    /\ wpc' = [wpc EXCEPT ![w] = IF @ = "post" THEN "receive" ELSE "returned"]
    /\ UNCHANGED <<flushed, pending, readers, queue, closed, dropped, shutdown, panicked>>

-----------------------------------------------------------------------------
(* Shutdown.                                                                *)

\* Without the write lock it does not wait for a request inside Enqueue.
ShutdownMutant ==
    /\ Running /\ ~closed
    /\ closed' = TRUE /\ shutdown' = "waiting"
    /\ UNCHANGED <<flushed, pending, readers, queue, dropped, batch, wpc, posted, panicked>>

\* The write lock waits for the readers; both channels are closed under it.
Shutdown ==
    /\ Running /\ ~closed
    /\ readers = {}
    /\ closed' = TRUE /\ shutdown' = "waiting"
    /\ UNCHANGED <<flushed, pending, readers, queue, dropped, batch, wpc, posted, panicked>>

\* Every worker returned, or the context expired first; then the process exits.
ShutdownReturns ==
    /\ Running /\ shutdown = "waiting"
    /\ \/ /\ \A w \in WorkerIds : wpc[w] = "returned"
          /\ shutdown' = "drained"
       \/ shutdown' = "expired"
    /\ UNCHANGED <<flushed, pending, readers, queue, closed, dropped, batch, wpc, posted, panicked>>

EmitterNext ==
    \/ \E r \in Requests : Flush(r) \/ EnqueueCheck(r) \/ EnqueueSend(r)
    \/ \E w \in WorkerIds : Receive(w) \/ FlushTimer(w) \/ ExportBatch(w)
    \/ Shutdown
    \/ ShutdownReturns
=============================================================================
