---------------------------- MODULE StreamsProofs ----------------------------
(***************************************************************************)
(* The keepalive goroutine of a streaming request does not outlive its     *)
(* handler, and writes nothing once the handler has stopped it, whatever   *)
(* the upstream, the translators and the client do.                        *)
(***************************************************************************)
EXTENDS Streams, TLAPS

Steps == {"dispatch", "stream", "failing", "ended", "closing", "reaping", "done"}

Keepalive == [armed : BOOLEAN, stopped : BOOLEAN, closed : BOOLEAN, running : BOOLEAN]

\* Close has been called iff the handler is past it; a goroutine runs only if a
\* write armed it, no write arms one after Close, and the handler returns after it.
KeepaliveInv ==
    /\ pc \in Steps /\ ka \in Keepalive
    /\ ka.closed <=> pc \in {"reaping", "done"}
    /\ ka.closed => ka.stopped
    /\ ka.running => ka.armed
    /\ pc = "done" => ~ka.running

\* The first write of a request: no goroutine is started after Close.
LEMMA ArmIs ==
  ASSUME ka \in Keepalive
  PROVE  /\ Arm(ka) \in Keepalive
         /\ Arm(ka).stopped = ka.stopped /\ Arm(ka).closed = ka.closed
         /\ ka.armed => Arm(ka).armed
         /\ Arm(ka).running => ka.running \/ (Arm(ka).armed /\ ~ka.stopped)
<1>1. CASE req.client = "responses" \/ ka.armed \/ ka.stopped
  BY <1>1 DEF Arm
<1>2. CASE ~(req.client = "responses" \/ ka.armed \/ ka.stopped)
  <2>1. Arm(ka) = [ka EXCEPT !.armed = TRUE, !.running = TRUE]
    BY <1>2, Zenon DEF Arm
  <2>2. QED
    BY <1>2, <2>1 DEF Keepalive
<1>3. QED
  BY <1>1, <1>2

\* The initial state has no goroutine.
LEMMA InitKeepalive == Init => KeepaliveInv
<1> SUFFICES ASSUME Init PROVE KeepaliveInv
  OBVIOUS
<1>1. pc = "dispatch" /\ ka = [armed |-> FALSE, stopped |-> FALSE, closed |-> FALSE, running |-> FALSE]
  BY DEF Init
<1>2. QED
  BY <1>1 DEF KeepaliveInv, Keepalive, Steps

\* A step of the handler before Close.
LEMMA HandlerKeeps ==
  ASSUME KeepaliveInv, UNCHANGED ka, pc \in Steps \ {"reaping", "done"},
         pc' \in Steps \ {"reaping", "done"}
  PROVE  KeepaliveInv'
  BY DEF KeepaliveInv

\* Every step keeps it.
LEMMA NextKeepalive == KeepaliveInv /\ [Next]_vars => KeepaliveInv'
<1> SUFFICES ASSUME KeepaliveInv, [Next]_vars PROVE KeepaliveInv'
  OBVIOUS
<1>1. ka \in Keepalive /\ pc \in Steps
  BY DEF KeepaliveInv
<1>2. CASE Attempt \/ Abort \/ Reject \/ Unsupported \/ Failing \/ Retry \/ Conclude \/ Eof \/ Canceled
  <2>1. UNCHANGED ka /\ pc \in Steps \ {"reaping", "done"} /\ pc' \in Steps \ {"reaping", "done"}
    BY <1>1, <1>2 DEF Attempt, Abort, Reject, Unsupported, Failing, Retry, Conclude, Eof, Canceled, Steps
  <2>2. QED
    BY <2>1, HandlerKeeps
<1>3. CASE Stream
  <2>1. UNCHANGED ka /\ pc = "stream" /\ pc' \in {"stream", "failing"}
    BY <1>3 DEF Stream
  <2>2. QED
    BY <2>1, HandlerKeeps DEF Steps
<1>4. CASE Deliver
  <2>1. ka' = Arm(ka) /\ pc' = pc
    BY <1>4 DEF Deliver
  <2>2. QED
    BY <1>1, <2>1, ArmIs DEF KeepaliveInv
<1>5. CASE Disconnect
  BY <1>5 DEF Disconnect, KeepaliveInv
<1>6. CASE emitIfSilent
  <2>1. pc' = pc /\ ka.running /\ (ka' = ka \/ ka' = [ka EXCEPT !.stopped = TRUE, !.running = FALSE])
    BY <1>6 DEF emitIfSilent
  <2>2. QED
    BY <1>1, <2>1 DEF KeepaliveInv, Keepalive
<1>7. CASE LoopExit
  <2>1. pc' = pc /\ ka' = [ka EXCEPT !.running = FALSE]
    BY <1>7 DEF LoopExit
  <2>2. QED
    BY <1>1, <2>1 DEF KeepaliveInv, Keepalive
<1>8. CASE Close
  <2>1. pc = "closing" /\ pc' = "reaping" /\ ka' = [ka EXCEPT !.closed = TRUE, !.stopped = TRUE]
    BY <1>8 DEF Close
  <2>2. QED
    BY <1>1, <2>1 DEF KeepaliveInv, Keepalive, Steps
<1>9. CASE Reap
  <2>1. pc = "reaping" /\ ~ka.running /\ pc' = "done" /\ ka' = ka
    BY <1>9 DEF Reap
  <2>2. QED
    BY <1>1, <2>1 DEF KeepaliveInv, Steps
<1>10. CASE UNCHANGED vars
  BY <1>10 DEF vars, KeepaliveInv
<1>11. QED
  BY <1>2, <1>3, <1>4, <1>5, <1>6, <1>7, <1>8, <1>9, <1>10 DEF Next

\* The keepalive goroutine is gone when the handler returns: it never writes to
\* a ResponseWriter that the server has taken back (keepalive.go Close).
THEOREM KeepaliveIsReaped == Spec => []KeepaliveReaped
<1>1. KeepaliveInv => KeepaliveReaped
  BY DEF KeepaliveInv, KeepaliveReaped
<1>2. QED
  BY <1>1, InitKeepalive, NextKeepalive, PTL DEF Spec

\* After Close there is nothing left to write.
Silent == pc \in {"reaping", "done"} => q = <<>> /\ ka.stopped

\* Close leaves nothing behind, and no later step queues anything.
LEMMA NextSilent == KeepaliveInv /\ Silent /\ [Next]_vars => Silent'
<1> SUFFICES ASSUME KeepaliveInv, Silent, [Next]_vars, pc' \in {"reaping", "done"}
             PROVE  q' = <<>> /\ ka'.stopped
  BY DEF Silent
<1>1. ka'.stopped
  BY NextKeepalive DEF KeepaliveInv
<1>2. CASE Attempt \/ Abort \/ Reject \/ Unsupported \/ Failing \/ Retry \/ Conclude \/ Eof \/ Canceled
  BY <1>2 DEF Attempt, Abort, Reject, Unsupported, Failing, Retry, Conclude, Eof, Canceled
<1>3. CASE Stream
  <2>1. pc' \in {"stream", "failing"}
    BY <1>3 DEF Stream
  <2>2. QED
    BY <2>1
<1>4. CASE Deliver
  <2>1. q # <<>> /\ pc' = pc
    BY <1>4 DEF Deliver
  <2>2. QED
    BY <2>1 DEF Silent
<1>5. CASE Disconnect \/ emitIfSilent \/ LoopExit \/ UNCHANGED vars
  <2>1. q' = q /\ pc' = pc
    BY <1>5 DEF Disconnect, emitIfSilent, LoopExit, vars
  <2>2. QED
    BY <1>1, <2>1 DEF Silent
<1>6. CASE Close
  BY <1>1, <1>6 DEF Close
<1>7. CASE Reap
  BY <1>1, <1>7 DEF Reap, Silent
<1>8. QED
  BY <1>2, <1>3, <1>4, <1>5, <1>6, <1>7 DEF Next

\* Once KeepaliveWriter.Close has begun, no byte reaches the client, neither of the
\* answer nor a ping of a goroutine that has not noticed yet (keepalive.go Close).
THEOREM SilentAfterClose == Spec => [][(pc \in {"reaping", "done"}) => client' = client]_vars
<1>1. Init => Silent
  BY DEF Init, Silent
<1>2. KeepaliveInv /\ Silent /\ [Next]_vars =>
         [(pc \in {"reaping", "done"}) => client' = client]_vars
  <2> SUFFICES ASSUME Silent, Next, pc \in {"reaping", "done"} PROVE client' = client
    OBVIOUS
  <2>1. q = <<>> /\ ka.stopped
    BY DEF Silent
  <2>2. ~Stream /\ ~Conclude /\ ~Deliver /\ ~emitIfSilent
    BY <2>1 DEF Stream, Conclude, Deliver, emitIfSilent
  <2>3. QED
    BY <2>2 DEF Next, Attempt, Eof, Abort, Reject, Unsupported, Failing, Retry, Disconnect, Canceled,
                LoopExit, Close, Reap
<1>3. QED
  BY <1>1, <1>2, InitKeepalive, NextKeepalive, NextSilent, PTL DEF Spec

=============================================================================
