------------------------- MODULE ObservabilityProofs -------------------------
(***************************************************************************)
(* The OTLP emitter loses, duplicates and forgets nothing, for every set   *)
(* of requests, every number of workers and every queue and batch size;    *)
(* the analytics export delivers every row once, and a feedback command    *)
(* rates the turn it names, for every set of turns and every order in      *)
(* which their rows are inserted.                                          *)
(***************************************************************************)
EXTENDS Observability, LoopProofs, FiniteSetTheorems, SequenceTheorems

-----------------------------------------------------------------------------
(* Lists.                                                                   *)

NoRepeat(s) == \A j, k \in 1 .. Len(s) : s[j] = s[k] => j = k

\* Taking the first element.
LEMMA TakeHead ==
  ASSUME NEW E, NEW s \in Seq(E), s # <<>>
  PROVE  /\ Head(s) \in E /\ Tail(s) \in Seq(E)
         /\ \A x : Contains(s, x) <=> x = Head(s) \/ Contains(Tail(s), x)
         /\ NoRepeat(s) => NoRepeat(Tail(s)) /\ ~Contains(Tail(s), Head(s))
  <1>1. PICK t : t = Tail(s)
    OBVIOUS
  <1>2. PICK n : n = Len(s)
    OBVIOUS
  <1>3. n \in Nat /\ n > 0 /\ t \in Seq(E) /\ Len(t) = n - 1 /\ Head(s) = s[1] /\ s[1] \in E
        /\ \A k \in 1 .. n - 1 : t[k] = s[k + 1]
    BY <1>1, <1>2
  <1>4. ASSUME NEW x PROVE Contains(s, x) <=> x = s[1] \/ Contains(t, x)
    <2>1. ASSUME NEW k \in 1 .. n, s[k] = x, k # 1 PROVE Contains(t, x)
      <3>1. k - 1 \in 1 .. n - 1 /\ t[k - 1] = s[k]
        BY <1>3, <2>1
      <3> QED BY <1>3, <2>1, <3>1 DEF Contains
    <2>2. ASSUME NEW k \in 1 .. n - 1, t[k] = x PROVE Contains(s, x)
      <3>1. k + 1 \in 1 .. n /\ s[k + 1] = x
        BY <1>3, <2>2
      <3> QED BY <1>2, <3>1 DEF Contains
    <2>3. 1 \in 1 .. n
      BY <1>3
    <2>4. Contains(s, x) <=> \E k \in 1 .. n : s[k] = x
      BY <1>2 DEF Contains
    <2>5. Contains(t, x) <=> \E k \in 1 .. n - 1 : t[k] = x
      BY <1>3 DEF Contains
    <2> QED BY <2>1, <2>2, <2>3, <2>4, <2>5
  <1>5. ASSUME NoRepeat(s) PROVE NoRepeat(t) /\ ~Contains(t, s[1])
    <2>1. \A j, k \in 1 .. n : s[j] = s[k] => j = k
      BY <1>2, <1>5 DEF NoRepeat
    <2>2. \A k \in 1 .. n - 1 : k + 1 \in 1 .. n /\ k + 1 # 1 /\ 1 \in 1 .. n
      BY <1>3
    <2>3. \A k \in 1 .. n - 1 : t[k] # s[1]
      BY <1>3, <2>1, <2>2
    <2>4. \A j, k \in 1 .. n - 1 : t[j] = t[k] => j + 1 = k + 1
      BY <1>3, <2>1, <2>2
    <2>5. \A j, k \in 1 .. n - 1 : j + 1 = k + 1 => j = k
      BY <1>3
    <2> QED BY <1>3, <2>3, <2>4, <2>5 DEF NoRepeat, Contains
  <1> QED BY <1>1, <1>3, <1>4, <1>5

\* Adding a last element.
LEMMA AddLast ==
  ASSUME NEW E, NEW s \in Seq(E), NEW e \in E
  PROVE  /\ Append(s, e) \in Seq(E)
         /\ \A x : Contains(Append(s, e), x) <=> x = e \/ Contains(s, x)
         /\ NoRepeat(s) /\ ~Contains(s, e) => NoRepeat(Append(s, e))
  <1>1. PICK t : t = Append(s, e)
    OBVIOUS
  <1>2. PICK n : n = Len(s)
    OBVIOUS
  <1>3. n \in Nat /\ t \in Seq(E) /\ Len(t) = n + 1 /\ t[n + 1] = e /\ n + 1 \in 1 .. n + 1
        /\ \A k \in 1 .. n : t[k] = s[k] /\ k \in 1 .. n + 1
    BY <1>1, <1>2
  <1>4. \A k \in 1 .. n + 1 : k = n + 1 \/ k \in 1 .. n
    BY <1>3
  <1>5. \A x : Contains(t, x) <=> x = e \/ Contains(s, x)
    BY <1>2, <1>3, <1>4 DEF Contains
  <1>6. ASSUME NoRepeat(s), ~Contains(s, e) PROVE NoRepeat(t)
    <2>1. \A j, k \in 1 .. n : s[j] = s[k] => j = k
      BY <1>2, <1>6 DEF NoRepeat
    <2>2. \A k \in 1 .. n : s[k] # e
      BY <1>2, <1>6 DEF Contains
    <2> QED BY <1>3, <1>4, <2>1, <2>2 DEF NoRepeat
  <1> QED BY <1>1, <1>3, <1>5, <1>6

\* An empty list holds nothing.
LEMMA NothingIn == \A x : ~Contains(<<>>, x)
  BY DEF Contains

-----------------------------------------------------------------------------
(* What a request recorded.                                                 *)

\* How many items a request recorded.
LEMMA RecordedTypes ==
  ASSUME NEW r \in Requests, NEW k \in Kinds
  PROVE  Recorded[r][k] \in Nat
  BY EmitterConstants

\* The items of a request and kind are a list without repetition, and bear both names.
LEMMA ItemsOfIs ==
  ASSUME NEW r \in Requests, NEW k \in Kinds
  PROVE  /\ ItemsOf(r, k) \in Seq(Items)
         /\ Len(ItemsOf(r, k)) = Recorded[r][k]
         /\ NoRepeat(ItemsOf(r, k))
         /\ \A x : Contains(ItemsOf(r, k), x) => x.req = r /\ x.kind = k
  <1>1. PICK m : m = Recorded[r][k]
    OBVIOUS
  <1>2. m \in Nat
    BY <1>1, RecordedTypes
  <1>3. PICK s : s = [n \in 1 .. m |-> [req |-> r, kind |-> k, n |-> n]]
    OBVIOUS
  <1>4. ItemsOf(r, k) = s
    BY <1>1, <1>3 DEF ItemsOf
  <1>5. DOMAIN s = 1 .. m /\ \A n \in 1 .. m : s[n] = [req |-> r, kind |-> k, n |-> n]
    BY <1>3
  <1>6. \A n \in 1 .. m : s[n].req = r /\ s[n].kind = k /\ s[n].n = n
    BY <1>5
  <1>7. \A n \in 1 .. m : s[n] \in Items
    <2> TAKE n \in 1 .. m
    <2>1. s[n] \in Range(s)
      BY <1>5 DEF Range
    <2> QED BY <1>4, <2>1 DEF Items
  <1>8. s \in Seq(Items) /\ Len(s) = m
    BY <1>2, <1>3, <1>7
  <1>9. NoRepeat(s)
    BY <1>6, <1>8 DEF NoRepeat
  <1>10. \A x : Contains(s, x) => x.req = r /\ x.kind = k
    BY <1>6, <1>8 DEF Contains
  <1> QED BY <1>1, <1>4, <1>8, <1>9, <1>10

\* Every item is in the list of its request and kind.
LEMMA ItemIs ==
  ASSUME NEW i \in Items
  PROVE  i.req \in Requests /\ i.kind \in Kinds /\ Contains(ItemsOf(i.req, i.kind), i)
  <1>1. PICK r \in Requests, k \in Kinds : i \in Range(ItemsOf(r, k))
    BY DEF Items
  <1>2. PICK s : s = ItemsOf(r, k)
    OBVIOUS
  <1>3. s \in Seq(Items)
    BY <1>2, ItemsOfIs
  <1>4. Contains(s, i)
    BY <1>1, <1>2, <1>3 DEF Contains, Range
  <1>5. i.req = r /\ i.kind = k
    BY <1>2, <1>4, ItemsOfIs
  <1> QED BY <1>2, <1>4, <1>5

\* A request's buffer holds each of its items once, and no other.
LEMMA BufferIs ==
  ASSUME NEW r \in Requests, NEW b, b = ItemsOf(r, "span") \o ItemsOf(r, "log")
  PROVE  /\ b \in Seq(Items) /\ NoRepeat(b)
         /\ \A i \in Items : Contains(b, i) <=> i.req = r
  <1>1. "span" \in Kinds /\ "log" \in Kinds /\ \A k \in Kinds : k = "span" \/ k = "log"
    BY DEF Kinds
  <1>2. PICK s : s = ItemsOf(r, "span")
    OBVIOUS
  <1>3. PICK t : t = ItemsOf(r, "log")
    OBVIOUS
  <1>4. /\ s \in Seq(Items) /\ NoRepeat(s) /\ \A x : Contains(s, x) => x.req = r /\ x.kind = "span"
        /\ t \in Seq(Items) /\ NoRepeat(t) /\ \A x : Contains(t, x) => x.req = r /\ x.kind = "log"
    BY <1>1, <1>2, <1>3, ItemsOfIs
  <1>5. PICK n : n = Len(s)
    OBVIOUS
  <1>6. PICK m : m = Len(t)
    OBVIOUS
  <1>7. n \in Nat /\ m \in Nat /\ b \in Seq(Items) /\ Len(b) = n + m
        /\ \A k \in 1 .. n + m : b[k] = IF k <= n THEN s[k] ELSE t[k - n]
    BY <1>2, <1>3, <1>4, <1>5, <1>6
  <1>8. \A k \in 1 .. n + m : IF k <= n THEN k \in 1 .. n ELSE k - n \in 1 .. m
    BY <1>7
  <1>9. \A k \in 1 .. n + m : IF k <= n THEN b[k].kind = "span" /\ b[k].req = r
                                       ELSE b[k].kind = "log" /\ b[k].req = r
    BY <1>4, <1>5, <1>6, <1>7, <1>8 DEF Contains
  <1>10. NoRepeat(b)
    <2> SUFFICES ASSUME NEW j \in 1 .. n + m, NEW k \in 1 .. n + m, b[j] = b[k] PROVE j = k
      BY <1>7 DEF NoRepeat
    <2>1. CASE j <= n /\ k <= n
      BY <1>4, <1>5, <1>7, <1>8, <2>1 DEF NoRepeat
    <2>2. CASE ~(j <= n) /\ ~(k <= n)
      <3>1. b[j] = t[j - n] /\ b[k] = t[k - n] /\ j - n \in 1 .. m /\ k - n \in 1 .. m
        BY <1>7, <1>8, <2>2
      <3>2. j - n = k - n
        BY <1>4, <1>6, <3>1 DEF NoRepeat
      <3> QED BY <1>7, <3>2
    <2>3. CASE j <= n /\ ~(k <= n)
      <3>1. b[j].kind = "span" /\ b[k].kind = "log"
        BY <1>9, <2>3
      <3> QED BY <3>1
    <2>4. CASE ~(j <= n) /\ k <= n
      <3>1. b[j].kind = "log" /\ b[k].kind = "span"
        BY <1>9, <2>4
      <3> QED BY <3>1
    <2> QED BY <2>1, <2>2, <2>3, <2>4
  <1>11. ASSUME NEW i \in Items, Contains(b, i) PROVE i.req = r
    BY <1>7, <1>9, <1>11 DEF Contains
  <1>12. ASSUME NEW i \in Items, i.req = r PROVE Contains(b, i)
    <2>1. Contains(s, i) \/ Contains(t, i)
      BY <1>1, <1>2, <1>3, <1>12, ItemIs
    <2>2. ASSUME NEW k \in 1 .. n, s[k] = i PROVE Contains(b, i)
      <3>1. k \in 1 .. n + m /\ b[k] = i
        BY <1>7, <2>2
      <3> QED BY <1>7, <3>1 DEF Contains
    <2>3. ASSUME NEW k \in 1 .. m, t[k] = i PROVE Contains(b, i)
      <3>1. k + n \in 1 .. n + m /\ ~(k + n <= n) /\ (k + n) - n = k
        BY <1>7
      <3>2. b[k + n] = i
        BY <1>7, <2>3, <3>1
      <3> QED BY <1>7, <3>1, <3>2 DEF Contains
    <2> QED BY <1>5, <1>6, <2>1, <2>2, <2>3 DEF Contains
  <1> QED BY <1>7, <1>10, <1>11, <1>12
-----------------------------------------------------------------------------
(* The invariant: where the items are.                                      *)

Waiting == { i \in Items : Contains(pending[i.req], i) }
Queued  == { i \in Items : Contains(queue[i.kind], i) }
Held    == { i \in Items : \E w \in WorkerIds : Contains(batch[w], i) }
Sent    == { i \in Items : posted[i] = 1 }

EmitterTyped ==
  /\ flushed \subseteq Requests /\ readers \subseteq Requests /\ dropped \subseteq Items
  /\ pending \in [Requests -> Seq(Items)]
  /\ queue \in [Kinds -> Seq(Items)]
  /\ batch \in [WorkerIds -> Seq(Items)]
  /\ wpc \in [WorkerIds -> {"receive", "post", "lastPost", "returned"}]
  /\ posted \in [Items -> {0, 1}]
  /\ closed \in BOOLEAN /\ panicked \in BOOLEAN
  /\ shutdown \in {"no", "waiting", "drained", "expired"}

\* A list holds an item once, and only the lists an item may be in hold it.
Homes ==
  /\ \A r \in Requests : NoRepeat(pending[r]) /\ \A i \in Items : Contains(pending[r], i) => i.req = r
  /\ \A k \in Kinds : NoRepeat(queue[k]) /\ \A i \in Items : Contains(queue[k], i) => i.kind = k
  /\ \A v, w \in WorkerIds : \A i \in Items : Contains(batch[v], i) /\ Contains(batch[w], i) => v = w

\* An item that was flushed is in one place, an item that was not in none.
One(i) ==
  /\ i \in Waiting => i \notin Queued \cup Held \cup dropped \cup Sent
  /\ i \in Queued => i \notin Held \cup dropped \cup Sent
  /\ i \in Held => i \notin dropped \cup Sent
  /\ i \in dropped => i \notin Sent

Placed ==
  \A i \in Items :
    /\ One(i)
    /\ i.req \in flushed <=> i \in Waiting \cup Queued \cup Held \cup dropped \cup Sent

\* No request is inside Enqueue once the channels are closed, and a worker stops
\* only at the end of its closed channel.
Closing ==
  /\ ~panicked
  /\ closed => readers = {}
  /\ \A r \in readers : pending[r] # <<>>
  /\ \A w \in WorkerIds :
       /\ wpc[w] \in {"lastPost", "returned"} => closed /\ queue[w[2]] = <<>>
       /\ wpc[w] = "returned" => batch[w] = <<>>
  /\ shutdown = "drained" => \A w \in WorkerIds : wpc[w] = "returned"

EmitterInv == EmitterTyped /\ Homes /\ Placed /\ Closing

\* A worker serves the queue of one kind.
LEMMA WorkerIs ==
  ASSUME NEW w \in WorkerIds
  PROVE  w[2] \in Kinds
  BY DEF WorkerIds

\* The invariant holds of a new emitter.
LEMMA InitGood == Init => EmitterInv
  <1> SUFFICES ASSUME NewEmitter PROVE EmitterInv
    BY DEF Init
  <1>0. <<>> \in Seq(Items)
    OBVIOUS
  <1>1. EmitterTyped
    <2>1. pending \in [Requests -> Seq(Items)] /\ queue \in [Kinds -> Seq(Items)]
          /\ batch \in [WorkerIds -> Seq(Items)]
      BY <1>0 DEF NewEmitter
    <2>2. wpc \in [WorkerIds -> {"receive", "post", "lastPost", "returned"}]
          /\ posted \in [Items -> {0, 1}]
      BY DEF NewEmitter
    <2> QED BY <2>1, <2>2 DEF NewEmitter, EmitterTyped
  <1>2. /\ \A r \in Requests : pending[r] = <<>>
        /\ \A k \in Kinds : queue[k] = <<>>
        /\ \A w \in WorkerIds : batch[w] = <<>>
        /\ \A i \in Items : posted[i] = 0
        /\ flushed = {} /\ dropped = {}
    BY DEF NewEmitter
  <1>3. \A i \in Items : i.req \in Requests /\ i.kind \in Kinds
    BY ItemIs
  <1>4. NoRepeat(<<>>)
    BY DEF NoRepeat
  <1>5. Homes
    BY <1>2, <1>4, NothingIn DEF Homes
  <1>6. \A i \in Items : i \notin Waiting /\ i \notin Queued /\ i \notin Held /\ i \notin Sent
    BY <1>2, <1>3, NothingIn DEF Waiting, Queued, Held, Sent
  <1>7. Placed
    BY <1>2, <1>6 DEF Placed, One
  <1>8. Closing
    BY DEF NewEmitter, Closing
  <1> QED BY <1>1, <1>5, <1>7, <1>8 DEF EmitterInv

-----------------------------------------------------------------------------
(* Requests.                                                                *)

\* A request hands over its buffer.
LEMMA FlushKeeps ==
  ASSUME EmitterInv, NEW r \in Requests, Flush(r)
  PROVE  EmitterInv'
  <1>1. EmitterTyped /\ Homes /\ Placed /\ Closing
    BY DEF EmitterInv
  <1>2. r \notin flushed /\ flushed' = flushed \cup {r}
        /\ UNCHANGED <<readers, queue, closed, dropped, batch, wpc, posted, shutdown, panicked>>
    BY DEF Flush
  <1>3. PICK b : b = ItemsOf(r, "span") \o ItemsOf(r, "log")
    OBVIOUS
  <1>4. pending' = [pending EXCEPT ![r] = b]
    BY <1>3 DEF Flush
  <1>5. b \in Seq(Items) /\ NoRepeat(b) /\ \A i \in Items : Contains(b, i) <=> i.req = r
    BY <1>3, BufferIs
  <1>6. EmitterTyped'
    BY <1>1, <1>2, <1>4, <1>5 DEF EmitterTyped
  <1>7. \A q \in Requests : pending'[q] = IF q = r THEN b ELSE pending[q]
    BY <1>1, <1>4 DEF EmitterTyped
  <1>8. Homes'
    BY <1>1, <1>2, <1>5, <1>7 DEF Homes
  <1>9. \A i \in Items : i.req \in Requests
    BY ItemIs
  <1>10. \A i \in Items : i \in Waiting' <=> i \in Waiting \/ i.req = r
    <2> SUFFICES ASSUME NEW i \in Items
                 PROVE  Contains(pending'[i.req], i) <=> Contains(pending[i.req], i) \/ i.req = r
      BY DEF Waiting
    <2>1. pending'[i.req] = IF i.req = r THEN b ELSE pending[i.req]
      BY <1>7, <1>9
    <2> QED BY <1>5, <2>1
  <1>11. Queued' = Queued /\ Held' = Held /\ Sent' = Sent /\ dropped' = dropped
    BY <1>2 DEF Queued, Held, Sent
  <1>12. Placed'
    <2>1. \A i \in Items : i.req = r =>
            i \notin Waiting /\ i \notin Queued /\ i \notin Held /\ i \notin Sent /\ i \notin dropped
      BY <1>1, <1>2 DEF Placed
    <2>2. \A i \in Items : One(i) /\ (i.req \in flushed <=>
            i \in Waiting \cup Queued \cup Held \cup dropped \cup Sent)
      BY <1>1 DEF Placed
    <2> QED BY <1>2, <1>10, <1>11, <2>1, <2>2 DEF Placed, One
  <1>13. Closing'
    <2>1. r \notin readers \/ b # <<>>
      <3>1. ASSUME r \in readers PROVE FALSE
        <4>1. pending[r] # <<>> /\ pending[r] \in Seq(Items)
          BY <1>1, <3>1 DEF Closing, EmitterTyped
        <4>2. PICK h : h = Head(pending[r])
          OBVIOUS
        <4>3. h \in Items /\ Contains(pending[r], h)
          BY <4>1, <4>2, TakeHead
        <4>4. h.req = r
          BY <1>1, <4>3 DEF Homes
        <4>5. h \in Waiting
          BY <4>3, <4>4 DEF Waiting
        <4> QED BY <1>1, <1>2, <4>3, <4>4, <4>5 DEF Placed
      <3> QED BY <3>1
    <2> QED BY <1>1, <1>2, <1>7, <2>1 DEF Closing, EmitterTyped
  <1> QED BY <1>6, <1>8, <1>12, <1>13 DEF EmitterInv

\* The first item a request has still to enqueue leaves its list.
LEMMA TakePending ==
  ASSUME EmitterInv, NEW r \in Requests, pending[r] # <<>>, NEW h, h = Head(pending[r]),
         pending' = [pending EXCEPT ![r] = Tail(@)]
  PROVE  /\ h \in Items /\ h.req = r /\ h.kind \in Kinds /\ h \in Waiting
         /\ pending' \in [Requests -> Seq(Items)]
         /\ \A q \in Requests :
              /\ NoRepeat(pending'[q]) /\ \A i \in Items : Contains(pending'[q], i) => i.req = q
              /\ q # r => pending'[q] = pending[q]
         /\ \A i \in Items : i \in Waiting' <=> i \in Waiting /\ i # h
  <1>1. pending \in [Requests -> Seq(Items)] /\ Homes
    BY DEF EmitterInv, EmitterTyped
  <1>2. PICK s : s = pending[r]
    OBVIOUS
  <1>3. PICK t : t = Tail(s)
    OBVIOUS
  <1>4. s \in Seq(Items) /\ s # <<>> /\ NoRepeat(s) /\ h = Head(s)
        /\ \A i \in Items : Contains(s, i) => i.req = r
    BY <1>1, <1>2 DEF Homes
  <1>5. h \in Items /\ t \in Seq(Items) /\ NoRepeat(t) /\ ~Contains(t, h)
        /\ \A x : Contains(s, x) <=> x = h \/ Contains(t, x)
    BY <1>3, <1>4, TakeHead
  <1>6. h.req = r /\ h.kind \in Kinds
    BY <1>4, <1>5, ItemIs
  <1>7. h \in Waiting
    BY <1>2, <1>5, <1>6 DEF Waiting
  <1>8. pending' = [pending EXCEPT ![r] = t]
    BY <1>2, <1>3
  <1>9. pending' \in [Requests -> Seq(Items)]
        /\ \A q \in Requests : pending'[q] = IF q = r THEN t ELSE pending[q]
    BY <1>1, <1>5, <1>8
  <1>10. \A q \in Requests : NoRepeat(pending'[q])
           /\ \A i \in Items : Contains(pending'[q], i) => i.req = q
    BY <1>1, <1>4, <1>5, <1>9 DEF Homes
  <1>11. ASSUME NEW i \in Items
         PROVE  Contains(pending'[i.req], i) <=> Contains(pending[i.req], i) /\ i # h
    <2>1. i.req \in Requests
      BY ItemIs
    <2>2. CASE i.req = r
      BY <1>2, <1>5, <1>9, <2>1, <2>2
    <2>3. CASE i.req # r
      BY <1>6, <1>9, <2>1, <2>3
    <2> QED BY <2>2, <2>3
  <1>12. \A i \in Items : i \in Waiting' <=> i \in Waiting /\ i # h
    BY <1>11 DEF Waiting
  <1> QED BY <1>5, <1>6, <1>7, <1>9, <1>10, <1>12

\* An item that moves from its request's list to one other place stays placed.
LEMMA MovesOn ==
  ASSUME Placed, NEW h \in Items, h \in Waiting, flushed' = flushed, Held' = Held, Sent' = Sent,
         \A i \in Items : i \in Waiting' <=> i \in Waiting /\ i # h,
         \/ Queued' = Queued \cup {h} /\ dropped' = dropped
         \/ Queued' = Queued /\ dropped' = dropped \cup {h}
  PROVE  Placed'
  <1>1. h \notin Queued /\ h \notin Held /\ h \notin dropped /\ h \notin Sent /\ h.req \in flushed
    BY DEF Placed, One
  <1> SUFFICES ASSUME NEW i \in Items
               PROVE  One(i)' /\ (i.req \in flushed <=>
                        i \in Waiting' \cup Queued' \cup Held' \cup dropped' \cup Sent')
    BY DEF Placed
  <1>2. One(i) /\ (i.req \in flushed <=> i \in Waiting \cup Queued \cup Held \cup dropped \cup Sent)
    BY DEF Placed
  <1>3. CASE i = h
    BY <1>1, <1>3 DEF One
  <1>4. CASE i # h
    BY <1>2, <1>4 DEF One
  <1> QED BY <1>3, <1>4

\* Enqueue reads closed under the read lock.
LEMMA EnqueueCheckKeeps ==
  ASSUME EmitterInv, NEW r \in Requests, EnqueueCheck(r)
  PROVE  EmitterInv'
  <1>1. EmitterTyped /\ Homes /\ Placed /\ Closing
    BY DEF EmitterInv
  <1>2. pending[r] # <<>> /\ r \notin readers
        /\ UNCHANGED <<flushed, queue, closed, batch, wpc, posted, shutdown, panicked>>
    BY DEF EnqueueCheck
  <1>3. Queued' = Queued /\ Held' = Held /\ Sent' = Sent
    BY <1>2 DEF Queued, Held, Sent
  <1>4. CASE ~closed
    <2>1. readers' = readers \cup {r} /\ UNCHANGED <<dropped, pending>>
      BY <1>4 DEF EnqueueCheck
    <2>2. EmitterTyped'
      BY <1>1, <1>2, <2>1 DEF EmitterTyped
    <2>3. Homes'
      BY <1>1, <1>2, <2>1 DEF Homes
    <2>4. Waiting' = Waiting
      BY <2>1 DEF Waiting
    <2>5. Placed'
      BY <1>1, <1>2, <1>3, <2>1, <2>4 DEF Placed, One
    <2>6. Closing'
      BY <1>1, <1>2, <1>4, <2>1 DEF Closing
    <2> QED BY <2>2, <2>3, <2>5, <2>6 DEF EmitterInv
  <1>5. CASE closed
    <2>1. PICK h : h = Head(pending[r])
      OBVIOUS
    <2>2. dropped' = dropped \cup {h} /\ pending' = [pending EXCEPT ![r] = Tail(@)]
          /\ readers' = readers
      BY <1>5, <2>1 DEF EnqueueCheck
    <2>3. /\ h \in Items /\ h.req = r /\ h \in Waiting
          /\ pending' \in [Requests -> Seq(Items)]
          /\ \A q \in Requests :
               /\ NoRepeat(pending'[q]) /\ \A i \in Items : Contains(pending'[q], i) => i.req = q
               /\ q # r => pending'[q] = pending[q]
          /\ \A i \in Items : i \in Waiting' <=> i \in Waiting /\ i # h
      BY <1>2, <2>1, <2>2, TakePending
    <2>4. EmitterTyped'
      BY <1>1, <1>2, <2>2, <2>3 DEF EmitterTyped
    <2>5. Homes'
      BY <1>1, <1>2, <2>3 DEF Homes
    <2>6. Placed'
      BY <1>1, <1>2, <1>3, <2>2, <2>3, MovesOn
    <2>7. Closing'
      BY <1>1, <1>2, <1>5, <2>2 DEF Closing
    <2> QED BY <2>4, <2>5, <2>6, <2>7 DEF EmitterInv
  <1>6. closed \in BOOLEAN
    BY <1>1 DEF EmitterTyped
  <1> QED BY <1>4, <1>5, <1>6

\* Enqueue sends to the channel, or drops when it is full.
LEMMA EnqueueSendKeeps ==
  ASSUME EmitterInv, NEW r \in Requests, EnqueueSend(r)
  PROVE  EmitterInv'
  <1>1. EmitterTyped /\ Homes /\ Placed /\ Closing
    BY DEF EmitterInv
  <1>2. r \in readers /\ readers' = readers \ {r} /\ pending' = [pending EXCEPT ![r] = Tail(@)]
        /\ UNCHANGED <<flushed, closed, batch, wpc, posted, shutdown>>
    BY DEF EnqueueSend
  <1>3. ~closed /\ pending[r] # <<>>
    BY <1>1, <1>2 DEF Closing
  <1>4. PICK h : h = Head(pending[r])
    OBVIOUS
  <1>5. /\ h \in Items /\ h.req = r /\ h.kind \in Kinds /\ h \in Waiting
        /\ pending' \in [Requests -> Seq(Items)]
        /\ \A q \in Requests :
             /\ NoRepeat(pending'[q]) /\ \A i \in Items : Contains(pending'[q], i) => i.req = q
             /\ q # r => pending'[q] = pending[q]
        /\ \A i \in Items : i \in Waiting' <=> i \in Waiting /\ i # h
    BY <1>2, <1>3, <1>4, TakePending
  <1>6. panicked' = FALSE
    BY <1>1, <1>3 DEF EnqueueSend, EmitterTyped
  <1>7. Held' = Held /\ Sent' = Sent
    BY <1>2 DEF Held, Sent
  <1>8. PICK k : k = h.kind
    OBVIOUS
  <1>9. CASE Len(queue[k]) < QueueSize
    <2>1. queue' = [queue EXCEPT ![k] = Append(@, h)] /\ dropped' = dropped
      BY <1>3, <1>4, <1>8, <1>9 DEF EnqueueSend
    <2>2. PICK s : s = queue[k]
      OBVIOUS
    <2>3. PICK t : t = Append(s, h)
      OBVIOUS
    <2>4. s \in Seq(Items) /\ NoRepeat(s) /\ k \in Kinds /\ queue \in [Kinds -> Seq(Items)]
      BY <1>1, <1>5, <1>8, <2>2 DEF EmitterTyped, Homes
    <2>5. ~Contains(s, h)
      <3>1. h \notin Queued
        BY <1>1, <1>5 DEF Placed, One
      <3> QED BY <1>5, <1>8, <2>2, <3>1 DEF Queued
    <2>6. t \in Seq(Items) /\ NoRepeat(t) /\ \A x : Contains(t, x) <=> x = h \/ Contains(s, x)
      BY <1>5, <2>3, <2>4, <2>5, AddLast
    <2>7. queue' = [queue EXCEPT ![k] = t]
      BY <2>1, <2>2, <2>3
    <2>8. queue' \in [Kinds -> Seq(Items)]
          /\ \A q \in Kinds : queue'[q] = IF q = k THEN t ELSE queue[q]
      BY <2>4, <2>6, <2>7
    <2>9. EmitterTyped'
      BY <1>1, <1>2, <1>5, <1>6, <2>1, <2>8 DEF EmitterTyped
    <2>10. \A q \in Kinds : NoRepeat(queue'[q]) /\ \A i \in Items : Contains(queue'[q], i) => i.kind = q
      BY <1>1, <1>8, <2>2, <2>6, <2>8 DEF Homes
    <2>11. Homes'
      BY <1>1, <1>2, <1>5, <2>10 DEF Homes
    <2>12. \A i \in Items : Contains(queue'[i.kind], i) <=> i = h \/ Contains(queue[i.kind], i)
      <3> TAKE i \in Items
      <3>1. i.kind \in Kinds
        BY ItemIs
      <3> QED BY <1>8, <2>2, <2>6, <2>8, <3>1
    <2>13. Queued' = Queued \cup {h}
      BY <1>5, <2>12 DEF Queued
    <2>14. Placed'
      BY <1>1, <1>2, <1>5, <1>7, <2>1, <2>13, MovesOn
    <2>15. Closing'
      <3>1. \A w \in WorkerIds : wpc[w] \notin {"lastPost", "returned"}
        BY <1>1, <1>3 DEF Closing
      <3>2. \A q \in readers' : pending'[q] # <<>>
        BY <1>1, <1>2, <1>5 DEF Closing, EmitterTyped
      <3> QED BY <1>1, <1>2, <1>3, <1>6, <3>1, <3>2 DEF Closing
    <2> QED BY <2>9, <2>11, <2>14, <2>15 DEF EmitterInv
  <1>10. CASE ~(Len(queue[k]) < QueueSize)
    <2>1. queue' = queue /\ dropped' = dropped \cup {h}
      BY <1>3, <1>4, <1>8, <1>10 DEF EnqueueSend
    <2>2. EmitterTyped'
      BY <1>1, <1>2, <1>5, <1>6, <2>1 DEF EmitterTyped
    <2>3. Homes'
      BY <1>1, <1>2, <1>5, <2>1 DEF Homes
    <2>4. Queued' = Queued
      BY <2>1 DEF Queued
    <2>5. Placed'
      BY <1>1, <1>2, <1>5, <1>7, <2>1, <2>4, MovesOn
    <2>6. Closing'
      <3>1. \A q \in readers' : pending'[q] # <<>>
        BY <1>1, <1>2, <1>5 DEF Closing, EmitterTyped
      <3> QED BY <1>1, <1>2, <1>3, <1>6, <2>1, <3>1 DEF Closing
    <2> QED BY <2>2, <2>3, <2>5, <2>6 DEF EmitterInv
  <1> QED BY <1>9, <1>10

-----------------------------------------------------------------------------
(* Workers and Shutdown.                                                    *)

\* A step of a worker or of Shutdown that moves no item.
LEMMA OnlyControl ==
  ASSUME EmitterInv, UNCHANGED <<flushed, pending, readers, queue, dropped, batch, posted, panicked>>
  PROVE  Homes' /\ Placed'
  <1>1. Homes /\ Placed
    BY DEF EmitterInv
  <1>2. Waiting' = Waiting /\ Queued' = Queued /\ Held' = Held /\ Sent' = Sent
    BY DEF Waiting, Queued, Held, Sent
  <1>3. Homes'
    BY <1>1 DEF Homes
  <1>4. Placed'
    BY <1>1, <1>2 DEF Placed, One
  <1> QED BY <1>3, <1>4

\* A worker takes an item, or finds its channel closed.
LEMMA ReceiveKeeps ==
  ASSUME EmitterInv, NEW w \in WorkerIds, Receive(w)
  PROVE  EmitterInv'
  <1>1. EmitterTyped /\ Homes /\ Placed /\ Closing
    BY DEF EmitterInv
  <1>2. wpc[w] = "receive"
        /\ UNCHANGED <<flushed, pending, readers, closed, dropped, posted, shutdown, panicked>>
    BY DEF Receive
  <1>3. PICK k : k = w[2]
    OBVIOUS
  <1>4. k \in Kinds
    BY <1>3, WorkerIs
  <1>5. shutdown # "drained"
    BY <1>1, <1>2 DEF Closing
  <1>6. CASE queue[k] # <<>>
    <2>1. PICK h : h = Head(queue[k])
      OBVIOUS
    <2>2. PICK s : s = queue[k]
      OBVIOUS
    <2>3. PICK t : t = Tail(s)
      OBVIOUS
    <2>4. PICK b : b = Append(batch[w], h)
      OBVIOUS
    <2>5. queue' = [queue EXCEPT ![k] = t] /\ batch' = [batch EXCEPT ![w] = b]
          /\ wpc' = [wpc EXCEPT ![w] = IF Len(batch[w]) + 1 >= BatchSize THEN "post" ELSE @]
      BY <1>3, <1>6, <2>1, <2>2, <2>3, <2>4 DEF Receive
    <2>6. s \in Seq(Items) /\ s # <<>> /\ NoRepeat(s) /\ \A i \in Items : Contains(s, i) => i.kind = k
      BY <1>1, <1>4, <1>6, <2>2 DEF EmitterTyped, Homes
    <2>7. h \in Items /\ t \in Seq(Items) /\ NoRepeat(t) /\ ~Contains(t, h)
          /\ \A x : Contains(s, x) <=> x = h \/ Contains(t, x)
      BY <2>1, <2>2, <2>3, <2>6, TakeHead
    <2>8. h.kind = k
      BY <2>6, <2>7
    <2>9. h \in Queued
      BY <2>2, <2>7, <2>8 DEF Queued
    <2>10. batch[w] \in Seq(Items) /\ batch \in [WorkerIds -> Seq(Items)]
           /\ queue \in [Kinds -> Seq(Items)]
           /\ wpc \in [WorkerIds -> {"receive", "post", "lastPost", "returned"}]
      BY <1>1 DEF EmitterTyped
    <2>11. b \in Seq(Items) /\ \A x : Contains(b, x) <=> x = h \/ Contains(batch[w], x)
      BY <2>4, <2>7, <2>10, AddLast
    <2>12. queue' \in [Kinds -> Seq(Items)]
           /\ \A q \in Kinds : queue'[q] = IF q = k THEN t ELSE queue[q]
      BY <2>5, <2>7, <2>10
    <2>13. batch' \in [WorkerIds -> Seq(Items)]
           /\ \A v \in WorkerIds : batch'[v] = IF v = w THEN b ELSE batch[v]
      BY <2>5, <2>10, <2>11
    <2>14. wpc' \in [WorkerIds -> {"receive", "post", "lastPost", "returned"}]
           /\ (\A v \in WorkerIds : v # w => wpc'[v] = wpc[v])
           /\ wpc'[w] \in {"receive", "post"}
      BY <1>2, <2>5, <2>10
    <2>15. EmitterTyped'
      BY <1>1, <1>2, <2>12, <2>13, <2>14 DEF EmitterTyped
    <2>16. h \notin Held /\ h \notin Sent /\ h \notin dropped /\ h \notin Waiting /\ h.req \in flushed
      BY <1>1, <2>7, <2>9 DEF Placed, One
    <2>17. \A v \in WorkerIds : ~Contains(batch[v], h)
      BY <2>7, <2>16 DEF Held
    <2>18. Homes'
      <3>1. \A q \in Kinds : NoRepeat(queue'[q])
              /\ \A i \in Items : Contains(queue'[q], i) => i.kind = q
        BY <1>1, <2>6, <2>7, <2>12 DEF Homes
      <3>2. ASSUME NEW u \in WorkerIds, NEW v \in WorkerIds, NEW i \in Items,
                   Contains(batch'[u], i), Contains(batch'[v], i)
            PROVE  u = v
        <4>1. CASE i = h
          BY <2>13, <2>17, <3>2, <4>1
        <4>2. CASE i # h
          <5>1. Contains(batch[u], i) /\ Contains(batch[v], i)
            BY <2>11, <2>13, <3>2, <4>2
          <5> QED BY <1>1, <5>1 DEF Homes
        <4> QED BY <4>1, <4>2
      <3> QED BY <1>1, <1>2, <3>1, <3>2 DEF Homes
    <2>19. \A i \in Items : i \in Queued' <=> i \in Queued /\ i # h
      <3> SUFFICES ASSUME NEW i \in Items
                   PROVE  Contains(queue'[i.kind], i) <=> Contains(queue[i.kind], i) /\ i # h
        BY DEF Queued
      <3>1. i.kind \in Kinds
        BY ItemIs
      <3> QED BY <2>2, <2>7, <2>8, <2>12, <3>1
    <2>20. \A i \in Items : i \in Held' <=> i \in Held \/ i = h
      <3> SUFFICES ASSUME NEW i \in Items
                   PROVE  (\E v \in WorkerIds : Contains(batch'[v], i)) <=>
                            (\E v \in WorkerIds : Contains(batch[v], i)) \/ i = h
        BY DEF Held
      <3> QED BY <2>11, <2>13
    <2>21. Waiting' = Waiting /\ Sent' = Sent
      BY <1>2 DEF Waiting, Sent
    <2>22. Placed'
      <3> SUFFICES ASSUME NEW i \in Items
                   PROVE  One(i)' /\ (i.req \in flushed' <=>
                            i \in Waiting' \cup Queued' \cup Held' \cup dropped' \cup Sent')
        BY DEF Placed
      <3>1. One(i) /\ (i.req \in flushed <=> i \in Waiting \cup Queued \cup Held \cup dropped \cup Sent)
        BY <1>1 DEF Placed
      <3>2. CASE i = h
        BY <1>2, <2>16, <2>19, <2>20, <2>21, <3>2 DEF One
      <3>3. CASE i # h
        BY <1>2, <2>19, <2>20, <2>21, <3>1, <3>3 DEF One
      <3> QED BY <3>2, <3>3
    <2>23. Closing'
      <3>1. ASSUME NEW v \in WorkerIds, wpc'[v] \in {"lastPost", "returned"}
            PROVE  v # w /\ closed /\ queue[v[2]] = <<>> /\ queue'[v[2]] = <<>>
                   /\ (wpc'[v] = "returned" => batch'[v] = <<>>)
        <4>1. v # w
          BY <2>14, <3>1
        <4>2. wpc[v] = wpc'[v]
          BY <2>14, <4>1
        <4>3. closed /\ queue[v[2]] = <<>> /\ (wpc[v] = "returned" => batch[v] = <<>>)
          BY <1>1, <3>1, <4>2 DEF Closing
        <4>4. v[2] # k /\ v[2] \in Kinds
          BY <1>6, <4>3, WorkerIs
        <4> QED BY <2>12, <2>13, <4>1, <4>2, <4>3, <4>4
      <3> QED BY <1>1, <1>2, <1>5, <3>1 DEF Closing
    <2> QED BY <2>15, <2>18, <2>22, <2>23 DEF EmitterInv
  <1>7. CASE queue[k] = <<>>
    <2>1. closed /\ UNCHANGED <<queue, batch>>
          /\ wpc' = [wpc EXCEPT ![w] = IF batch[w] = <<>> THEN "returned" ELSE "lastPost"]
      BY <1>3, <1>7 DEF Receive
    <2>2. EmitterTyped'
      BY <1>1, <1>2, <2>1 DEF EmitterTyped
    <2>3. Homes' /\ Placed'
      BY <1>2, <2>1, OnlyControl
    <2>4. \A v \in WorkerIds : wpc'[v] =
            IF v = w THEN (IF batch[w] = <<>> THEN "returned" ELSE "lastPost") ELSE wpc[v]
      BY <1>1, <2>1 DEF EmitterTyped
    <2>5. Closing'
      BY <1>1, <1>2, <1>3, <1>5, <1>7, <2>1, <2>4 DEF Closing
    <2> QED BY <2>2, <2>3, <2>5 DEF EmitterInv
  <1> QED BY <1>6, <1>7

\* The flush timer of a worker fires.
LEMMA FlushTimerKeeps ==
  ASSUME EmitterInv, NEW w \in WorkerIds, FlushTimer(w)
  PROVE  EmitterInv'
  <1>1. EmitterTyped /\ Closing
    BY DEF EmitterInv
  <1>2. wpc[w] = "receive" /\ wpc' = [wpc EXCEPT ![w] = "post"]
        /\ UNCHANGED <<flushed, pending, readers, queue, closed, dropped, batch, posted, shutdown,
                       panicked>>
    BY DEF FlushTimer
  <1>3. EmitterTyped'
    BY <1>1, <1>2 DEF EmitterTyped
  <1>4. Homes' /\ Placed'
    BY <1>2, OnlyControl
  <1>5. \A v \in WorkerIds : wpc'[v] = IF v = w THEN "post" ELSE wpc[v]
    BY <1>1, <1>2 DEF EmitterTyped
  <1>6. Closing'
    BY <1>1, <1>2, <1>5 DEF Closing
  <1> QED BY <1>3, <1>4, <1>6 DEF EmitterInv

\* A worker posts its batch.
LEMMA ExportBatchKeeps ==
  ASSUME EmitterInv, NEW w \in WorkerIds, ExportBatch(w)
  PROVE  EmitterInv'
  <1>1. EmitterTyped /\ Homes /\ Placed /\ Closing
    BY DEF EmitterInv
  <1>2. wpc[w] \in {"post", "lastPost"} /\ batch' = [batch EXCEPT ![w] = <<>>]
        /\ posted' = [i \in Items |-> IF Contains(batch[w], i) THEN posted[i] + 1 ELSE posted[i]]
        /\ wpc' = [wpc EXCEPT ![w] = IF @ = "post" THEN "receive" ELSE "returned"]
        /\ UNCHANGED <<flushed, pending, readers, queue, closed, dropped, shutdown, panicked>>
    BY DEF ExportBatch
  <1>3. batch \in [WorkerIds -> Seq(Items)] /\ posted \in [Items -> {0, 1}]
        /\ wpc \in [WorkerIds -> {"receive", "post", "lastPost", "returned"}]
    BY <1>1 DEF EmitterTyped
  <1>4. \A v \in WorkerIds : batch'[v] = IF v = w THEN <<>> ELSE batch[v]
    BY <1>2, <1>3
  <1>5. \A v \in WorkerIds : wpc'[v] =
          IF v = w THEN (IF wpc[w] = "post" THEN "receive" ELSE "returned") ELSE wpc[v]
    BY <1>2, <1>3
  <1>6. \A i \in Items : Contains(batch[w], i) => i \in Held
    BY DEF Held
  <1>7. \A i \in Items : i \in Held => posted[i] = 0
    <2> TAKE i \in Items
    <2>1. i \in Held => i \notin Sent
      BY <1>1 DEF Placed, One
    <2> QED BY <1>3, <2>1 DEF Sent
  <1>8. \A i \in Items : posted'[i] = IF Contains(batch[w], i) THEN 1 ELSE posted[i]
    BY <1>2, <1>6, <1>7
  <1>9. posted' \in [Items -> {0, 1}]
    <2>1. \A i \in Items : posted'[i] \in {0, 1}
      BY <1>3, <1>8
    <2> QED BY <1>2, <2>1
  <1>10. batch' \in [WorkerIds -> Seq(Items)]
         /\ wpc' \in [WorkerIds -> {"receive", "post", "lastPost", "returned"}]
    <2>1. <<>> \in Seq(Items)
      OBVIOUS
    <2> QED BY <1>2, <1>3, <2>1
  <1>11. EmitterTyped'
    BY <1>1, <1>2, <1>9, <1>10 DEF EmitterTyped
  <1>12. Homes'
    BY <1>1, <1>2, <1>4, NothingIn DEF Homes
  <1>13. \A i \in Items : i \in Held' <=> i \in Held /\ ~Contains(batch[w], i)
    <2> SUFFICES ASSUME NEW i \in Items
                 PROVE  (\E v \in WorkerIds : Contains(batch'[v], i)) <=>
                          (\E v \in WorkerIds : Contains(batch[v], i)) /\ ~Contains(batch[w], i)
      BY DEF Held
    <2> QED BY <1>1, <1>4, NothingIn DEF Homes
  <1>14. \A i \in Items : i \in Sent' <=> i \in Sent \/ Contains(batch[w], i)
    BY <1>8 DEF Sent
  <1>15. Waiting' = Waiting /\ Queued' = Queued
    BY <1>2 DEF Waiting, Queued
  <1>16. Placed'
    <2> SUFFICES ASSUME NEW i \in Items
                 PROVE  One(i)' /\ (i.req \in flushed' <=>
                          i \in Waiting' \cup Queued' \cup Held' \cup dropped' \cup Sent')
      BY DEF Placed
    <2>1. One(i) /\ (i.req \in flushed <=> i \in Waiting \cup Queued \cup Held \cup dropped \cup Sent)
      BY <1>1 DEF Placed
    <2> QED BY <1>2, <1>6, <1>13, <1>14, <1>15, <2>1 DEF One
  <1>17. Closing'
    BY <1>1, <1>2, <1>4, <1>5 DEF Closing
  <1> QED BY <1>11, <1>12, <1>16, <1>17 DEF EmitterInv

\* Shutdown closes the channels under the write lock.
LEMMA ShutdownKeeps ==
  ASSUME EmitterInv, Shutdown
  PROVE  EmitterInv'
  <1>1. EmitterTyped /\ Closing
    BY DEF EmitterInv
  <1>2. readers = {} /\ closed' = TRUE /\ shutdown' = "waiting"
        /\ UNCHANGED <<flushed, pending, readers, queue, dropped, batch, wpc, posted, panicked>>
    BY DEF Shutdown
  <1>3. EmitterTyped'
    BY <1>1, <1>2 DEF EmitterTyped
  <1>4. Homes' /\ Placed'
    BY <1>2, OnlyControl
  <1>5. Closing'
    BY <1>1, <1>2 DEF Closing
  <1> QED BY <1>3, <1>4, <1>5 DEF EmitterInv

\* Shutdown returns, drained or at its deadline.
LEMMA ShutdownReturnsKeeps ==
  ASSUME EmitterInv, ShutdownReturns
  PROVE  EmitterInv'
  <1>1. EmitterTyped /\ Closing
    BY DEF EmitterInv
  <1>2. \/ shutdown' = "drained" /\ \A w \in WorkerIds : wpc[w] = "returned"
        \/ shutdown' = "expired"
    BY DEF ShutdownReturns
  <1>3. UNCHANGED <<flushed, pending, readers, queue, closed, dropped, batch, wpc, posted, panicked>>
    BY DEF ShutdownReturns
  <1>4. EmitterTyped'
    BY <1>1, <1>2, <1>3 DEF EmitterTyped
  <1>5. Homes' /\ Placed'
    BY <1>3, OnlyControl
  <1>6. Closing'
    BY <1>1, <1>2, <1>3 DEF Closing
  <1> QED BY <1>4, <1>5, <1>6 DEF EmitterInv

\* Every step keeps the invariant.
LEMMA NextGood == EmitterInv /\ [Next]_vars => EmitterInv'
  <1> SUFFICES ASSUME EmitterInv, [Next]_vars PROVE EmitterInv'
    OBVIOUS
  <1>1. CASE UNCHANGED emitterVars
    <2>1. UNCHANGED <<flushed, pending, readers, queue, closed, dropped, batch, wpc, posted, shutdown,
                      panicked>>
      BY <1>1 DEF emitterVars
    <2>2. EmitterTyped'
      BY <2>1 DEF EmitterInv, EmitterTyped
    <2>3. Homes' /\ Placed'
      BY <2>1, OnlyControl
    <2>4. Closing'
      BY <2>1 DEF EmitterInv, Closing
    <2> QED BY <2>2, <2>3, <2>4 DEF EmitterInv
  <1>2. CASE EmitterNext
    <2>1. ASSUME NEW r \in Requests, Flush(r) \/ EnqueueCheck(r) \/ EnqueueSend(r) PROVE EmitterInv'
      BY <2>1, FlushKeeps, EnqueueCheckKeeps, EnqueueSendKeeps
    <2>2. ASSUME NEW w \in WorkerIds, Receive(w) \/ FlushTimer(w) \/ ExportBatch(w) PROVE EmitterInv'
      BY <2>2, ReceiveKeeps, FlushTimerKeeps, ExportBatchKeeps
    <2> QED BY <1>2, <2>1, <2>2, ShutdownKeeps, ShutdownReturnsKeeps DEF EmitterNext
  <1> QED BY <1>1, <1>2 DEF Next, vars

(* The invariant of the emitter: an item that was flushed is in one place,   *)
(* no request is inside Enqueue when the channels are closed, and a worker   *)
(* stops only at the end of its channel.                                     *)
THEOREM Inductive == Spec => []EmitterInv
  BY InitGood, NextGood, PTL DEF Spec

-----------------------------------------------------------------------------
(* From the sets of places to their count.                                  *)

\* A set that can only hold x counts one or none.
LEMMA AtMostOne ==
  ASSUME NEW S, NEW x, \A y \in S : y = x
  PROVE  Cardinality(S) = IF x \in S THEN 1 ELSE 0
  <1>1. CASE x \in S
    <2>1. S = {x}
      BY <1>1
    <2> QED BY <1>1, <2>1, FS_Singleton
  <1>2. CASE x \notin S
    <2>1. S = {}
      BY <1>2
    <2> QED BY <1>2, <2>1, FS_EmptySet
  <1> QED BY <1>1, <1>2

\* Places counts an item once for each kind of place it is in.
LEMMA Counted1 ==
  ASSUME EmitterInv, NEW i \in Items
  PROVE  Places(i) = (IF i \in Queued THEN 1 ELSE 0) + (IF i \in Held THEN 1 ELSE 0)
                   + (IF i \in Waiting THEN 1 ELSE 0) + (IF i \in dropped THEN 1 ELSE 0)
                   + (IF i \in Sent THEN 1 ELSE 0)
  <1>1. EmitterTyped /\ Homes
    BY DEF EmitterInv
  <1>2. i.req \in Requests /\ i.kind \in Kinds
    BY ItemIs
  <1>3. Cardinality({ k \in Kinds : Contains(queue[k], i) }) = IF i \in Queued THEN 1 ELSE 0
    <2>1. PICK S : S = { k \in Kinds : Contains(queue[k], i) }
      OBVIOUS
    <2>2. \A y \in S : y = i.kind
      BY <1>1, <2>1 DEF Homes
    <2>3. i.kind \in S <=> i \in Queued
      BY <1>2, <2>1 DEF Queued
    <2>4. Cardinality(S) = IF i.kind \in S THEN 1 ELSE 0
      BY <2>2, AtMostOne
    <2> QED BY <2>1, <2>3, <2>4
  <1>4. Cardinality({ r \in Requests : Contains(pending[r], i) }) = IF i \in Waiting THEN 1 ELSE 0
    <2>1. PICK S : S = { r \in Requests : Contains(pending[r], i) }
      OBVIOUS
    <2>2. \A y \in S : y = i.req
      BY <1>1, <2>1 DEF Homes
    <2>3. i.req \in S <=> i \in Waiting
      BY <1>2, <2>1 DEF Waiting
    <2>4. Cardinality(S) = IF i.req \in S THEN 1 ELSE 0
      BY <2>2, AtMostOne
    <2> QED BY <2>1, <2>3, <2>4
  <1>5. Cardinality({ w \in WorkerIds : Contains(batch[w], i) }) = IF i \in Held THEN 1 ELSE 0
    <2>1. PICK S : S = { w \in WorkerIds : Contains(batch[w], i) }
      OBVIOUS
    <2>2. S = {} <=> i \notin Held
      BY <2>1 DEF Held
    <2>3. CASE S = {}
      BY <2>1, <2>2, <2>3, FS_EmptySet
    <2>4. CASE S # {}
      <3>1. PICK w : w \in S
        BY <2>4
      <3>2. \A y \in S : y = w
        BY <1>1, <2>1, <3>1 DEF Homes
      <3>3. Cardinality(S) = IF w \in S THEN 1 ELSE 0
        BY <3>2, AtMostOne
      <3> QED BY <2>1, <2>2, <2>4, <3>1, <3>3
    <2> QED BY <2>3, <2>4
  <1>6. posted[i] = IF i \in Sent THEN 1 ELSE 0
    BY <1>1 DEF EmitterTyped, Sent
  <1> QED BY <1>3, <1>4, <1>5, <1>6 DEF Places

(* Every span and log record a request flushed is pending, queued, in a      *)
(* worker's batch, dropped or posted, in exactly one of these and posted at  *)
(* most once; no send meets a closed channel; and what Shutdown left         *)
(* unposted after draining was never accepted (otel/emitter.go).             *)
THEOREM SpansAreAccounted == Spec => []SpansAccounted
  <1>1. EmitterInv => SpansAccounted
    <2> SUFFICES ASSUME EmitterInv PROVE SpansAccounted
      OBVIOUS
    <2>1. EmitterTyped /\ Homes /\ Placed /\ Closing
      BY DEF EmitterInv
    <2>2. ASSUME NEW i \in Items, i.req \in flushed PROVE Places(i) = 1
      <3>1. One(i) /\ i \in Waiting \cup Queued \cup Held \cup dropped \cup Sent
        BY <2>1, <2>2 DEF Placed
      <3> QED BY <3>1, Counted1 DEF One
    <2>3. ASSUME NEW i \in Items, i.req \in flushed, shutdown = "drained"
          PROVE  i \in dropped \/ posted[i] = 1 \/ Contains(pending[i.req], i)
      <3>1. i \in Waiting \cup Queued \cup Held \cup dropped \cup Sent
        BY <2>1, <2>3 DEF Placed
      <3>2. \A w \in WorkerIds : batch[w] = <<>> /\ queue[w[2]] = <<>>
        BY <2>1, <2>3 DEF Closing
      <3>3. i \notin Held
        BY <3>2, NothingIn DEF Held
      <3>4. i \notin Queued
        <4>1. PICK v : v \in Workers
          BY EmitterConstants
        <4>2. i.kind \in Kinds
          BY ItemIs
        <4>3. <<v, i.kind>> \in WorkerIds /\ <<v, i.kind>>[2] = i.kind
          BY <4>1, <4>2 DEF WorkerIds
        <4>4. queue[i.kind] = <<>>
          BY <3>2, <4>3
        <4> QED BY <4>4, NothingIn DEF Queued
      <3> QED BY <3>1, <3>3, <3>4 DEF Waiting, Sent
    <2> QED BY <2>1, <2>2, <2>3 DEF SpansAccounted, Closing
  <1> QED BY <1>1, Inductive, PTL

-----------------------------------------------------------------------------
(* The export.  TableInv: a row is of a turn that is done with its insert,  *)
(* and an insert under way is younger than Holdback.  ExportInv: the page   *)
(* asked for ends, and the cursor lies, at least Holdback behind the clock; *)
(* what is stored is what the table holds up to the cursor.                 *)

Phases == {"idle", "running", "fired", "inserting", "done", "lost"}

TurnRecord == [phase : Phases, time : Nat, fired : Nat, created : Nat]

Pending(t) == turns[t].phase \in {"fired", "inserting"}

\* Rows of one turn each, told apart by their ids.
GoodRows ==
    /\ IsFiniteSet(rows)
    /\ \A r \in rows : /\ r.req \in Turns /\ r.id = scenario.id[r.req] /\ r.created \in Nat
                       /\ turns[r.req].phase = "done"
    /\ \A r, o \in rows : r.id = o.id => r = o

TableInv ==
    /\ scenario \in Scenarios
    /\ now \in Nat /\ now >= Skew
    /\ turns \in [Turns -> TurnRecord]
    /\ \A t \in Turns : Pending(t) => turns[t].fired <= now /\ now <= turns[t].fired + InsertTimeout
    /\ \A t \in Turns : turns[t].phase = "inserting" => turns[t].created >= turns[t].fired - scenario.lag
    /\ GoodRows

\* Stored by the consumer.
Stored(id) == \E i \in DOMAIN export.got : export.got[i] = id

ExportInv ==
    /\ export \in [inst : Insts \union {Null}, cursor : {NoCursor} \union (Nat \X Nat),
                   to : Int \union {Null}, got : Seq(Nat)]
    /\ export.to # Null => export.to <= now - Holdback
    /\ export.cursor = NoCursor => export.got = <<>>
    /\ export.cursor # NoCursor => export.cursor[1] < now - Holdback
    /\ \A i \in DOMAIN export.got : \E r \in Upstream(rows) :
          r.id = export.got[i] /\ r.inst = export.inst /\ ~Precedes(export.cursor, KeyOf(r))
    /\ \A i, j \in DOMAIN export.got : \A r, o \in rows :
          i < j /\ r.id = export.got[i] /\ o.id = export.got[j] => Precedes(KeyOf(r), KeyOf(o))
    /\ \A r \in Upstream(rows) :
          r.inst = export.inst /\ export.cursor # NoCursor /\ ~Precedes(export.cursor, KeyOf(r)) =>
             Stored(r.id)

-----------------------------------------------------------------------------
(* ORDER BY.  A finite set with a strict total order on it can be listed in *)
(* order, and in one way only.                                              *)

\* lt, a set of pairs, orders rs.
Orders(lt, rs) ==
    /\ IsFiniteSet(rs)
    /\ \A a, b \in rs : ~(<<a, b>> \in lt /\ <<b, a>> \in lt)
    /\ \A a, b \in rs : a # b => <<a, b>> \in lt \/ <<b, a>> \in lt
    /\ \A a, b, c \in rs : <<a, b>> \in lt /\ <<b, c>> \in lt => <<a, c>> \in lt

\* The first n values of f are in order.
Along(f, n, lt) == \A i, j \in 1 .. n : i < j => <<f[i], f[j]>> \in lt

\* Every element of rs once among the first n values of f.
OneToOne(f, n, rs) ==
    /\ \A i, j \in 1 .. n : f[i] = f[j] => i = j
    /\ \A r \in rs : \E i \in 1 .. n : f[i] = r

\* The elements before r.
Lower(lt, rs, r) == { o \in rs : <<o, r>> \in lt }

\* An element has fewer elements before it than an element after it has.
LEMMA LowerGrows ==
  ASSUME NEW lt, NEW rs, Orders(lt, rs), NEW r \in rs, NEW o \in rs, <<r, o>> \in lt
  PROVE  /\ Cardinality(Lower(lt, rs, r)) \in Nat /\ Cardinality(Lower(lt, rs, o)) \in Nat
         /\ Cardinality(Lower(lt, rs, r)) < Cardinality(Lower(lt, rs, o))
<1>1. Lower(lt, rs, r) \subseteq Lower(lt, rs, o) /\ Lower(lt, rs, r) # Lower(lt, rs, o)
  BY DEF Lower, Orders
<1>2. IsFiniteSet(Lower(lt, rs, r)) /\ IsFiniteSet(Lower(lt, rs, o))
  BY FS_Subset DEF Lower, Orders
<1>3. Cardinality(Lower(lt, rs, r)) <= Cardinality(Lower(lt, rs, o))
      /\ (Cardinality(Lower(lt, rs, o)) = Cardinality(Lower(lt, rs, r)) =>
             Lower(lt, rs, o) = Lower(lt, rs, r))
  BY <1>1, <1>2, FS_Subset
<1>4. QED
  BY <1>1, <1>2, <1>3, FS_CardinalityType

\* There is a list in order: each element at the place its predecessors count.
LEMMA SomeOrder ==
  ASSUME NEW lt, NEW rs, Orders(lt, rs)
  PROVE  /\ Cardinality(rs) \in Nat
         /\ \E f \in [1 .. Cardinality(rs) -> rs] : Along(f, Cardinality(rs), lt)
<1> DEFINE n == Cardinality(rs)
           rank == [r \in rs |-> Cardinality(Lower(lt, rs, r)) + 1]
           s == [i \in 1 .. n |-> CHOOSE r \in rs : rank[r] = i]
<1>1. n \in Nat /\ IsFiniteSet(rs)
  BY FS_CardinalityType DEF Orders
<1>2. \A r \in rs : rank[r] \in 1 .. n
  <2> TAKE r \in rs
  <2>1. Lower(lt, rs, r) \subseteq rs \ {r}
    BY DEF Lower, Orders
  <2>2. IsFiniteSet(rs \ {r}) /\ Cardinality(rs \ {r}) = n - 1
    BY <1>1, FS_RemoveElement
  <2>3. IsFiniteSet(Lower(lt, rs, r)) /\ Cardinality(Lower(lt, rs, r)) <= n - 1
    BY <2>1, <2>2, FS_Subset
  <2>4. Cardinality(Lower(lt, rs, r)) \in Nat
    BY <2>3, FS_CardinalityType
  <2>5. QED
    BY <1>1, <2>3, <2>4
<1>3. \A r, o \in rs : <<r, o>> \in lt => rank[r] < rank[o]
  <2> SUFFICES ASSUME NEW r \in rs, NEW o \in rs, <<r, o>> \in lt
               PROVE  rank[r] < rank[o]
    OBVIOUS
  <2>1. Cardinality(Lower(lt, rs, r)) \in Nat /\ Cardinality(Lower(lt, rs, o)) \in Nat
        /\ Cardinality(Lower(lt, rs, r)) < Cardinality(Lower(lt, rs, o))
    BY LowerGrows
  <2>2. QED
    BY <2>1
<1>4. rank \in [rs -> 1 .. n]
  BY <1>2
<1> HIDE DEF rank
<1>5. rank \in Injection(rs, 1 .. n)
  <2>1. \A r, o \in rs : rank[r] = rank[o] => r = o
    <3> SUFFICES ASSUME NEW r \in rs, NEW o \in rs, r # o PROVE rank[r] # rank[o]
      OBVIOUS
    <3>1. <<r, o>> \in lt \/ <<o, r>> \in lt
      BY DEF Orders
    <3>2. rank[r] < rank[o] \/ rank[o] < rank[r]
      BY <1>3, <3>1
    <3>3. rank[r] \in 1 .. n /\ rank[o] \in 1 .. n
      BY <1>2
    <3>4. QED
      BY <1>1, <3>2, <3>3
  <2>2. QED
    BY <1>4, <2>1 DEF Injection, IsInjective
<1>6. rank \in Surjection(rs, 1 .. n)
  <2>1. IsFiniteSet(1 .. n) /\ Cardinality(1 .. n) = n
    BY <1>1, FS_Interval
  <2>2. QED
    BY <1>1, <1>5, <2>1, FS_Injection
<1>7. \A i \in 1 .. n : \E r \in rs : rank[r] = i
  BY <1>6 DEF Surjection
<1>8. s \in [1 .. n -> rs] /\ \A i \in 1 .. n : rank[s[i]] = i
  BY <1>7
<1> HIDE DEF s
<1>9. Along(s, n, lt)
  <2> SUFFICES ASSUME NEW i \in 1 .. n, NEW j \in 1 .. n, i < j
               PROVE  <<s[i], s[j]>> \in lt
    BY DEF Along
  <2>1. s[i] \in rs /\ s[j] \in rs /\ rank[s[i]] = i /\ rank[s[j]] = j
    BY <1>8
  <2>2. s[i] # s[j]
    BY <2>1
  <2>3. <<s[j], s[i]>> \notin lt
    BY <1>3, <2>1
  <2>4. QED
    BY <2>1, <2>2, <2>3 DEF Orders
<1>10. QED
  BY <1>1, <1>8, <1>9

\* A list in order, as long as the set, has every element.
LEMMA AlongOnto ==
  ASSUME NEW lt, NEW rs, Orders(lt, rs), NEW n \in Nat, n = Cardinality(rs),
         NEW f \in [1 .. n -> rs], Along(f, n, lt)
  PROVE  OneToOne(f, n, rs)
<1>1. IsFiniteSet(rs)
  BY DEF Orders
<1>2. \A i, j \in 1 .. n : f[i] = f[j] => i = j
  <2> SUFFICES ASSUME NEW i \in 1 .. n, NEW j \in 1 .. n, f[i] = f[j], i < j
               PROVE  FALSE
    OBVIOUS
  <2>1. <<f[i], f[j]>> \in lt /\ f[i] \in rs
    BY DEF Along
  <2>2. QED
    BY <2>1 DEF Orders
<1>3. f \in Injection(1 .. n, rs)
  BY <1>2 DEF Injection, IsInjective
<1>4. IsFiniteSet(1 .. n) /\ Cardinality(1 .. n) = n
  BY FS_Interval
<1>5. f \in Surjection(1 .. n, rs)
  BY <1>1, <1>3, <1>4, FS_Injection
<1>6. QED
  BY <1>2, <1>5 DEF Surjection, OneToOne

\* There is only one.
LEMMA OnlyOrder ==
  ASSUME NEW lt, NEW rs, Orders(lt, rs), NEW n \in Nat, n = Cardinality(rs),
         NEW f \in [1 .. n -> rs], Along(f, n, lt),
         NEW g \in [1 .. n -> rs], Along(g, n, lt)
  PROVE  f = g
<1> DEFINE T == { i \in 1 .. n : f[i] # g[i] }
<1>0. OneToOne(f, n, rs) /\ OneToOne(g, n, rs)
  BY AlongOnto
<1>1. /\ \A i, j \in 1 .. n : f[i] = f[j] => i = j
      /\ \A r \in rs : \E i \in 1 .. n : f[i] = r
  BY <1>0 DEF OneToOne
<1>2. /\ \A i, j \in 1 .. n : g[i] = g[j] => i = j
      /\ \A r \in rs : \E i \in 1 .. n : g[i] = r
  BY <1>0 DEF OneToOne
<1>3. (\A i \in 1 .. n : f[i] = g[i]) => f = g
  OBVIOUS
<1>4. SUFFICES ASSUME T # {} PROVE FALSE
  BY <1>3
<1>5. T \in SUBSET Nat
  OBVIOUS
<1>6. PICK i \in T : \A k \in T : i <= k
  BY <1>4, <1>5, Least
<1>7. i \in 1 .. n /\ f[i] # g[i] /\ \A k \in 1 .. n : k < i => f[k] = g[k]
  BY <1>6
<1> HIDE DEF T
<1>8. PICK a \in 1 .. n : g[a] = f[i]
  BY <1>2, <1>7
<1>9. PICK b \in 1 .. n : f[b] = g[i]
  BY <1>1, <1>7
<1>10. i < a /\ i < b
  BY <1>1, <1>2, <1>7, <1>8, <1>9
<1>11. <<g[i], g[a]>> \in lt /\ <<f[i], f[b]>> \in lt
  BY <1>7, <1>8, <1>9, <1>10 DEF Along
<1>12. f[i] \in rs /\ g[i] \in rs
  BY <1>7
<1>13. QED
  BY <1>8, <1>9, <1>11, <1>12 DEF Orders

\* Rows whose keys can be compared.
Keyed(rs) ==
    /\ IsFiniteSet(rs)
    /\ \A r \in rs : r.created \in Nat /\ r.id \in Nat
    /\ \A r, o \in rs : r.id = o.id => r = o

\* ORDER BY (created_at, id) lists every row once, in order.
LEMMA OrderedIs ==
  ASSUME NEW rs, Keyed(rs)
  PROVE  LET n == Cardinality(rs)
             s == Ordered(rs, LAMBDA a, b : Precedes(KeyOf(a), KeyOf(b)))
         IN /\ n \in Nat /\ s \in [1 .. n -> rs]
            /\ \A i, j \in 1 .. n : i < j => Precedes(KeyOf(s[i]), KeyOf(s[j]))
            /\ \A r \in rs : \E i \in 1 .. n : s[i] = r
<1> DEFINE n == Cardinality(rs)
           s == Ordered(rs, LAMBDA a, b : Precedes(KeyOf(a), KeyOf(b)))
           lt == { p \in rs \X rs : Precedes(KeyOf(p[1]), KeyOf(p[2])) }
           Lists(f) == \A i, j \in 1 .. n : i < j => Precedes(KeyOf(f[i]), KeyOf(f[j]))
<1>1. \A a, b \in rs : <<a, b>> \in lt <=> Precedes(KeyOf(a), KeyOf(b))
  OBVIOUS
<1> HIDE DEF lt
<1>2. Orders(lt, rs)
  <2>1. \A a, b \in rs : /\ ~(Precedes(KeyOf(a), KeyOf(b)) /\ Precedes(KeyOf(b), KeyOf(a)))
                         /\ a # b => Precedes(KeyOf(a), KeyOf(b)) \/ Precedes(KeyOf(b), KeyOf(a))
    BY DEF Keyed, Precedes, KeyOf
  <2>2. \A a, b, c \in rs :
           Precedes(KeyOf(a), KeyOf(b)) /\ Precedes(KeyOf(b), KeyOf(c)) => Precedes(KeyOf(a), KeyOf(c))
    BY DEF Keyed, Precedes, KeyOf
  <2>3. QED
    BY <1>1, <2>1, <2>2 DEF Orders, Keyed
<1>3. n \in Nat /\ \E f \in [1 .. n -> rs] : Along(f, n, lt)
  BY <1>2, SomeOrder
<1> HIDE DEF n
<1>4. \A f \in [1 .. n -> rs] : Along(f, n, lt) <=> Lists(f)
  BY <1>1 DEF Along
<1>5. s = CHOOSE f \in [1 .. n -> rs] : Lists(f)
  BY DEF Ordered, n
<1> HIDE DEF s, Lists
<1>6. s \in [1 .. n -> rs] /\ Lists(s)
  BY <1>3, <1>4, <1>5
<1>7. \A r \in rs : \E i \in 1 .. n : s[i] = r
  <2>1. Along(s, n, lt) /\ n = Cardinality(rs)
    BY <1>4, <1>6 DEF n
  <2>2. OneToOne(s, n, rs)
    BY <1>2, <1>3, <1>6, <2>1, AlongOnto
  <2>3. QED
    BY <2>2 DEF OneToOne
<1>8. QED
  BY <1>3, <1>6, <1>7 DEF s, Lists, n

\* The lower bound of the window of a page.
From == IF export.cursor = NoCursor THEN 0 ELSE export.cursor[1]

\* What the consumer has still to read of the window it asked for.
Ahead == Exportable(rows, export.inst, From, export.to, export.cursor)

\* The smaller of two numbers.
LEMMA MinOfTwo ==
  ASSUME NEW a \in Nat, NEW b \in Nat
  PROVE  Min({a, b}) \in Nat /\ Min({a, b}) = IF a <= b THEN a ELSE b
  BY DEF Min

\* The rows of the table can be ordered by their keys.
LEMMA RowsKeyed ==
  ASSUME TableInv, NEW rs \in SUBSET rows
  PROVE  Keyed(rs)
<1>1. IsFiniteSet(rs)
  BY FS_Subset DEF TableInv, GoodRows
<1>2. scenario.id \in [Turns -> Nat]
  BY ExportConstants DEF TableInv, Turns, Turn, Injection
<1>3. QED
  BY <1>1, <1>2 DEF TableInv, GoodRows, Keyed

\* A page lists rows that are ahead, in order; a row it leaves out comes after
\* its last one.
LEMMA PageIs ==
  ASSUME TableInv, ExportInv, export.to # Null
  PROVE  /\ ExportPage \in Seq(Ahead)
         /\ \A i, j \in DOMAIN ExportPage :
               i < j => Precedes(KeyOf(ExportPage[i]), KeyOf(ExportPage[j]))
         /\ ExportPage # <<>> =>
               \A r \in Ahead :
                  \/ \E i \in DOMAIN ExportPage : ExportPage[i] = r
                  \/ Precedes(KeyOf(ExportPage[Len(ExportPage)]), KeyOf(r))
<1> DEFINE n == Cardinality(Ahead)
           s == Ordered(Ahead, LAMBDA a, b : Precedes(KeyOf(a), KeyOf(b)))
           found == SubSeq(s, 1, Min({PageLimit + 1, Len(s)}))
           page == SubSeq(found, 1, Min({PageLimit, Len(found)}))
<1>1. CASE From >= export.to
  <2>1. ExportPage = SubSeq(<<>>, 1, Min({PageLimit, Len(<<>>)}))
    BY <1>1 DEF ExportPage, From
  <2>2. Min({PageLimit, Len(<<>>)}) = 0
    <3>1. Len(<<>>) = 0
      OBVIOUS
    <3>2. QED
      BY <3>1, MinOfTwo, ExportConstants
  <2>3. ExportPage = <<>>
    BY <2>1, <2>2, SubSeqEmpty
  <2>4. QED
    BY <2>3
<1>2. CASE ~(From >= export.to)
  <2>1. ExportPage = page
    BY <1>2 DEF ExportPage, From, Ahead, GetRoutingDecisionsForExport
  <2>2. Keyed(Ahead)
    BY RowsKeyed DEF Ahead, Exportable, Upstream
  <2>3. /\ n \in Nat /\ s \in [1 .. n -> Ahead]
        /\ \A i, j \in 1 .. n : i < j => Precedes(KeyOf(s[i]), KeyOf(s[j]))
        /\ \A r \in Ahead : \E i \in 1 .. n : s[i] = r
    BY <2>2, OrderedIs
  <2> DEFINE k == Min({PageLimit + 1, n})
             l == Min({PageLimit, k})
  <2> HIDE DEF n, s
  <2>4. Len(s) = n
    BY <2>3
  <2>5. PageLimit \in Nat /\ PageLimit > 0
    BY ExportConstants
  <2>6. k \in 0 .. n /\ l \in 0 .. k /\ (l = 0 => n = 0)
    <3>1. k \in Nat /\ k = IF PageLimit + 1 <= n THEN PageLimit + 1 ELSE n
      BY <2>3, <2>5, MinOfTwo
    <3>2. l \in Nat /\ l = IF PageLimit <= k THEN PageLimit ELSE k
      BY <3>1, <2>5, MinOfTwo
    <3> HIDE DEF k, l
    <3>3. QED
      BY <3>1, <3>2, <2>3, <2>5
  <2>7. found = SubSeq(s, 1, k)
    BY <2>4
  <2>8. /\ Len(found) = k
        /\ \A i \in 1 .. k : found[i] = s[i] /\ found[i] \in Ahead
    <3> HIDE DEF k, found
    <3>1. \A i \in 1 .. k : s[i] \in Ahead
      BY <2>3, <2>6
    <3>2. /\ Len(SubSeq(s, 1, k)) = IF 1 <= k THEN k - 1 + 1 ELSE 0
          /\ \A i \in 1 .. k - 1 + 1 : SubSeq(s, 1, k)[i] = s[1 + i - 1]
      BY <3>1, <2>3, <2>6, SubSeqProperties
    <3>3. QED
      BY <3>1, <3>2, <2>3, <2>6, <2>7
  <2>9. page = SubSeq(found, 1, l)
    BY <2>8
  <2>10. /\ page \in Seq(Ahead) /\ Len(page) = l
         /\ \A i \in 1 .. l : page[i] = s[i]
    <3> HIDE DEF k, found, page, l
    <3>1. \A i \in 1 .. l : found[i] \in Ahead
      BY <2>3, <2>6, <2>8
    <3>2. /\ SubSeq(found, 1, l) \in Seq(Ahead)
          /\ Len(SubSeq(found, 1, l)) = IF 1 <= l THEN l - 1 + 1 ELSE 0
          /\ \A i \in 1 .. l - 1 + 1 : SubSeq(found, 1, l)[i] = found[1 + i - 1]
      BY <3>1, <2>3, <2>6, SubSeqProperties
    <3>3. QED
      BY <3>2, <2>3, <2>6, <2>8, <2>9
  <2> HIDE DEF k, found, page, l
  <2>11. DOMAIN page = 1 .. l
    BY <2>10, LenProperties
  <2>12. \A i, j \in DOMAIN page : i < j => Precedes(KeyOf(page[i]), KeyOf(page[j]))
    BY <2>3, <2>6, <2>10, <2>11
  <2>13. ASSUME page # <<>>, NEW r \in Ahead
         PROVE  \/ \E i \in DOMAIN page : page[i] = r
                \/ Precedes(KeyOf(page[Len(page)]), KeyOf(r))
    <3>1. l \in 1 .. n
      BY <2>3, <2>6, <2>10, <2>13, EmptySeq
    <3>2. PICK i \in 1 .. n : s[i] = r
      BY <2>3
    <3>3. CASE i <= l
      BY <3>2, <3>3, <2>3, <2>6, <2>10, <2>11
    <3>4. CASE i > l
      <4>1. Precedes(KeyOf(s[l]), KeyOf(s[i]))
        BY <3>1, <3>2, <3>4, <2>3
      <4>2. page[Len(page)] = s[l]
        BY <3>1, <2>3, <2>10
      <4>3. QED
        BY <4>1, <4>2, <3>2
    <3>5. QED
      BY <3>1, <3>2, <3>3, <3>4, <2>3
  <2>14. QED
    BY <2>1, <2>10, <2>12, <2>13
<1>3. QED
  BY <1>1, <1>2

ExportIInv == TableInv /\ ExportInv

\* The clock of the database lags by no more than Skew.
LEMMA LagIs ==
  ASSUME TableInv
  PROVE  /\ scenario.lag \in Nat /\ scenario.lag <= Skew /\ scenario.end \in Nat
         /\ scenario.id \in [Turns -> Nat]
         /\ \A t, u \in Turns : scenario.id[t] = scenario.id[u] => t = u
         /\ \A t \in Turns : Turn[t].kind \in {"served", "semantic", "auxiliary"}
         /\ Skew \in Nat /\ InsertTimeout \in Nat /\ Holdback \in Nat
         /\ InsertTimeout + Skew < Holdback
  BY ExportConstants DEF TableInv, Turns, Turn, Injection, IsInjective

\* Nothing is stored before anything is written.
LEMMA InitExport == Init => ExportIInv
<1> SUFFICES ASSUME Init PROVE ExportIInv
  OBVIOUS
<1> USE DEF Init, TelemetryInit
<1>1. TableInv
  <2>1. rows = {} /\ IsFiniteSet(rows)
    BY FS_EmptySet
  <2>2. now \in Nat /\ now >= Skew
    BY ExportConstants
  <2>3. QED
    BY <2>1, <2>2 DEF TableInv, GoodRows, Pending, TurnRecord, Phases
<1>2. export.got = <<>> /\ export.cursor = NoCursor /\ export.to = Null
      /\ export \in [inst : Insts \union {Null}, cursor : {NoCursor} \union (Nat \X Nat),
                     to : Int \union {Null}, got : Seq(Nat)]
  <2>1. <<>> \in Seq(Nat)
    OBVIOUS
  <2>2. export \in [ inst : IF scenario.reader = "export" THEN Insts ELSE {Null},
                     cursor : {NoCursor}, to : {Null}, got : {<<>>} ]
    OBVIOUS
  <2>3. QED
    BY <2>1, <2>2
<1>3. ExportInv
  <2>1. DOMAIN export.got = {} /\ Upstream(rows) = {}
    BY <1>2 DEF Upstream
  <2>2. QED
    BY <1>2, <2>1 DEF ExportInv
<1>4. QED
  BY <1>1, <1>3 DEF ExportIInv

\* A step of a turn that writes no row.
LEMMA TurnStepKeeps ==
  ASSUME TableInv, NEW t \in Turns, NEW n,
         turns' = [turns EXCEPT ![t] = n],
         UNCHANGED <<scenario, now, rows>>, turns[t].phase # "done",
         n \in TurnRecord,
         n.phase \in {"fired", "inserting"} => n.fired <= now /\ now <= n.fired + InsertTimeout,
         n.phase = "inserting" => n.created >= n.fired - scenario.lag
  PROVE  TableInv'
<1>1. Turns' = Turns
  BY DEF Turns, Turn
<1>2. turns \in [Turns -> TurnRecord]
  BY DEF TableInv
<1>3. turns' \in [Turns -> TurnRecord]
      /\ turns'[t] = n /\ \A u \in Turns \ {t} : turns'[u] = turns[u]
  BY <1>2
<1>4. GoodRows'
  BY <1>1, <1>3 DEF TableInv, GoodRows
<1>5. QED
  BY <1>1, <1>3, <1>4 DEF TableInv, Pending

\* The goroutine of a turn, up to its statement.
LEMMA TurnKeeps ==
  ASSUME TableInv, NEW t \in Turns,
         StartTurn(t) \/ FireTelemetry(t) \/ BeginInsert(t) \/ FailInsert(t)
  PROVE  TableInv'
<1>0. turns[t] \in TurnRecord
      /\ now \in Nat /\ now >= Skew
      /\ (turns[t].phase = "fired" => turns[t].fired <= now /\ now <= turns[t].fired + InsertTimeout)
  BY DEF TableInv, Pending
<1>1. CASE StartTurn(t)
  <2> DEFINE n == [turns[t] EXCEPT !.phase = "running", !.time = now]
  <2>1. turns' = [turns EXCEPT ![t] = n]
    BY <1>1 DEF StartTurn
  <2>2. n \in TurnRecord /\ n.phase = "running"
    BY <1>0 DEF TurnRecord, Phases
  <2> HIDE DEF n
  <2>3. QED
    BY <1>1, <2>1, <2>2, TurnStepKeeps DEF StartTurn
<1>2. CASE FireTelemetry(t)
  <2> DEFINE n == [turns[t] EXCEPT !.phase = "fired", !.fired = now,
                                   !.time = IF Turn[t].kind = "served" THEN @ ELSE now]
  <2>1. turns' = [turns EXCEPT ![t] = n]
    BY <1>2 DEF FireTelemetry
  <2>2. n \in TurnRecord
        /\ n.phase = "fired" /\ n.fired = now
    BY <1>0 DEF TurnRecord, Phases
  <2> HIDE DEF n
  <2>3. n.fired <= now /\ now <= n.fired + InsertTimeout
    BY <1>0, <2>2, LagIs
  <2>4. QED
    BY <1>2, <2>1, <2>2, <2>3, TurnStepKeeps DEF FireTelemetry
<1>3. CASE BeginInsert(t)
  <2> DEFINE n == [turns[t] EXCEPT !.phase = "inserting", !.created = now - scenario.lag]
  <2>1. turns' = [turns EXCEPT ![t] = n]
    BY <1>3 DEF BeginInsert
  <2>2. now - scenario.lag \in Nat
    BY <1>0, LagIs
  <2>3. n \in TurnRecord
        /\ n.phase = "inserting" /\ n.fired = turns[t].fired /\ n.created = now - scenario.lag
    BY <1>0, <2>2 DEF TurnRecord, Phases
  <2> HIDE DEF n
  <2>4. turns[t].phase = "fired" /\ n.fired <= now /\ now <= n.fired + InsertTimeout
    BY <1>0, <1>3, <2>3 DEF BeginInsert
  <2>5. n.fired \in Nat /\ n.created >= n.fired - scenario.lag
    BY <1>0, <2>3, <2>4, LagIs DEF TurnRecord
  <2>6. QED
    BY <1>3, <2>1, <2>3, <2>4, <2>5, TurnStepKeeps DEF BeginInsert
<1>4. CASE FailInsert(t)
  <2> DEFINE n == Settled(turns[t], "lost")
  <2>1. turns' = [turns EXCEPT ![t] = n]
    BY <1>4 DEF FailInsert
  <2>2. n \in TurnRecord /\ n.phase = "lost"
    BY <1>0 DEF TurnRecord, Phases, Settled
  <2> HIDE DEF n
  <2>3. QED
    BY <1>4, <2>1, <2>2, TurnStepKeeps DEF FailInsert
<1>5. QED
  BY <1>1, <1>2, <1>3, <1>4

\* The columns of a row that place it in the export.
LEMMA RowOfIs ==
  ASSUME TableInv, NEW t \in Turns
  PROVE  RowOf(t).req = t /\ RowOf(t).id = scenario.id[t] /\ RowOf(t).created = turns[t].created
<1>1. /\ ServedRow(t).req = t /\ ServedRow(t).id = scenario.id[t]
      /\ ServedRow(t).created = turns[t].created
  BY DEF ServedRow
<1>2. /\ SemanticRow(t).req = t /\ SemanticRow(t).id = scenario.id[t]
      /\ SemanticRow(t).created = turns[t].created
  BY DEF SemanticRow, ServedRow
<1>3. /\ AuxiliaryRow(t).req = t /\ AuxiliaryRow(t).id = scenario.id[t]
      /\ AuxiliaryRow(t).created = turns[t].created
  BY DEF AuxiliaryRow, ServedRow
<1>4. Turn[t].kind \in {"served", "semantic", "auxiliary"}
  BY LagIs
<1>5. RowOf(t) \in {ServedRow(t), SemanticRow(t), AuxiliaryRow(t)}
  BY <1>4 DEF RowOf
<1>6. QED
  BY <1>1, <1>2, <1>3, <1>5

\* A commit adds one row, with an id of its own, that is younger than Holdback.
LEMMA CommitAdds ==
  ASSUME TableInv, NEW t \in Turns, CommitInsert(t)
  PROVE  /\ rows' = rows \union {RowOf(t)}
         /\ \A r \in rows : r.id # RowOf(t).id
         /\ RowOf(t).created \in Nat /\ RowOf(t).created > now - Holdback
<1>1. turns[t].phase = "inserting" /\ turns[t].created \in Nat /\ turns[t].fired \in Nat /\ now \in Nat
      /\ now <= turns[t].fired + InsertTimeout /\ turns[t].created >= turns[t].fired - scenario.lag
  BY DEF CommitInsert, TableInv, Pending, TurnRecord
<1>2. \A r \in rows : r.req # t /\ r.req \in Turns /\ r.id = scenario.id[r.req]
  BY <1>1 DEF TableInv, GoodRows
<1>3. \A r \in rows : r.id # scenario.id[t]
  BY <1>2, LagIs
<1>4. rows' = rows \union {RowOf(t)}
  BY <1>2, RowOfIs DEF CommitInsert, InsertRequestTelemetry
<1>5. turns[t].created > now - Holdback
  BY <1>1, LagIs
<1>6. QED
  BY <1>1, <1>3, <1>4, <1>5, RowOfIs

\* The table after a commit.
LEMMA CommitKeepsTable ==
  ASSUME TableInv, NEW t \in Turns, CommitInsert(t)
  PROVE  TableInv'
<1> DEFINE n == Settled(turns[t], "done")
<1>1. Turns' = Turns /\ scenario' = scenario /\ now' = now
  BY DEF CommitInsert, Turns, Turn
<1>2. turns \in [Turns -> TurnRecord]
  BY DEF TableInv
<1>3. turns' = [turns EXCEPT ![t] = n]
  BY DEF CommitInsert
<1>4. n \in TurnRecord /\ n.phase = "done"
  BY <1>2 DEF TurnRecord, Settled, Phases
<1> HIDE DEF n
<1>5. turns' \in [Turns -> TurnRecord]
      /\ turns'[t].phase = "done" /\ \A u \in Turns \ {t} : turns'[u] = turns[u]
  BY <1>2, <1>3, <1>4
<1>6. GoodRows'
  <2>1. IsFiniteSet(rows')
    BY CommitAdds, FS_AddElement DEF TableInv, GoodRows
  <2>2. \A r \in rows' : /\ r.req \in Turns /\ r.id = scenario.id[r.req] /\ r.created \in Nat
                         /\ turns'[r.req].phase = "done"
    BY <1>5, CommitAdds, RowOfIs DEF TableInv, GoodRows
  <2>3. \A r, o \in rows' : r.id = o.id => r = o
    BY CommitAdds DEF TableInv, GoodRows
  <2>4. QED
    BY <1>1, <2>1, <2>2, <2>3 DEF GoodRows
<1>7. QED
  BY <1>1, <1>5, <1>6 DEF TableInv, Pending

\* A row that commits lands ahead of the cursor, whoever reads meanwhile.
LEMMA CommitKeepsExport ==
  ASSUME TableInv, ExportInv, NEW t \in Turns, CommitInsert(t)
  PROVE  ExportInv'
<1> DEFINE n == RowOf(t)
<1>0. UNCHANGED <<scenario, export, now>> /\ Insts' = Insts
  BY DEF CommitInsert, Insts, Turn, Turns
<1>1. /\ rows' = rows \union {n} /\ \A r \in rows : r.id # n.id
      /\ n.created \in Nat /\ n.created > now - Holdback
  BY CommitAdds
<1> HIDE DEF n
<1>2. now \in Nat /\ Holdback \in Nat
  BY LagIs DEF TableInv
<1>3. export.cursor # NoCursor => Precedes(export.cursor, KeyOf(n))
  <2> SUFFICES ASSUME export.cursor # NoCursor PROVE Precedes(export.cursor, KeyOf(n))
    OBVIOUS
  <2>1. export.cursor \in Nat \X Nat /\ export.cursor[1] < now - Holdback
    BY DEF ExportInv
  <2>2. KeyOf(n)[1] = n.created
    BY DEF KeyOf
  <2>3. export.cursor[1] \in Nat /\ export.cursor[1] < n.created
    BY <1>1, <1>2, <2>1
  <2>4. QED
    BY <2>2, <2>3 DEF Precedes
<1>4. Upstream(rows) \subseteq Upstream(rows') /\ Upstream(rows') \subseteq Upstream(rows) \union {n}
  BY <1>1 DEF Upstream
<1>5. \A i \in DOMAIN export.got : \E r \in Upstream(rows') :
         r.id = export.got[i] /\ r.inst = export.inst /\ ~Precedes(export.cursor, KeyOf(r))
  BY <1>4 DEF ExportInv
<1>6. \A i \in DOMAIN export.got : export.got[i] # n.id
  BY <1>1 DEF ExportInv, Upstream
<1>7. \A i, j \in DOMAIN export.got : \A r, o \in rows' :
         i < j /\ r.id = export.got[i] /\ o.id = export.got[j] => Precedes(KeyOf(r), KeyOf(o))
  BY <1>1, <1>6 DEF ExportInv
<1>8. \A r \in Upstream(rows') :
         r.inst = export.inst /\ export.cursor # NoCursor /\ ~Precedes(export.cursor, KeyOf(r)) =>
            Stored(r.id)
  BY <1>3, <1>4 DEF ExportInv
<1>9. QED
  BY <1>0, <1>5, <1>7, <1>8 DEF ExportInv, Stored

\* The clock: an insert is over when the goroutine's deadline passes.
LEMMA TickKeeps ==
  ASSUME TableInv, ExportInv, Tick
  PROVE  TableInv' /\ ExportInv'
<1>1. Turns' = Turns /\ Insts' = Insts /\ now' = now + 1 /\ now \in Nat
      /\ UNCHANGED <<scenario, turns, rows, export>>
  BY DEF Tick, Turns, Turn, TableInv, Insts
<1>2. TableInv'
  <2>1. \A t \in Turns : Pending(t) => turns[t].fired <= now + 1 /\ now + 1 <= turns[t].fired + InsertTimeout
    <3> SUFFICES ASSUME NEW t \in Turns, Pending(t)
                 PROVE  turns[t].fired <= now + 1 /\ now + 1 <= turns[t].fired + InsertTimeout
      OBVIOUS
    <3>1. turns[t].fired \in Nat /\ turns[t].fired <= now
      BY DEF TableInv, TurnRecord
    <3>2. now < turns[t].fired + InsertTimeout
      BY DEF Tick, Pending
    <3>3. QED
      BY <1>1, <3>1, <3>2, LagIs
  <2>2. GoodRows'
    BY <1>1 DEF TableInv, GoodRows
  <2>3. now' \in Nat /\ now' >= Skew
    BY <1>1, LagIs DEF TableInv
  <2>4. QED
    BY <1>1, <2>1, <2>2, <2>3 DEF TableInv, Pending
<1>3. ExportInv'
  <2>1. Holdback \in Nat
    BY LagIs
  <2>2. export.to # Null => export.to <= now' - Holdback
    BY <1>1, <2>1 DEF ExportInv
  <2>3. export.cursor # NoCursor => export.cursor[1] < now' - Holdback
    <3> SUFFICES ASSUME export.cursor # NoCursor PROVE export.cursor[1] < now' - Holdback
      OBVIOUS
    <3>1. export.cursor \in Nat \X Nat /\ export.cursor[1] < now - Holdback
      BY DEF ExportInv
    <3>2. export.cursor[1] \in Nat
      BY <3>1
    <3>3. QED
      BY <1>1, <2>1, <3>1, <3>2
  <2>4. QED
    BY <1>1, <2>2, <2>3 DEF ExportInv, Stored
<1>4. QED
  BY <1>2, <1>3

\* Keys, compared.
LEMMA KeyOrder ==
  ASSUME NEW a \in Nat \X Nat, NEW b \in Nat \X Nat, NEW c \in Nat \X Nat
  PROVE  /\ ~Precedes(a, b) /\ Precedes(a, c) => Precedes(b, c)
         /\ Precedes(a, b) => ~Precedes(b, a)
         /\ ~Precedes(a, a)
         /\ Precedes(a, b) => a[1] <= b[1]
         /\ ~Precedes(a, b) => b[1] <= a[1]
  BY DEF Precedes

\* The key of a row is a cursor, and never the cursor of the beginning.
LEMMA KeyIs ==
  ASSUME TableInv, NEW r \in rows
  PROVE  KeyOf(r) \in Nat \X Nat /\ KeyOf(r) # NoCursor /\ KeyOf(r)[1] = r.created /\ r.id \in Nat
<1>1. r.created \in Nat /\ r.id \in Nat
  BY LagIs DEF TableInv, GoodRows
<1>2. QED
  BY <1>1 DEF KeyOf, NoCursor

\* The consumer stores a page.
LEMMA PageKeeps ==
  ASSUME TableInv, ExportInv, export.to # Null, ExportPage # <<>>,
         export' = [export EXCEPT !.cursor = KeyOf(Last(ExportPage)), !.to = Null,
                                  !.got = @ \o [i \in DOMAIN ExportPage |-> ExportPage[i].id]],
         UNCHANGED <<scenario, now, rows>>
  PROVE  ExportInv'
<1> DEFINE page == ExportPage
           l == Len(page)
           ids == [i \in DOMAIN page |-> page[i].id]
           last == page[l]
           m == Len(export.got)
<1>1. /\ page \in Seq(Ahead)
      /\ \A i, j \in DOMAIN page : i < j => Precedes(KeyOf(page[i]), KeyOf(page[j]))
      /\ \A r \in Ahead : \/ \E i \in DOMAIN page : page[i] = r
                          \/ Precedes(KeyOf(page[Len(page)]), KeyOf(r))
  BY PageIs
<1>0. /\ export \in [inst : Insts \union {Null}, cursor : {NoCursor} \union (Nat \X Nat),
                     to : Int \union {Null}, got : Seq(Nat)]
      /\ export.to \in Int /\ export.to <= now - Holdback
  BY DEF ExportInv
<1>2. page # <<>> /\ Insts' = Insts
  BY DEF Insts, Turn, Turns
<1>3. export'.inst = export.inst /\ export'.to = Null /\ export'.got = export.got \o ids
      /\ export'.cursor = KeyOf(last)
  BY <1>0 DEF Last
<1>3a. export' \in [inst : {export.inst}, cursor : {KeyOf(last)}, to : {Null}, got : {export.got \o ids}]
  BY <1>0 DEF Last
<1> HIDE DEF page
<1>4. l \in Nat \ {0} /\ DOMAIN page = 1 .. l /\ (\A i \in 1 .. l : page[i] \in Ahead)
  BY <1>1, <1>2, LenProperties, EmptySeq
<1>5. \A r \in Ahead : /\ r \in rows /\ r \in Upstream(rows) /\ r.inst = export.inst
                       /\ r.created < export.to
                       /\ export.cursor # NoCursor => Precedes(export.cursor, KeyOf(r))
  BY DEF Ahead, Exportable, Upstream
<1>6. last \in Ahead /\ last \in rows
  BY <1>4, <1>5
<1>7. KeyOf(last) \in Nat \X Nat /\ KeyOf(last) # NoCursor /\ KeyOf(last)[1] < now - Holdback
  <2>1. KeyOf(last) \in Nat \X Nat /\ KeyOf(last) # NoCursor /\ KeyOf(last)[1] = last.created
    BY <1>6, KeyIs
  <2>2. last.created < export.to /\ last.created \in Nat
    BY <1>5, <1>6 DEF TableInv, GoodRows
  <2>3. now \in Nat /\ Holdback \in Nat
    BY LagIs DEF TableInv
  <2> HIDE DEF last
  <2>4. QED
    BY <2>1, <2>2, <2>3, <1>0
<1>8. ids \in Seq(Nat) /\ Len(ids) = l /\ \A i \in 1 .. l : ids[i] = page[i].id
  <2>1. \A i \in 1 .. l : page[i].id \in Nat
    BY <1>4, <1>5, KeyIs
  <2>2. ids = [i \in 1 .. l |-> page[i].id]
    BY <1>4
  <2> HIDE DEF l, ids
  <2>3. QED
    BY <2>1, <2>2, <1>4
<1> HIDE DEF ids, last, l
<1>9. m \in Nat /\ DOMAIN export.got = 1 .. m
  BY <1>0, LenProperties
<1>10. /\ export'.got \in Seq(Nat) /\ DOMAIN export'.got = 1 .. m + l
       /\ \A i \in 1 .. m : export'.got[i] = export.got[i]
       /\ \A i \in 1 .. l : export'.got[m + i] = page[i].id
       /\ \A i \in 1 .. m + l : i <= m \/ \E k \in 1 .. l : i = m + k /\ export'.got[i] = page[k].id
  <2>1. /\ export.got \o ids \in Seq(Nat) /\ Len(export.got \o ids) = m + l
        /\ \A i \in 1 .. m + l : (export.got \o ids)[i] = IF i <= m THEN export.got[i] ELSE ids[i - m]
    <3>1. export.got \in Seq(Nat)
      BY <1>0
    <3>2. /\ export.got \o ids \in Seq(Nat)
          /\ Len(export.got \o ids) = Len(export.got) + Len(ids)
          /\ \A i \in 1 .. Len(export.got) + Len(ids) :
                (export.got \o ids)[i] =
                   IF i <= Len(export.got) THEN export.got[i] ELSE ids[i - Len(export.got)]
      BY <3>1, <1>8, ConcatProperties
    <3>3. QED
      BY <3>2, <1>8
  <2>2. DOMAIN (export.got \o ids) = 1 .. m + l
    BY <2>1, LenProperties
  <2> HIDE DEF m
  <2>3. \A i \in 1 .. m : export'.got[i] = export.got[i]
    BY <2>1, <1>3, <1>4, <1>9
  <2>4. \A i \in 1 .. l : export'.got[m + i] = page[i].id
    <3> TAKE i \in 1 .. l
    <3>1. m + i \in 1 .. m + l /\ ~(m + i <= m) /\ (m + i) - m = i
      BY <1>4, <1>9
    <3>2. QED
      BY <2>1, <3>1, <1>3, <1>8
  <2>5. \A i \in 1 .. m + l : i <= m \/ \E k \in 1 .. l : i = m + k
    <3> TAKE i \in 1 .. m + l
    <3>1. CASE ~(i <= m)
      <4>1. i - m \in 1 .. l /\ i = m + (i - m)
        BY <3>1, <1>4, <1>9
      <4>2. QED
        BY <4>1
    <3>2. QED
      BY <3>1
  <2>6. QED
    BY <2>1, <2>2, <2>3, <2>4, <2>5, <1>3
<1> HIDE DEF m
<1>11. \A r \in rows : export.cursor # NoCursor /\ ~Precedes(export.cursor, KeyOf(r)) =>
           ~Precedes(KeyOf(last), KeyOf(r)) /\ \A o \in Ahead : Precedes(KeyOf(r), KeyOf(o))
  <2> SUFFICES ASSUME NEW r \in rows, export.cursor # NoCursor, ~Precedes(export.cursor, KeyOf(r))
               PROVE  ~Precedes(KeyOf(last), KeyOf(r)) /\ \A o \in Ahead : Precedes(KeyOf(r), KeyOf(o))
    OBVIOUS
  <2>1. export.cursor \in Nat \X Nat /\ KeyOf(r) \in Nat \X Nat
    BY <1>0, KeyIs
  <2>2. ASSUME NEW o \in Ahead PROVE KeyOf(o) \in Nat \X Nat /\ Precedes(KeyOf(r), KeyOf(o))
    <3>1. Precedes(export.cursor, KeyOf(o)) /\ KeyOf(o) \in Nat \X Nat
      BY <1>5, KeyIs
    <3>2. QED
      BY <2>1, <3>1, KeyOrder
  <2>3. ~Precedes(KeyOf(last), KeyOf(r))
    BY <1>6, <2>1, <2>2, KeyOrder
  <2>4. QED
    BY <2>2, <2>3
<1>12. \A i \in 1 .. m : \E r \in Upstream(rows) :
          r.id = export.got[i] /\ r.inst = export.inst /\ ~Precedes(export.cursor, KeyOf(r))
  BY <1>9 DEF ExportInv
<1>13. m # 0 => export.cursor # NoCursor
  BY <1>0, <1>9 DEF ExportInv, m
<1>14. \A i \in 1 .. l : ~Precedes(KeyOf(last), KeyOf(page[i]))
  <2> TAKE i \in 1 .. l
  <2>1. KeyOf(page[i]) \in Nat \X Nat
    BY <1>4, <1>5, KeyIs
  <2>2. CASE i = l
    BY <1>7, <2>2, KeyOrder DEF last
  <2>3. CASE i < l
    <3>1. Precedes(KeyOf(page[i]), KeyOf(last))
      BY <1>1, <1>4, <2>3 DEF last
    <3>2. QED
      BY <1>7, <2>1, <3>1, KeyOrder
  <2>4. QED
    BY <1>4, <2>2, <2>3
<1>15. \A i \in DOMAIN export'.got : \E r \in Upstream(rows) :
          r.id = export'.got[i] /\ r.inst = export.inst /\ ~Precedes(KeyOf(last), KeyOf(r))
  <2> SUFFICES ASSUME NEW i \in 1 .. m + l
               PROVE  \E r \in Upstream(rows) :
                         r.id = export'.got[i] /\ r.inst = export.inst /\ ~Precedes(KeyOf(last), KeyOf(r))
    BY <1>10
  <2>1. CASE i <= m
    <3>1. i \in 1 .. m /\ m # 0
      BY <1>4, <1>9, <2>1
    <3>2. PICK r \in Upstream(rows) :
             r.id = export.got[i] /\ r.inst = export.inst /\ ~Precedes(export.cursor, KeyOf(r))
      BY <1>12, <3>1
    <3>3. r \in rows
      BY DEF Upstream
    <3>4. QED
      BY <1>10, <1>11, <1>13, <3>1, <3>2, <3>3
  <2>2. CASE \E k \in 1 .. l : i = m + k /\ export'.got[i] = page[k].id
    <3>1. PICK k \in 1 .. l : export'.got[i] = page[k].id
      BY <2>2
    <3>2. page[k] \in Upstream(rows) /\ page[k].inst = export.inst
      BY <1>4, <1>5
    <3>3. QED
      BY <1>14, <3>1, <3>2
  <2>3. QED
    BY <1>10, <2>1, <2>2
<1>16. \A i, j \in DOMAIN export'.got : \A r, o \in rows :
          i < j /\ r.id = export'.got[i] /\ o.id = export'.got[j] => Precedes(KeyOf(r), KeyOf(o))
  <2> SUFFICES ASSUME NEW i \in 1 .. m + l, NEW j \in 1 .. m + l, NEW r \in rows, NEW o \in rows,
                      i < j, r.id = export'.got[i], o.id = export'.got[j]
               PROVE  Precedes(KeyOf(r), KeyOf(o))
    BY <1>10
  <2>0. \A x, y \in rows : x.id = y.id => x = y
    BY DEF TableInv, GoodRows
  <2>1. CASE j <= m
    <3>1. i \in 1 .. m /\ j \in 1 .. m
      BY <1>4, <1>9, <2>1
    <3>2. QED
      BY <1>9, <1>10, <3>1 DEF ExportInv
  <2>2. CASE i <= m /\ \E k \in 1 .. l : j = m + k /\ export'.got[j] = page[k].id
    <3>1. i \in 1 .. m /\ m # 0
      BY <1>4, <1>9, <2>2
    <3>2. PICK k \in 1 .. l : export'.got[j] = page[k].id
      BY <2>2
    <3>3. o = page[k] /\ o \in Ahead
      BY <1>4, <1>5, <2>0, <3>2
    <3>4. PICK x \in Upstream(rows) : x.id = export.got[i] /\ ~Precedes(export.cursor, KeyOf(x))
      BY <1>12, <3>1
    <3>5. x = r
      <4>1. r.id = export.got[i]
        BY <1>10, <3>1
      <4>2. x \in rows /\ x.id = r.id
        BY <3>4, <4>1 DEF Upstream
      <4>3. QED
        BY <2>0, <4>2
    <3>6. QED
      BY <1>11, <1>13, <3>1, <3>3, <3>4, <3>5
  <2>3. CASE /\ \E k \in 1 .. l : i = m + k /\ export'.got[i] = page[k].id
             /\ \E k \in 1 .. l : j = m + k /\ export'.got[j] = page[k].id
    <3>1. PICK h \in 1 .. l : i = m + h /\ export'.got[i] = page[h].id
      BY <2>3
    <3>2. PICK k \in 1 .. l : j = m + k /\ export'.got[j] = page[k].id
      BY <2>3
    <3>3. r = page[h] /\ o = page[k]
      BY <1>4, <1>5, <2>0, <3>1, <3>2
    <3>4. h < k
      BY <1>4, <1>9, <3>1, <3>2
    <3>5. QED
      BY <1>1, <1>4, <3>3, <3>4
  <2>4. ~(i <= m) => ~(j <= m)
    BY <1>4, <1>9
  <2>5. QED
    BY <1>10, <2>1, <2>2, <2>3, <2>4
<1>17. \A r \in Upstream(rows) :
          r.inst = export.inst /\ ~Precedes(KeyOf(last), KeyOf(r)) =>
             \E i \in DOMAIN export'.got : export'.got[i] = r.id
  <2> SUFFICES ASSUME NEW r \in Upstream(rows), r.inst = export.inst, ~Precedes(KeyOf(last), KeyOf(r))
               PROVE  \E i \in DOMAIN export'.got : export'.got[i] = r.id
    OBVIOUS
  <2>0. r \in rows /\ KeyOf(r) \in Nat \X Nat /\ KeyOf(r)[1] = r.created /\ r.created \in Nat
    BY KeyIs DEF Upstream, TableInv, GoodRows
  <2>1. CASE export.cursor # NoCursor /\ ~Precedes(export.cursor, KeyOf(r))
    <3>1. PICK i \in 1 .. m : export.got[i] = r.id
      BY <1>9, <2>1 DEF ExportInv, Stored
    <3>2. i \in 1 .. m + l
      BY <1>4, <1>9
    <3>3. QED
      BY <1>10, <3>1, <3>2
  <2>2. CASE ~(export.cursor # NoCursor /\ ~Precedes(export.cursor, KeyOf(r)))
    <3>1. r.created >= From
      <4>1. CASE export.cursor = NoCursor
        BY <2>0, <4>1 DEF From
      <4>2. CASE export.cursor # NoCursor
        <5>1. export.cursor \in Nat \X Nat /\ Precedes(export.cursor, KeyOf(r))
          BY <1>0, <2>2, <4>2
        <5>2. export.cursor[1] \in Nat /\ export.cursor[1] <= KeyOf(r)[1]
          BY <2>0, <5>1, KeyOrder
        <5>3. QED
          BY <2>0, <4>2, <5>2 DEF From
      <4>3. QED
        BY <4>1, <4>2
    <3>2. r.created < export.to
      <4>1. KeyOf(r)[1] <= KeyOf(last)[1]
        BY <1>7, <2>0, KeyOrder
      <4>2. KeyOf(last)[1] = last.created /\ last.created < export.to /\ last.created \in Nat
        BY <1>5, <1>6, KeyIs DEF TableInv, GoodRows
      <4>3. QED
        BY <1>0, <2>0, <4>1, <4>2
    <3>3. r \in Ahead
      BY <2>2, <3>1, <3>2 DEF Ahead, Exportable
    <3>4. PICK k \in 1 .. l : page[k] = r
      BY <1>1, <1>4, <3>3 DEF last, l
    <3>5. m + k \in 1 .. m + l /\ export'.got[m + k] = r.id
      <4>1. m + k \in 1 .. m + l
        BY <1>4, <1>9
      <4>2. export'.got[m + k] = page[k].id
        BY <1>10
      <4>3. QED
        BY <3>4, <4>1, <4>2
    <3>6. QED
      BY <1>10, <3>5
  <2>3. QED
    BY <2>1, <2>2
<1>18. export' \in [inst : Insts \union {Null}, cursor : {NoCursor} \union (Nat \X Nat),
                   to : Int \union {Null}, got : Seq(Nat)]
  BY <1>0, <1>3, <1>3a, <1>7, <1>10
<1>19. rows' = rows /\ now' = now
  OBVIOUS
<1>20. /\ export'.to # Null => export'.to <= now' - Holdback
       /\ export'.cursor = NoCursor => export'.got = <<>>
       /\ export'.cursor # NoCursor => export'.cursor[1] < now' - Holdback
  BY <1>3, <1>7, <1>19
<1>21. /\ \A i \in DOMAIN export'.got : \E r \in Upstream(rows') :
             r.id = export'.got[i] /\ r.inst = export'.inst /\ ~Precedes(export'.cursor, KeyOf(r))
       /\ \A i, j \in DOMAIN export'.got : \A r, o \in rows' :
             i < j /\ r.id = export'.got[i] /\ o.id = export'.got[j] => Precedes(KeyOf(r), KeyOf(o))
  <2>1. \A i \in DOMAIN export'.got : \E r \in Upstream(rows') :
           r.id = export'.got[i] /\ r.inst = export'.inst /\ ~Precedes(export'.cursor, KeyOf(r))
    BY <1>3, <1>15, <1>19, Zenon
  <2>2. \A i, j \in DOMAIN export'.got : \A r, o \in rows' :
           i < j /\ r.id = export'.got[i] /\ o.id = export'.got[j] => Precedes(KeyOf(r), KeyOf(o))
    BY <1>16, <1>19, Zenon
  <2>3. QED
    BY <2>1, <2>2
<1>22. \A r \in Upstream(rows') :
          r.inst = export'.inst /\ export'.cursor # NoCursor /\ ~Precedes(export'.cursor, KeyOf(r)) =>
             Stored(r.id)'
  BY <1>3, <1>17, <1>19 DEF Stored
<1>23. QED
  BY <1>2, <1>18, <1>20, <1>21, <1>22 DEF ExportInv

\* The reader of the export.
LEMMA ExportKeeps ==
  ASSUME TableInv, ExportInv, ExportBegin \/ ExportEnd
  PROVE  ExportInv'
<1>0. /\ UNCHANGED <<scenario, now, rows>> /\ Insts' = Insts
      /\ export \in [inst : Insts \union {Null}, cursor : {NoCursor} \union (Nat \X Nat),
                     to : Int \union {Null}, got : Seq(Nat)]
  BY DEF ExportBegin, ExportEnd, Insts, Turn, Turns, ExportInv
<1>1. ASSUME NEW to \in Int \union {Null}, to # Null => to <= now - Holdback,
             export' = [export EXCEPT !.to = to]
      PROVE  ExportInv'
  <2>1. /\ export'.inst = export.inst /\ export'.cursor = export.cursor
        /\ export'.to = to /\ export'.got = export.got
    BY <1>0, <1>1
  <2>2. export' \in [inst : Insts \union {Null}, cursor : {NoCursor} \union (Nat \X Nat),
                     to : Int \union {Null}, got : Seq(Nat)]
    BY <1>0, <1>1
  <2>3. rows' = rows /\ now' = now
    BY <1>0
  <2>4. QED
    BY <1>0, <1>1, <2>1, <2>2, <2>3 DEF ExportInv, Stored
<1>2. CASE ExportBegin
  <2>1. now - Holdback \in Int /\ now - Holdback <= now - Holdback
    BY LagIs DEF TableInv
  <2>2. QED
    BY <1>1, <1>2, <2>1 DEF ExportBegin
<1>3. CASE ExportEnd
  <2>1. CASE export' = [export EXCEPT !.to = Null]
    BY <1>1, <2>1
  <2>2. CASE export' = [export EXCEPT
                !.cursor = IF ExportPage = <<>> THEN @ ELSE KeyOf(Last(ExportPage)),
                !.to     = Null,
                !.got    = @ \o [i \in DOMAIN ExportPage |-> ExportPage[i].id]]
    <3>1. CASE ExportPage = <<>>
      <4>1. [i \in DOMAIN ExportPage |-> ExportPage[i].id] = <<>>
        BY <3>1
      <4>2. export.got \o <<>> = export.got
        BY <1>0, ConcatEmptySeq
      <4>3. export' = [export EXCEPT !.to = Null]
        BY <1>0, <2>2, <3>1, <4>1, <4>2
      <4>4. QED
        BY <2>1, <4>3
    <3>2. CASE ExportPage # <<>>
      <4>1. export' = [export EXCEPT
                !.cursor = KeyOf(Last(ExportPage)), !.to = Null,
                !.got = @ \o [i \in DOMAIN ExportPage |-> ExportPage[i].id]]
        BY <2>2, <3>2
      <4>2. export.to # Null
        BY <1>3 DEF ExportEnd
      <4>3. QED
        BY <1>0, <3>2, <4>1, <4>2, PageKeeps
    <3>3. QED
      BY <3>1, <3>2
  <2>3. QED
    BY <1>3, <2>1, <2>2 DEF ExportEnd
<1>4. QED
  BY <1>2, <1>3

\* What neither the table nor the consumer takes part in.
LEMMA ExportFrame ==
  ASSUME TableInv, ExportInv, UNCHANGED <<scenario, now, turns, rows>>
  PROVE  TableInv' /\ (export' = export => ExportInv')
<1>1. Turns' = Turns /\ Insts' = Insts
  BY DEF Turns, Turn, Insts
<1>2. TableInv'
  BY <1>1 DEF TableInv, GoodRows, Pending
<1>3. ASSUME export' = export PROVE ExportInv'
  BY <1>1, <1>3 DEF ExportInv, Stored
<1>4. QED
  BY <1>2, <1>3

\* A step of a turn that writes no row leaves the consumer alone.
LEMMA TurnKeepsExport ==
  ASSUME ExportInv, NEW t \in Turns,
         StartTurn(t) \/ FireTelemetry(t) \/ BeginInsert(t) \/ FailInsert(t)
  PROVE  ExportInv'
<1>1. UNCHANGED <<scenario, now, rows, export>> /\ Insts' = Insts
  BY DEF StartTurn, FireTelemetry, BeginInsert, FailInsert, Insts, Turn, Turns
<1>2. QED
  BY <1>1 DEF ExportInv, Stored

\* Every step keeps the invariant.
LEMMA NextExport == ExportIInv /\ [Next]_vars => ExportIInv'
<1> SUFFICES ASSUME TableInv, ExportInv, [Next]_vars PROVE TableInv' /\ ExportInv'
  BY DEF ExportIInv
<1>1. CASE TurnNext
  <2>1. ASSUME NEW t \in Turns, StartTurn(t) \/ FireTelemetry(t) \/ BeginInsert(t) \/ FailInsert(t)
        PROVE  TableInv' /\ ExportInv'
    BY <2>1, TurnKeeps, TurnKeepsExport
  <2>2. ASSUME NEW t \in Turns, CommitInsert(t)
        PROVE  TableInv' /\ ExportInv'
    BY <2>2, CommitKeepsTable, CommitKeepsExport
  <2>3. CASE Tick
    BY <2>3, TickKeeps
  <2>4. QED
    BY <1>1, <2>1, <2>2, <2>3 DEF TurnNext
<1>2. CASE ReaderNext
  <2>1. UNCHANGED <<scenario, now, turns, rows>>
    BY <1>2 DEF ReaderNext, ExportBegin, ExportEnd, SavingsRead, SummaryRead, RouterFeedback
  <2>2. export' = export \/ ExportBegin \/ ExportEnd
    BY <1>2 DEF ReaderNext, SavingsRead, SummaryRead, RouterFeedback
  <2>3. QED
    BY <2>1, <2>2, ExportFrame, ExportKeeps
<1>3. CASE UNCHANGED telemetryVars
  BY <1>3, ExportFrame DEF telemetryVars
<1>4. QED
  BY <1>1, <1>2, <1>3 DEF Next, vars

\* A consumer of the analytics export that follows its cursors stores every
\* row of its installation once and in order, whatever the insert goroutines
\* and the retries of a page do, for any number of turns and any page size
\* (analytics/service.go ExportRoutingDecisions).
THEOREM ExportIsExactlyOnce == Spec => []ExportExactlyOnce
<1>1. ExportIInv => ExportExactlyOnce
  <2> SUFFICES ASSUME TableInv, ExportInv PROVE ExportExactlyOnce
    BY DEF ExportIInv
  <2> DEFINE row(id) == CHOOSE r \in rows : r.id = id
  <2>1. \A i \in DOMAIN export.got : \E r \in rows : r.id = export.got[i]
    BY DEF ExportInv, Upstream
  <2>2. \A i \in DOMAIN export.got : row(export.got[i]) \in rows /\ row(export.got[i]).id = export.got[i]
    BY <2>1
  <2> HIDE DEF row
  <2>3. \A i, j \in DOMAIN export.got : i < j =>
           Precedes(KeyOf(row(export.got[i])), KeyOf(row(export.got[j])))
    BY <2>2 DEF ExportInv
  <2>4. /\ \A i \in DOMAIN export.got :
              \E r \in Upstream(rows) : r.id = export.got[i] /\ r.inst = export.inst
        /\ \A r \in Upstream(rows) :
              r.inst = export.inst /\ export.cursor # NoCursor /\ ~Precedes(export.cursor, KeyOf(r)) =>
                 \E i \in DOMAIN export.got : export.got[i] = r.id
    BY DEF ExportInv, Stored
  <2>5. QED
    BY <2>3, <2>4 DEF ExportExactlyOnce, row
<1>2. QED
  BY <1>1, InitExport, NextExport, PTL DEF Spec

-----------------------------------------------------------------------------
(* Feedback.  FeedInv: the answers of a session reached the client in the   *)
(* order of the event times, a turn that is done has its row, and a row     *)
(* says of its turn what the feedback command asks.                         *)

\* A turn of the session whose answer the client has.
Delivered(t) == Main(t) /\ turns[t].phase \in {"fired", "inserting", "done", "lost"}

\* What the statements of the feedback command read of a row.
Faithful(r) ==
    /\ r.time = turns[r.req].time /\ r.inst = Turn[r.req].inst
    /\ r.span = "upstream" <=> Main(r.req)
    /\ Main(r.req) => r.key = Turn[r.req].key /\ r.turn = "main_loop"
    /\ Turn[r.req].kind = "served" => r.strategy = Turn[r.req].strategy

ShownInv ==
    /\ shown \in Seq(Turns)
    /\ \A i \in DOMAIN shown : Delivered(shown[i])
    /\ \A t \in Turns : Delivered(t) => \E i \in DOMAIN shown : shown[i] = t
    /\ \A i, j \in DOMAIN shown :
          i < j /\ Turn[shown[i]].key = Turn[shown[j]].key => turns[shown[i]].time < turns[shown[j]].time
    /\ \A i, j \in DOMAIN shown : shown[i] = shown[j] => i = j

\* A running turn is the latest of its session.
SessionInv ==
    /\ \A t \in Turns : turns[t].phase # "idle" => turns[t].time <= now
    /\ \A t, o \in Turns :
          /\ Main(t) /\ Main(o) /\ Turn[t].key = Turn[o].key /\ t # o
          /\ turns[t].phase = "running" /\ turns[o].phase # "idle"
          => turns[o].phase # "running" /\ turns[o].time < turns[t].time

LedgerInv ==
    /\ \A r \in rows : Faithful(r)
    /\ \A t \in Turns : turns[t].phase = "done" => \E r \in rows : r.req = t

\* A report names the strategy of the turn.
ToldInv ==
    /\ feedback = [thumbs |-> feedback.thumbs, told |-> feedback.told, last |-> feedback.last]
    /\ \A m \in feedback.told :
          m.req # Null /\ Turn[m.req].kind = "served" /\ Turn[m.req].strategy # Null =>
             m.strategy = Turn[m.req].strategy

FeedInv == ShownInv /\ SessionInv /\ LedgerInv /\ ToldInv


\* No turn has begun.
LEMMA InitFeed == Init => FeedInv
<1> SUFFICES ASSUME Init PROVE FeedInv
  OBVIOUS
<1>1. /\ shown = <<>> /\ rows = {} /\ feedback.told = {}
      /\ feedback = [thumbs |-> feedback.thumbs, told |-> feedback.told, last |-> feedback.last]
      /\ \A t \in Turns : turns[t].phase = "idle"
  BY DEF Init, TelemetryInit
<1>2. shown \in Seq(Turns) /\ DOMAIN shown = {}
  BY <1>1
<1>3. QED
  BY <1>1, <1>2 DEF FeedInv, ShownInv, SessionInv, LedgerInv, ToldInv, Delivered

\* What the parts of FeedInv that are about turns depend on.
LEMMA FeedFrame ==
  ASSUME UNCHANGED scenario
  PROVE  Turn' = Turn /\ Turns' = Turns /\ \A t : Main(t)' <=> Main(t)
  BY DEF Turn, Turns, Main

\* A step after the answer: the turn keeps its time and stays delivered.
LEMMA LateStepKeeps ==
  ASSUME TableInv, ShownInv, SessionInv, NEW t \in Turns, NEW n \in TurnRecord,
         turns' = [turns EXCEPT ![t] = n], n.time = turns[t].time,
         turns[t].phase \in {"fired", "inserting"}, n.phase \in {"inserting", "done", "lost"},
         UNCHANGED <<scenario, now, shown>>
  PROVE  ShownInv' /\ SessionInv'
<1>1. turns \in [Turns -> TurnRecord]
  BY DEF TableInv
<1>2. turns'[t] = n /\ \A u \in Turns \ {t} : turns'[u] = turns[u]
  BY <1>1
<1>3. \A u \in Turns : turns'[u].time = turns[u].time
  BY <1>2
<1>4. \A u \in Turns : Delivered(u)' <=> Delivered(u)
  BY <1>2, FeedFrame DEF Delivered
<1>5. ShownInv'
  <2>1. shown \in Seq(Turns) /\ \A i \in DOMAIN shown : shown[i] \in Turns
    BY DEF ShownInv
  <2>2. \A i, j \in DOMAIN shown :
          i < j /\ Turn[shown[i]].key = Turn[shown[j]].key => turns'[shown[i]].time < turns'[shown[j]].time
    BY <1>3, <2>1 DEF ShownInv
  <2>3. QED
    BY <1>4, <2>1, <2>2, FeedFrame DEF ShownInv
<1>6. SessionInv'
  BY <1>2, <1>3, FeedFrame DEF SessionInv
<1>7. QED
  BY <1>5, <1>6

\* The start of a turn: the session has no other under way.
LEMMA StartKeeps ==
  ASSUME TableInv, ShownInv, SessionInv, NEW t \in Turns, StartTurn(t)
  PROVE  ShownInv' /\ SessionInv'
<1>1. turns \in [Turns -> TurnRecord] /\ now \in Nat
  BY DEF TableInv
<1>2. /\ turns[t].phase = "idle"
      /\ \A o \in Turns : Turn[o].key = Turn[t].key /\ Main(o) /\ turns[o].phase # "idle" =>
            turns[o].phase # "running" /\ turns[o].time < now
      /\ UNCHANGED <<scenario, now, shown>>
  BY DEF StartTurn
<1>3. /\ turns'[t].phase = "running" /\ turns'[t].time = now
      /\ \A u \in Turns \ {t} : turns'[u] = turns[u]
  BY <1>1 DEF StartTurn, TurnRecord
<1>4. \A u \in Turns : Delivered(u)' <=> Delivered(u)
  BY <1>2, <1>3, FeedFrame DEF Delivered
<1>5. ShownInv'
  <2>1. /\ shown \in Seq(Turns)
        /\ \A i \in DOMAIN shown : shown[i] \in Turns /\ Delivered(shown[i]) /\ shown[i] # t
    BY <1>2 DEF ShownInv, Delivered
  <2>2. \A i, j \in DOMAIN shown :
          i < j /\ Turn[shown[i]].key = Turn[shown[j]].key => turns'[shown[i]].time < turns'[shown[j]].time
    BY <1>3, <2>1 DEF ShownInv
  <2>3. QED
    BY <1>2, <1>4, <2>1, <2>2, FeedFrame DEF ShownInv
<1>6. SessionInv'
  <2>1. \A u \in Turns : turns'[u].phase # "idle" => turns'[u].time <= now
    BY <1>1, <1>3 DEF SessionInv
  <2>2. ASSUME NEW u \in Turns, NEW o \in Turns,
               Main(u), Main(o), Turn[u].key = Turn[o].key, u # o,
               turns'[u].phase = "running", turns'[o].phase # "idle"
        PROVE  turns'[o].phase # "running" /\ turns'[o].time < turns'[u].time
    <3>1. CASE u = t
      BY <1>2, <1>3, <2>2, <3>1
    <3>2. CASE o = t
      BY <1>2, <1>3, <2>2, <3>2
    <3>3. CASE u # t /\ o # t
      BY <1>3, <2>2, <3>3 DEF SessionInv
    <3>4. QED
      BY <3>1, <3>2, <3>3
  <2>3. QED
    BY <1>2, <2>1, <2>2, FeedFrame DEF SessionInv
<1>7. QED
  BY <1>5, <1>6

\* The answer: the turn is the latest of its session that the client has seen.
LEMMA FireKeeps ==
  ASSUME TableInv, ShownInv, SessionInv, NEW t \in Turns, FireTelemetry(t)
  PROVE  ShownInv' /\ SessionInv'
<1>1. turns \in [Turns -> TurnRecord] /\ now \in Nat /\ turns[t].time <= now
      /\ turns[t].phase = "running" /\ turns[t].time \in Nat /\ UNCHANGED <<scenario, now>>
  BY DEF TableInv, SessionInv, FireTelemetry, TurnRecord
<1>2. /\ turns'[t].phase = "fired" /\ turns'[t].time \in {turns[t].time, now}
      /\ \A u \in Turns \ {t} : turns'[u] = turns[u]
  BY <1>1 DEF FireTelemetry, TurnRecord
<1>3. turns'[t].time \in Nat /\ turns'[t].time <= now /\ turns[t].time <= turns'[t].time
  BY <1>1, <1>2
<1>4. \A o \in Turns : Main(t) /\ Main(o) /\ Turn[t].key = Turn[o].key /\ t # o /\ turns[o].phase # "idle"
         => turns[o].phase # "running" /\ turns[o].time < turns'[t].time /\ turns[o].time \in Nat
  <2> TAKE o \in Turns
  <2>1. turns[o].time \in Nat
    BY <1>1 DEF TurnRecord
  <2>2. QED
    BY <1>1, <1>3, <2>1 DEF SessionInv
<1>5. SessionInv'
  <2>1. \A u \in Turns : turns'[u].phase # "idle" => turns'[u].time <= now
    BY <1>2, <1>3 DEF SessionInv
  <2>2. ASSUME NEW u \in Turns, NEW o \in Turns,
               Main(u), Main(o), Turn[u].key = Turn[o].key, u # o,
               turns'[u].phase = "running", turns'[o].phase # "idle"
        PROVE  turns'[o].phase # "running" /\ turns'[o].time < turns'[u].time
    <3>1. u # t /\ turns'[u] = turns[u]
      BY <1>2, <2>2
    <3>2. o # t
      <4>1. SUFFICES ASSUME o = t PROVE FALSE
        OBVIOUS
      <4>2. turns[u].phase = "running"
        BY <2>2, <3>1
      <4>3. QED
        BY <1>4, <2>2, <3>1, <4>1, <4>2
    <3>3. QED
      BY <1>2, <2>2, <3>1, <3>2 DEF SessionInv
  <2>3. QED
    BY <1>1, <2>1, <2>2, FeedFrame DEF SessionInv
<1>6. /\ shown \in Seq(Turns)
      /\ \A i \in DOMAIN shown : shown[i] \in Turns /\ Delivered(shown[i]) /\ shown[i] # t
      /\ \A i \in DOMAIN shown : turns'[shown[i]] = turns[shown[i]]
  <2>1. /\ shown \in Seq(Turns)
        /\ \A i \in DOMAIN shown : shown[i] \in Turns /\ Delivered(shown[i])
    BY DEF ShownInv
  <2>2. ~Delivered(t)
    BY <1>1 DEF Delivered
  <2>3. QED
    BY <1>2, <2>1, <2>2
<1> DEFINE Now(u) == Main(u) /\ turns'[u].phase \in {"fired", "inserting", "done", "lost"}
<1>7. \A u \in Turns : Now(u) <=> Delivered(u) \/ (u = t /\ Main(t))
  BY <1>1, <1>2 DEF Delivered
<1> HIDE DEF Now
<1>8. CASE ~Main(t)
  <2>1. shown' = shown
    BY <1>8 DEF FireTelemetry
  <2>2. \A i, j \in DOMAIN shown :
          i < j /\ Turn[shown[i]].key = Turn[shown[j]].key => turns'[shown[i]].time < turns'[shown[j]].time
    BY <1>6 DEF ShownInv
  <2>3. ShownInv'
    BY <1>1, <1>6, <1>7, <1>8, <2>1, <2>2, FeedFrame DEF ShownInv, Delivered, Now
  <2>4. QED
    BY <1>5, <2>3
<1>9. CASE Main(t)
  <2> DEFINE m == Len(shown)
             q == Append(shown, t)
  <2>1. shown' = q
    BY <1>9 DEF FireTelemetry
  <2>2. /\ q \in Seq(Turns) /\ m \in Nat /\ DOMAIN shown = 1 .. m /\ DOMAIN q = 1 .. m + 1
        /\ q[m + 1] = t /\ \A i \in 1 .. m : q[i] = shown[i]
        /\ \A i \in 1 .. m + 1 : i = m + 1 \/ i \in 1 .. m
    BY <1>6
  <2> HIDE DEF m, q
  <2>3. \A i \in DOMAIN q : Now(q[i])
    <3> SUFFICES ASSUME NEW i \in DOMAIN q PROVE Now(q[i])
      OBVIOUS
    <3>1. CASE i = m + 1
      BY <1>7, <1>9, <2>2, <3>1
    <3>2. CASE i \in 1 .. m
      BY <1>6, <1>7, <2>2, <3>2
    <3>3. QED
      BY <2>2, <3>1, <3>2
  <2>4. \A u \in Turns : Now(u) => \E i \in DOMAIN q : q[i] = u
    <3> SUFFICES ASSUME NEW u \in Turns, Now(u) PROVE \E i \in DOMAIN q : q[i] = u
      OBVIOUS
    <3>1. CASE u = t
      <4>1. m + 1 \in DOMAIN q
        BY <2>2
      <4>2. QED
        BY <2>2, <3>1, <4>1
    <3>2. CASE Delivered(u)
      <4>1. PICK i \in DOMAIN shown : shown[i] = u
        BY <3>2 DEF ShownInv
      <4>2. i \in DOMAIN q /\ q[i] = u
        BY <2>2, <4>1
      <4>3. QED
        BY <4>2
    <3>3. QED
      BY <1>7, <3>1, <3>2
  <2>5. ASSUME NEW i \in DOMAIN q, NEW j \in DOMAIN q, i < j, Turn[q[i]].key = Turn[q[j]].key
        PROVE  turns'[q[i]].time < turns'[q[j]].time
    <3>1. i \in 1 .. m
      BY <2>2, <2>5
    <3>2. q[i] = shown[i] /\ shown[i] \in Turns /\ Delivered(shown[i]) /\ shown[i] # t
          /\ turns'[shown[i]] = turns[shown[i]]
      BY <1>6, <2>2, <3>1
    <3>3. CASE j = m + 1
      <4>1. q[j] = t
        BY <2>2, <3>3
      <4>2. Main(shown[i]) /\ turns[shown[i]].phase # "idle"
        BY <3>2 DEF Delivered
      <4>3. turns[shown[i]].time < turns'[t].time
        BY <1>4, <1>9, <2>5, <3>2, <4>1, <4>2
      <4>4. QED
        BY <3>2, <4>1, <4>3
    <3>4. CASE j \in 1 .. m
      BY <1>6, <2>2, <2>5, <3>1, <3>2, <3>4 DEF ShownInv
    <3>5. QED
      BY <2>2, <3>3, <3>4
  <2>6. \A i, j \in DOMAIN q : q[i] = q[j] => i = j
    <3> SUFFICES ASSUME NEW i \in DOMAIN q, NEW j \in DOMAIN q, q[i] = q[j] PROVE i = j
      OBVIOUS
    <3>1. CASE i \in 1 .. m /\ j \in 1 .. m
      BY <2>2, <3>1 DEF ShownInv
    <3>2. CASE i \in 1 .. m /\ j = m + 1
      BY <1>6, <2>2, <3>2
    <3>3. CASE i = m + 1 /\ j \in 1 .. m
      BY <1>6, <2>2, <3>3
    <3>4. QED
      BY <2>2, <3>1, <3>2, <3>3
  <2>7. ShownInv'
    BY <1>1, <2>1, <2>2, <2>3, <2>4, <2>5, <2>6, FeedFrame DEF ShownInv, Delivered, Main, Now
  <2>8. QED
    BY <1>5, <2>7
<1>10. QED
  BY <1>8, <1>9

\* A step of a turn that is not done, and does not end there, leaves the rows
\* and their turns alone.
LEMMA LedgerKeeps ==
  ASSUME TableInv, LedgerInv, NEW t \in Turns, NEW n \in TurnRecord,
         turns' = [turns EXCEPT ![t] = n], turns[t].phase # "done", n.phase # "done",
         UNCHANGED <<scenario, rows>>
  PROVE  LedgerInv'
<1>1. turns \in [Turns -> TurnRecord]
  BY DEF TableInv
<1>2. turns'[t] = n /\ \A u \in Turns \ {t} : turns'[u] = turns[u]
  BY <1>1
<1>3. \A r \in rows : r.req \in Turns /\ turns[r.req].phase = "done"
  BY DEF TableInv, GoodRows
<1>4. \A r \in rows : turns'[r.req] = turns[r.req]
  BY <1>2, <1>3
<1>5. \A r \in rows : Faithful(r)'
  BY <1>4, FeedFrame DEF LedgerInv, Faithful
<1>6. \A u \in Turns : turns'[u].phase = "done" => \E r \in rows : r.req = u
  BY <1>2 DEF LedgerInv
<1>7. QED
  BY <1>5, <1>6, FeedFrame DEF LedgerInv

\* The row of a turn says of it what it should.
LEMMA RowOfFaithful ==
  ASSUME TableInv, NEW t \in Turns
  PROVE  /\ RowOf(t).req = t /\ RowOf(t).time = turns[t].time /\ RowOf(t).inst = Turn[t].inst
         /\ RowOf(t).span = "upstream" <=> Main(t)
         /\ Main(t) => RowOf(t).key = Turn[t].key /\ RowOf(t).turn = "main_loop"
         /\ Turn[t].kind = "served" => RowOf(t).strategy = Turn[t].strategy
<1>1. CASE Turn[t].kind = "served"
  BY <1>1 DEF RowOf, ServedRow, Main
<1>2. CASE Turn[t].kind = "semantic"
  BY <1>2 DEF RowOf, ServedRow, SemanticRow, Main
<1>3. CASE Turn[t].kind = "auxiliary"
  BY <1>3 DEF RowOf, ServedRow, AuxiliaryRow, Main
<1>4. QED
  BY <1>1, <1>2, <1>3, LagIs

\* A turn that is done has its row.
LEMMA CommitKeepsLedger ==
  ASSUME TableInv, LedgerInv, NEW t \in Turns, CommitInsert(t)
  PROVE  LedgerInv'
<1> DEFINE n == Settled(turns[t], "done")
<1>1. turns \in [Turns -> TurnRecord] /\ turns[t].phase = "inserting" /\ scenario' = scenario
  BY DEF TableInv, CommitInsert
<1>2. turns' = [turns EXCEPT ![t] = n]
  BY DEF CommitInsert
<1>3. n.time = turns[t].time /\ n.phase = "done"
  BY <1>1 DEF Settled, TurnRecord
<1> HIDE DEF n
<1>4. turns'[t] = n /\ \A u \in Turns \ {t} : turns'[u] = turns[u]
  BY <1>1, <1>2
<1>5. rows' = rows \union {RowOf(t)}
  BY CommitAdds
<1>6. \A r \in rows : r.req \in Turns /\ r.req # t
  BY <1>1 DEF TableInv, GoodRows
<1>7. \A r \in rows : Faithful(r)'
  <2> TAKE r \in rows
  <2>1. turns'[r.req] = turns[r.req]
    BY <1>4, <1>6
  <2>2. QED
    BY <1>1, <2>1, FeedFrame DEF LedgerInv, Faithful
<1>8. /\ RowOf(t).req = t /\ RowOf(t).time = turns'[t].time /\ RowOf(t).inst = Turn[t].inst
      /\ RowOf(t).span = "upstream" <=> Main(t)
      /\ Main(t) => RowOf(t).key = Turn[t].key /\ RowOf(t).turn = "main_loop"
      /\ Turn[t].kind = "served" => RowOf(t).strategy = Turn[t].strategy
  BY <1>3, <1>4, RowOfFaithful
<1>9. \A r \in rows' : Faithful(r)'
  <2> SUFFICES ASSUME NEW r \in rows' PROVE Faithful(r)'
    OBVIOUS
  <2>1. CASE r = RowOf(t)
    BY <1>1, <1>8, <2>1, FeedFrame DEF Faithful
  <2>2. QED
    BY <1>5, <1>7, <2>1
<1>10. \A u \in Turns : turns'[u].phase = "done" => \E r \in rows' : r.req = u
  BY <1>4, <1>5, <1>8 DEF LedgerInv
<1>11. QED
  BY <1>1, <1>9, <1>10, FeedFrame DEF LedgerInv

\* The steps of the turns.
LEMMA TurnNextKeepsFeed ==
  ASSUME TableInv, FeedInv, TurnNext
  PROVE  FeedInv'
<1>0. ShownInv /\ SessionInv /\ LedgerInv /\ ToldInv
  BY DEF FeedInv
<1>1. UNCHANGED <<scenario, feedback>>
  BY DEF TurnNext, StartTurn, FireTelemetry, BeginInsert, CommitInsert, FailInsert, Tick
<1>2. ToldInv'
  BY <1>0, <1>1, FeedFrame DEF ToldInv
<1>3. turns \in [Turns -> TurnRecord]
  BY DEF TableInv
<1>4. ASSUME NEW t \in Turns, StartTurn(t)
      PROVE  ShownInv' /\ SessionInv' /\ LedgerInv'
  <2> DEFINE n == [turns[t] EXCEPT !.phase = "running", !.time = now]
  <2>1. n \in TurnRecord /\ n.phase = "running" /\ turns' = [turns EXCEPT ![t] = n]
    BY <1>3, <1>4 DEF StartTurn, TableInv, TurnRecord, Phases
  <2> HIDE DEF n
  <2>2. LedgerInv'
    BY <1>0, <1>4, <2>1, LedgerKeeps DEF StartTurn
  <2>3. QED
    BY <1>0, <1>4, <2>2, StartKeeps
<1>5. ASSUME NEW t \in Turns, FireTelemetry(t)
      PROVE  ShownInv' /\ SessionInv' /\ LedgerInv'
  <2> DEFINE n == [turns[t] EXCEPT !.phase = "fired", !.fired = now,
                                   !.time = IF Turn[t].kind = "served" THEN @ ELSE now]
  <2>1. n \in TurnRecord /\ n.phase = "fired" /\ turns' = [turns EXCEPT ![t] = n]
    BY <1>3, <1>5 DEF FireTelemetry, TableInv, TurnRecord, Phases
  <2> HIDE DEF n
  <2>2. LedgerInv'
    BY <1>0, <1>5, <2>1, LedgerKeeps DEF FireTelemetry
  <2>3. QED
    BY <1>0, <1>5, <2>2, FireKeeps
<1>6. ASSUME NEW t \in Turns, BeginInsert(t)
      PROVE  ShownInv' /\ SessionInv' /\ LedgerInv'
  <2> DEFINE n == [turns[t] EXCEPT !.phase = "inserting", !.created = now - scenario.lag]
  <2>0. now - scenario.lag \in Nat
    BY LagIs DEF TableInv
  <2>1. n \in TurnRecord /\ n.phase = "inserting" /\ n.time = turns[t].time
        /\ turns' = [turns EXCEPT ![t] = n]
    BY <1>3, <1>6, <2>0 DEF BeginInsert, TurnRecord, Phases
  <2> HIDE DEF n
  <2>2. LedgerInv'
    BY <1>0, <1>6, <2>1, LedgerKeeps DEF BeginInsert
  <2>3. QED
    BY <1>0, <1>6, <2>1, <2>2, LateStepKeeps DEF BeginInsert
<1>7. ASSUME NEW t \in Turns, FailInsert(t)
      PROVE  ShownInv' /\ SessionInv' /\ LedgerInv'
  <2> DEFINE n == Settled(turns[t], "lost")
  <2>1. n \in TurnRecord /\ n.phase = "lost" /\ n.time = turns[t].time
        /\ turns' = [turns EXCEPT ![t] = n]
    BY <1>3, <1>7 DEF FailInsert, TurnRecord, Phases, Settled
  <2> HIDE DEF n
  <2>2. LedgerInv'
    BY <1>0, <1>7, <2>1, LedgerKeeps DEF FailInsert
  <2>3. QED
    BY <1>0, <1>7, <2>1, <2>2, LateStepKeeps DEF FailInsert
<1>8. ASSUME NEW t \in Turns, CommitInsert(t)
      PROVE  ShownInv' /\ SessionInv' /\ LedgerInv'
  <2> DEFINE n == Settled(turns[t], "done")
  <2>1. n \in TurnRecord /\ n.phase = "done" /\ n.time = turns[t].time
        /\ turns' = [turns EXCEPT ![t] = n]
    BY <1>3, <1>8 DEF CommitInsert, TurnRecord, Phases, Settled
  <2> HIDE DEF n
  <2>2. LedgerInv'
    BY <1>0, <1>8, CommitKeepsLedger
  <2>3. QED
    BY <1>0, <1>8, <2>1, <2>2, LateStepKeeps DEF CommitInsert
<1>9. ASSUME Tick PROVE ShownInv' /\ SessionInv' /\ LedgerInv'
  <2>1. UNCHANGED <<scenario, turns, shown, rows>> /\ now' = now + 1 /\ now \in Nat
    BY <1>9 DEF Tick, TableInv
  <2>2. \A t \in Turns : turns[t].phase # "idle" => turns[t].time <= now + 1
    <3> TAKE t \in Turns
    <3>1. turns[t].time \in Nat
      BY <1>3 DEF TurnRecord
    <3>2. QED
      BY <1>0, <2>1, <3>1 DEF SessionInv
  <2>3. SessionInv'
    BY <1>0, <2>1, <2>2, FeedFrame DEF SessionInv
  <2>4. ShownInv' /\ LedgerInv'
    BY <1>0, <2>1, FeedFrame DEF ShownInv, LedgerInv, Delivered, Faithful
  <2>5. QED
    BY <2>3, <2>4
<1>10. ShownInv' /\ SessionInv' /\ LedgerInv'
  BY <1>4, <1>5, <1>6, <1>7, <1>8, <1>9 DEF TurnNext
<1>11. QED
  BY <1>2, <1>10 DEF FeedInv

\* What leaves the turns, the table and the reports alone.
LEMMA FeedStutter ==
  ASSUME FeedInv, UNCHANGED <<scenario, now, turns, shown, rows>>
  PROVE  ShownInv' /\ SessionInv' /\ LedgerInv' /\ (feedback' = feedback => ToldInv')
<1>0. ShownInv /\ SessionInv /\ LedgerInv /\ ToldInv
  BY DEF FeedInv
<1>1. ShownInv' /\ SessionInv'
  BY <1>0, FeedFrame DEF ShownInv, SessionInv, Delivered
<1>2. LedgerInv'
  BY <1>0, FeedFrame DEF LedgerInv, Faithful
<1>3. ASSUME feedback' = feedback PROVE ToldInv'
  BY <1>0, <1>3, FeedFrame DEF ToldInv
<1>4. QED
  BY <1>1, <1>2, <1>3

\* TurnBefore, and the same order from the end, as sets of pairs.
Earlier(rs) == { p \in rs \X rs : TurnBefore(p[1], p[2]) }
Later(rs)   == { p \in rs \X rs : TurnBefore(p[2], p[1]) }

\* The turns of a session can be ordered by time and request.
LEMMA TurnsOrdered ==
  ASSUME TableInv, LedgerInv, NEW rs \in SUBSET rows
  PROVE  Orders(Earlier(rs), rs) /\ Orders(Later(rs), rs)
<1>0. IsFiniteSet(rs)
  BY FS_Subset DEF TableInv, GoodRows
<1>1. \A r \in rs : r.time \in Nat /\ r.req \in Nat /\ r.req \in Turns
  <2> TAKE r \in rs
  <2>1. r.req \in Turns /\ Faithful(r)
    BY DEF TableInv, GoodRows, LedgerInv
  <2>2. turns[r.req].time \in Nat
    BY <2>1 DEF TableInv, TurnRecord
  <2>3. Turns \subseteq Nat
    BY ExportConstants DEF TableInv, Turns, Turn
  <2>4. QED
    BY <2>1, <2>2, <2>3 DEF Faithful
<1>2. \A r, o \in rs : r.req = o.req => r = o
  BY DEF TableInv, GoodRows
<1>3. \A a, b \in rs : /\ ~(TurnBefore(a, b) /\ TurnBefore(b, a))
                       /\ a # b => TurnBefore(a, b) \/ TurnBefore(b, a)
  BY <1>1, <1>2 DEF TurnBefore
<1>4. \A a, b, c \in rs : TurnBefore(a, b) /\ TurnBefore(b, c) => TurnBefore(a, c)
  BY <1>1 DEF TurnBefore
<1>5. \A a, b \in rs : /\ <<a, b>> \in Earlier(rs) <=> TurnBefore(a, b)
                       /\ <<a, b>> \in Later(rs) <=> TurnBefore(b, a)
  BY DEF Earlier, Later
<1>6. Orders(Earlier(rs), rs)
  BY <1>0, <1>3, <1>4, <1>5 DEF Orders
<1>7. Orders(Later(rs), rs)
  BY <1>0, <1>3, <1>4, <1>5 DEF Orders
<1>8. QED
  BY <1>6, <1>7

\* ORDER BY in both directions.
LEMMA OrderedTurns ==
  ASSUME TableInv, LedgerInv, NEW rs \in SUBSET rows, NEW n, n = Cardinality(rs)
  PROVE  /\ n \in Nat
         /\ Ordered(rs, TurnBefore) \in [1 .. n -> rs]
         /\ Along(Ordered(rs, TurnBefore), n, Earlier(rs))
         /\ Ordered(rs, TurnAfter) \in [1 .. n -> rs]
         /\ Along(Ordered(rs, TurnAfter), n, Later(rs))
<1> DEFINE Up(f) == \A i, j \in 1 .. n : i < j => TurnBefore(f[i], f[j])
           Down(f) == \A i, j \in 1 .. n : i < j => TurnBefore(f[j], f[i])
           s == Ordered(rs, TurnBefore)
           d == Ordered(rs, TurnAfter)
<1>1. /\ n \in Nat
      /\ \E f \in [1 .. n -> rs] : Along(f, n, Earlier(rs))
      /\ \E f \in [1 .. n -> rs] : Along(f, n, Later(rs))
  BY TurnsOrdered, SomeOrder
<1>2. \A f \in [1 .. n -> rs] : /\ Along(f, n, Earlier(rs)) <=> Up(f)
                                /\ Along(f, n, Later(rs)) <=> Down(f)
  BY DEF Along, Earlier, Later
<1>3. s = CHOOSE f \in [1 .. n -> rs] : Up(f)
  BY DEF Ordered
<1>4. d = CHOOSE f \in [1 .. n -> rs] : Down(f)
  BY DEF Ordered, TurnAfter
<1> HIDE DEF s, d, Up, Down
<1>5. s \in [1 .. n -> rs] /\ Up(s)
  BY <1>1, <1>2, <1>3
<1>6. d \in [1 .. n -> rs] /\ Down(d)
  BY <1>1, <1>2, <1>4
<1>7. QED
  BY <1>1, <1>2, <1>5, <1>6 DEF s, d

\* The turn a lookup names is one of the session.
LEMMA LookupFinds ==
  ASSUME TableInv, LedgerInv, NEW inst, NEW key, NEW seq \in Int, seq # 0,
         GetTelemetryBySessionSequence(rows, inst, key, seq) # Null
  PROVE  \E r \in MainTurns(rows, inst, key) :
            r.req = GetTelemetryBySessionSequence(rows, inst, key, seq)
<1> DEFINE mt == MainTurns(rows, inst, key)
           n == Cardinality(mt)
           s == Ordered(mt, TurnBefore)
           d == Ordered(mt, TurnAfter)
<1>0. mt \in SUBSET rows
  BY DEF MainTurns, Upstream
<1>1. n \in Nat /\ s \in [1 .. n -> mt] /\ d \in [1 .. n -> mt]
  BY <1>0, OrderedTurns
<1>2. CASE seq > 0
  <2>1. GetTelemetryBySessionSequence(rows, inst, key, seq)
           = IF seq - 1 < Len(s) THEN s[(seq - 1) + 1].req ELSE Null
    BY <1>2 DEF GetTelemetryBySessionSequence, GetTelemetryBySessionAsc
  <2> HIDE DEF s, d, n, mt
  <2>2. Len(s) = n
    BY <1>1
  <2>3. (seq - 1) + 1 \in 1 .. n
    BY <1>1, <1>2, <2>1, <2>2
  <2>4. s[(seq - 1) + 1] \in mt
    BY <1>1, <2>3
  <2>5. QED
    BY <2>1, <2>4 DEF mt
<1>3. CASE seq < 0
  <2>1. GetTelemetryBySessionSequence(rows, inst, key, seq)
           = IF -seq - 1 < Len(d) THEN d[(-seq - 1) + 1].req ELSE Null
    BY <1>3 DEF GetTelemetryBySessionSequence, GetTelemetryBySessionDesc
  <2> HIDE DEF s, d, n, mt
  <2>2. Len(d) = n
    BY <1>1
  <2>3. (-seq - 1) + 1 \in 1 .. n
    BY <1>1, <1>3, <2>1, <2>2
  <2>4. d[(-seq - 1) + 1] \in mt
    BY <1>1, <2>3
  <2>5. QED
    BY <2>1, <2>4 DEF mt
<1>4. QED
  BY <1>2, <1>3

\* The turns of a session that the client has seen, in order of their times.
LEMMA SeenIs ==
  ASSUME TableInv, ShownInv, NEW key
  PROVE  /\ SeenOf(key) \in Seq(Turns)
         /\ \A i \in 1 .. Len(SeenOf(key)) :
               Delivered(SeenOf(key)[i]) /\ Turn[SeenOf(key)[i]].key = key
         /\ \A t \in Turns : Delivered(t) /\ Turn[t].key = key =>
               \E i \in 1 .. Len(SeenOf(key)) : SeenOf(key)[i] = t
         /\ \A i, j \in 1 .. Len(SeenOf(key)) :
               i < j => turns[SeenOf(key)[i]].time < turns[SeenOf(key)[j]].time
<1> DEFINE set == {t \in Turns : Turn[t].key = key}
           seen == SeenOf(key)
           lt == { p \in Turns \X Turns : turns[p[1]].time < turns[p[2]].time }
<1>1. /\ shown \in Seq(Turns) /\ DOMAIN shown = 1 .. Len(shown)
      /\ \A i \in 1 .. Len(shown) : shown[i] \in Turns /\ Delivered(shown[i])
  BY DEF ShownInv
<1>2. seen = Keep(shown, set)
  BY DEF SeenOf
<1> HIDE DEF set, seen
<1>3. /\ seen \in Seq(Turns)
      /\ \A i \in 1 .. Len(seen) : seen[i] \in set /\ \E k \in 1 .. Len(shown) : seen[i] = shown[k]
      /\ \A k \in 1 .. Len(shown) : shown[k] \in set => \E i \in 1 .. Len(seen) : seen[i] = shown[k]
  <2>1. shown \in Seq(Turns)
    BY <1>1
  <2>2. /\ Keep(shown, set) \in Seq(Turns)
        /\ \A j \in 1 .. Len(Keep(shown, set)) :
              Keep(shown, set)[j] \in set /\ \E k \in 1 .. Len(shown) : Keep(shown, set)[j] = shown[k]
        /\ \A k \in 1 .. Len(shown) :
              shown[k] \in set => \E j \in 1 .. Len(Keep(shown, set)) : Keep(shown, set)[j] = shown[k]
    BY <2>1, KeepMembers
  <2>3. QED
    BY <1>2, <2>2
<1>4. \A a, b \in 1 .. Len(shown) :
         a < b /\ shown[a] \in set /\ shown[b] \in set => <<shown[a], shown[b]>> \in lt
  BY <1>1 DEF ShownInv, set
<1> HIDE DEF lt
<1>5. \A i, j \in 1 .. Len(seen) : i < j => <<seen[i], seen[j]>> \in lt
  BY <1>1, <1>2, <1>4, KeepOrder
<1>6. \A i, j \in 1 .. Len(seen) : i < j => turns[seen[i]].time < turns[seen[j]].time
  BY <1>5 DEF lt
<1>7. \A i \in 1 .. Len(seen) : Delivered(seen[i]) /\ Turn[seen[i]].key = key
  BY <1>1, <1>3 DEF set
<1>8. \A t \in Turns : Delivered(t) /\ Turn[t].key = key => \E i \in 1 .. Len(seen) : seen[i] = t
  <2> SUFFICES ASSUME NEW t \in Turns, Delivered(t), Turn[t].key = key
               PROVE  \E i \in 1 .. Len(seen) : seen[i] = t
    OBVIOUS
  <2>1. PICK k \in 1 .. Len(shown) : shown[k] = t
    BY <1>1 DEF ShownInv
  <2>2. QED
    BY <1>3, <2>1 DEF set
<1>9. QED
  BY <1>3, <1>6, <1>7, <1>8 DEF seen

\* Once the rows of the turns seen so far are in, the statements list exactly
\* these turns, in the order in which the client saw them, or the reverse.
LEMMA SeenRows ==
  ASSUME TableInv, FeedInv, NEW u \in Turns, NEW key, key = Turn[u].key, AllIn(key),
         NEW m, m = Len(SeenOf(key)), NEW mt, mt = MainTurns(rows, Turn[u].inst, key)
  PROVE  /\ m \in Nat /\ Cardinality(mt) = m
         /\ \A i \in 1 .. m : SeenOf(key)[i] \in Turns
         /\ \A i \in 1 .. m : Ordered(mt, TurnBefore)[i].req = SeenOf(key)[i]
         /\ \A i \in 1 .. m : Ordered(mt, TurnAfter)[i].req = SeenOf(key)[m + 1 - i]
<1> DEFINE seen == SeenOf(key)
           row == [i \in 1 .. m |-> CHOOSE r \in rows : r.req = seen[i]]
           back == [i \in 1 .. m |-> row[m + 1 - i]]
<1>0. ShownInv /\ SessionInv /\ LedgerInv
  BY DEF FeedInv
<1>1. /\ seen \in Seq(Turns) /\ m \in Nat /\ DOMAIN seen = 1 .. m
      /\ \A i \in 1 .. m : seen[i] \in Turns /\ Delivered(seen[i]) /\ Turn[seen[i]].key = key
      /\ \A t \in Turns : Delivered(t) /\ Turn[t].key = key => \E i \in 1 .. m : seen[i] = t
      /\ \A i, j \in 1 .. m : i < j => turns[seen[i]].time < turns[seen[j]].time
  <2>1. /\ seen \in Seq(Turns)
        /\ \A i \in 1 .. m : Delivered(seen[i]) /\ Turn[seen[i]].key = key
        /\ \A t \in Turns : Delivered(t) /\ Turn[t].key = key => \E i \in 1 .. m : seen[i] = t
        /\ \A i, j \in 1 .. m : i < j => turns[seen[i]].time < turns[seen[j]].time
    BY <1>0, SeenIs
  <2>2. QED
    BY <2>1, LenProperties
<1>2. \A i \in 1 .. m : turns[seen[i]].phase = "done"
  BY <1>1 DEF AllIn, Range
<1> HIDE DEF seen
<1>3. \A i \in 1 .. m : row[i] \in rows /\ row[i].req = seen[i]
  BY <1>0, <1>1, <1>2 DEF LedgerInv
<1>4. \A r, o \in rows : r.req = o.req => r = o
  BY DEF TableInv, GoodRows
<1>5. \A t \in Turns : Turn[t].key = key => Turn[t].inst = Turn[u].inst
  BY ExportConstants DEF TableInv, Turns, Turn
<1>6. \A r \in rows : r \in mt <=> Main(r.req) /\ Turn[r.req].key = key
  <2> SUFFICES ASSUME NEW r \in rows PROVE r \in mt <=> Main(r.req) /\ Turn[r.req].key = key
    OBVIOUS
  <2>1. r.req \in Turns /\ Faithful(r)
    BY <1>0 DEF TableInv, GoodRows, LedgerInv
  <2>2. QED
    BY <1>5, <2>1 DEF MainTurns, Upstream, Faithful
<1>7. mt \in SUBSET rows
  BY DEF MainTurns, Upstream
<1> HIDE DEF row
<1>8. \A i \in 1 .. m : row[i] \in mt
  BY <1>1, <1>3, <1>6 DEF Delivered
<1>9. \A r \in mt : \E i \in 1 .. m : row[i] = r
  <2> SUFFICES ASSUME NEW r \in mt PROVE \E i \in 1 .. m : row[i] = r
    OBVIOUS
  <2>1. r \in rows /\ r.req \in Turns /\ Delivered(r.req) /\ Turn[r.req].key = key
    BY <1>6, <1>7 DEF TableInv, GoodRows, Delivered
  <2>2. PICK i \in 1 .. m : seen[i] = r.req
    BY <1>1, <2>1
  <2>3. row[i] = r
    BY <1>3, <1>4, <2>1, <2>2
  <2>4. QED
    BY <2>3
<1>10. \A i, j \in 1 .. m : i < j => TurnBefore(row[i], row[j])
  <2> SUFFICES ASSUME NEW i \in 1 .. m, NEW j \in 1 .. m, i < j PROVE TurnBefore(row[i], row[j])
    OBVIOUS
  <2>1. row[i].time = turns[seen[i]].time /\ row[j].time = turns[seen[j]].time
    BY <1>0, <1>3 DEF LedgerInv, Faithful
  <2>2. turns[seen[i]].time < turns[seen[j]].time
    BY <1>1
  <2>3. QED
    BY <2>1, <2>2 DEF TurnBefore
<1>11. row \in [1 .. m -> mt]
  BY <1>8 DEF row
<1>12. Cardinality(mt) = m /\ IsFiniteSet(mt)
  <2>1. \A i, j \in 1 .. m : row[i] = row[j] => i = j
    <3> SUFFICES ASSUME NEW i \in 1 .. m, NEW j \in 1 .. m, row[i] = row[j], i < j PROVE FALSE
      BY <1>1
    <3>1. seen[i] = seen[j] /\ turns[seen[i]].time < turns[seen[j]].time
      BY <1>1, <1>3
    <3>2. turns[seen[i]].time \in Nat
      BY <1>1 DEF TableInv, TurnRecord
    <3>3. QED
      BY <3>1, <3>2
  <2>2. row \in Bijection(1 .. m, mt)
    <3>1. row \in Injection(1 .. m, mt)
      BY <1>11, <2>1 DEF Injection, IsInjective
    <3>2. row \in Surjection(1 .. m, mt)
      BY <1>9, <1>11 DEF Surjection
    <3>3. QED
      BY <3>1, <3>2 DEF Bijection
  <2>3. ExistsBijection(1 .. m, mt)
    BY <2>2 DEF ExistsBijection
  <2>4. IsFiniteSet(1 .. m) /\ Cardinality(1 .. m) = m
    <3>1. m \in Int /\ 1 \in Int
      BY <1>1
    <3>2. IsFiniteSet(1 .. m) /\ Cardinality(1 .. m) = IF 1 > m THEN 0 ELSE m - 1 + 1
      BY <3>1, FS_Interval
    <3>3. QED
      BY <1>1, <3>2
  <2>5. QED
    BY <2>3, <2>4, FS_Bijection
<1>13. back \in [1 .. m -> mt] /\ \A i \in 1 .. m : m + 1 - i \in 1 .. m /\ back[i] = row[m + 1 - i]
  BY <1>1, <1>11
<1> HIDE DEF back
<1>14. Along(row, m, Earlier(mt)) /\ Along(back, m, Later(mt))
  <2>1. Along(row, m, Earlier(mt))
    BY <1>10, <1>11 DEF Along, Earlier
  <2>2. ASSUME NEW i \in 1 .. m, NEW j \in 1 .. m, i < j
        PROVE  <<back[i], back[j]>> \in Later(mt)
    <3>1. m + 1 - i \in 1 .. m /\ m + 1 - j \in 1 .. m /\ m + 1 - j < m + 1 - i
      BY <1>1, <2>2
    <3>2. TurnBefore(row[m + 1 - j], row[m + 1 - i])
      BY <1>10, <3>1
    <3>3. back[i] \in mt /\ back[j] \in mt /\ TurnBefore(back[j], back[i])
      BY <1>13, <3>2
    <3>4. QED
      BY <3>3 DEF Later
  <2>3. QED
    BY <2>1, <2>2 DEF Along
<1>15. Orders(Earlier(mt), mt) /\ Orders(Later(mt), mt)
  BY <1>0, <1>7, TurnsOrdered
<1>16. PICK up, down : up = Ordered(mt, TurnBefore) /\ down = Ordered(mt, TurnAfter)
  OBVIOUS
<1>17. m = Cardinality(mt)
  BY <1>12
<1>18. /\ up \in [1 .. m -> mt] /\ Along(up, m, Earlier(mt))
       /\ down \in [1 .. m -> mt] /\ Along(down, m, Later(mt))
  BY <1>0, <1>7, <1>16, <1>17, OrderedTurns
<1>i. m \in Nat
  BY <1>1
<1>19. up = row
  <2>1. PICK lt : lt = Earlier(mt)
    OBVIOUS
  <2>2. Orders(lt, mt) /\ Along(up, m, lt) /\ Along(row, m, lt)
    BY <1>14, <1>15, <1>18, <2>1
  <2>3. up \in [1 .. m -> mt] /\ row \in [1 .. m -> mt]
    BY <1>11, <1>18
  <2>4. QED
    BY <1>i, <1>17, <2>2, <2>3, OnlyOrder
<1>20. down = back
  BY <1>i, <1>13, <1>14, <1>15, <1>17, <1>18, OnlyOrder
<1>21. \A i \in 1 .. m : row[i].req = seen[i] /\ back[i].req = seen[m + 1 - i]
  BY <1>3, <1>13
<1>22. \A i \in 1 .. m : Ordered(mt, TurnBefore)[i].req = SeenOf(key)[i]
  <2>1. \A i \in 1 .. m : up[i].req = seen[i]
    BY <1>19, <1>21
  <2>2. \A i \in 1 .. m : up[i].req = SeenOf(key)[i]
    BY <2>1 DEF seen
  <2>3. QED
    BY <1>16, <2>2
<1>23. \A i \in 1 .. m : Ordered(mt, TurnAfter)[i].req = SeenOf(key)[m + 1 - i]
  BY <1>16, <1>20, <1>21 DEF seen
<1>24. \A i \in 1 .. m : SeenOf(key)[i] \in Turns
  BY <1>1 DEF seen
<1>25. QED
  BY <1>1, <1>12, <1>22, <1>23, <1>24

\* Counting from the end.
LEMMA Backwards ==
  \A m \in Nat, seq \in Int : \A n \in 1 .. m :
     n = m + 1 + seq => \E k \in 1 .. m : k = -seq /\ m + 1 - k = n
<1> SUFFICES ASSUME NEW m \in Nat, NEW seq \in Int, NEW n \in 1 .. m, n = m + 1 + seq
             PROVE  -seq \in 1 .. m /\ m + 1 - (-seq) = n
  OBVIOUS
<1> QED
  OBVIOUS

\* A sequence number names the turn the user counts to.
LEMMA LookupIs ==
  ASSUME TableInv, FeedInv, NEW u \in Turns, NEW key, key = Turn[u].key, AllIn(key),
         NEW seq \in Int, seq # 0, NEW m, m = Len(SeenOf(key)),
         NEW n, n = IF seq > 0 THEN seq ELSE m + 1 + seq
  PROVE  /\ m \in Nat /\ n \in Int
         /\ GetTelemetryBySessionSequence(rows, Turn[u].inst, key, seq)
               = IF n \in 1 .. m THEN SeenOf(key)[n] ELSE Null
         /\ \A i \in 1 .. m : SeenOf(key)[i] \in Turns
<1> DEFINE mt == MainTurns(rows, Turn[u].inst, key)
           s == Ordered(mt, TurnBefore)
           d == Ordered(mt, TurnAfter)
<1>1. /\ m \in Nat /\ Cardinality(mt) = m
      /\ \A i \in 1 .. m : SeenOf(key)[i] \in Turns
      /\ \A i \in 1 .. m : s[i].req = SeenOf(key)[i]
      /\ \A i \in 1 .. m : d[i].req = SeenOf(key)[m + 1 - i]
  BY SeenRows
<1>2. s \in [1 .. m -> mt] /\ d \in [1 .. m -> mt]
  <2>1. mt \in SUBSET rows /\ LedgerInv
    BY DEF MainTurns, Upstream, FeedInv
  <2>2. QED
    BY <1>1, <2>1, OrderedTurns
<1>3. n \in Int
  BY <1>1
<1>4. CASE seq > 0
  <2>1. GetTelemetryBySessionSequence(rows, Turn[u].inst, key, seq)
           = IF seq - 1 < Len(s) THEN s[(seq - 1) + 1].req ELSE Null
    BY <1>4 DEF GetTelemetryBySessionSequence, GetTelemetryBySessionAsc
  <2> HIDE DEF s, d, mt
  <2>2. Len(s) = m
    BY <1>1, <1>2
  <2>3. n = seq /\ (seq - 1) + 1 = seq /\ (seq - 1 < m <=> n \in 1 .. m)
    BY <1>1, <1>4
  <2>4. QED
    BY <1>1, <1>3, <2>1, <2>2, <2>3
<1>5. CASE seq < 0
  <2>1. GetTelemetryBySessionSequence(rows, Turn[u].inst, key, seq)
           = IF -seq - 1 < Len(d) THEN d[(-seq - 1) + 1].req ELSE Null
    BY <1>5 DEF GetTelemetryBySessionSequence, GetTelemetryBySessionDesc
  <2> HIDE DEF s, d, mt
  <2>2. Len(d) = m
    BY <1>1, <1>2
  <2>3. n = m + 1 + seq /\ (-seq - 1) + 1 = -seq /\ (-seq - 1 < m <=> n \in 1 .. m)
    BY <1>1, <1>5
  <2>4. ASSUME n \in 1 .. m PROVE d[-seq].req = SeenOf(key)[n]
    <3>1. m \in Nat /\ n \in 1 .. m /\ n = m + 1 + seq
      BY <1>1, <2>3, <2>4
    <3>2. PICK k \in 1 .. m : k = -seq /\ m + 1 - k = n
      BY <3>1, Backwards, Zenon
    <3>3. d[k].req = SeenOf(key)[m + 1 - k]
      BY <1>1, <3>2
    <3>4. QED
      BY <3>2, <3>3
  <2>5. QED
    BY <1>1, <1>3, <2>1, <2>2, <2>3, <2>4
<1>6. QED
  BY <1>4, <1>5

\* A turn that a number names is credited with its own strategy.
LEMMA CreditedIs ==
  ASSUME TableInv, FeedInv, NEW u \in Turns, NEW seq \in Int, NEW fails \in BOOLEAN, NEW req,
         req = Resolved(Turn[u].inst, Turn[u].key, seq, fails),
         req # NoTurn, req # Null, Turn[req].kind = "served", Turn[req].strategy # Null
  PROVE  Credited(Turn[u].inst, req) = Turn[req].strategy
<1> DEFINE inst == Turn[u].inst
           found == CHOOSE r \in Upstream(rows) : r.inst = inst /\ r.req = req
<1>0. LedgerInv
  BY DEF FeedInv
<1>1. seq # 0 /\ req = GetTelemetryBySessionSequence(rows, inst, Turn[u].key, seq)
  BY DEF Resolved
<1>2. \E r \in MainTurns(rows, inst, Turn[u].key) : r.req = req
  BY <1>0, <1>1, LookupFinds
<1>3. \E r \in Upstream(rows) : r.inst = inst /\ r.req = req
  BY <1>2 DEF MainTurns
<1>4. found \in Upstream(rows) /\ found.req = req
  BY <1>3
<1>5. Credited(inst, req) = IF found.strategy = Null THEN Strategy ELSE found.strategy
  BY DEF Credited
<1> HIDE DEF found
<1>6. found.strategy = Turn[req].strategy
  BY <1>0, <1>4 DEF LedgerInv, Faithful, Upstream
<1>7. QED
  BY <1>5, <1>6

\* What a command stores: the turn the number names, once its rows are in.
Named(key, seq, req) ==
    LET n == IF seq > 0 THEN seq ELSE Len(SeenOf(key)) + 1 + seq
    IN AllIn(key) /\ seq # 0 /\ req # Null =>
          req = IF n \in DOMAIN SeenOf(key) THEN SeenOf(key)[n] ELSE NoTurn

\* The lookup of a command names that turn.
LEMMA ResolvedIs ==
  ASSUME TableInv, FeedInv, NEW u \in Turns, NEW seq \in Int, NEW fails \in BOOLEAN
  PROVE  Named(Turn[u].key, seq, Resolved(Turn[u].inst, Turn[u].key, seq, fails))
<1> DEFINE key == Turn[u].key
           m == Len(SeenOf(key))
           n == IF seq > 0 THEN seq ELSE m + 1 + seq
           req == Resolved(Turn[u].inst, key, seq, fails)
<1> SUFFICES ASSUME AllIn(key), seq # 0, req # Null
             PROVE  req = IF n \in DOMAIN SeenOf(key) THEN SeenOf(key)[n] ELSE NoTurn
  BY DEF Named
<1>1. /\ m \in Nat
      /\ GetTelemetryBySessionSequence(rows, Turn[u].inst, key, seq)
            = IF n \in 1 .. m THEN SeenOf(key)[n] ELSE Null
      /\ \A i \in 1 .. m : SeenOf(key)[i] \in Turns
  BY LookupIs
<1>2. req = LET q == GetTelemetryBySessionSequence(rows, Turn[u].inst, key, seq)
            IN IF q = Null THEN NoTurn ELSE q
  BY DEF Resolved
<1>3. DOMAIN SeenOf(key) = 1 .. m
  <2>1. SeenOf(key) \in Seq(Turns)
    BY SeenIs DEF FeedInv
  <2>2. QED
    BY <2>1, LenProperties
<1>4. Null \notin Turns
  BY ExportConstants, TableConstants DEF TableInv, Turns, Turn
<1> HIDE DEF m, n, req, key
<1>5. QED
  BY <1>1, <1>2, <1>3, <1>4

\* A feedback command.
LEMMA RatingKeeps ==
  ASSUME TableInv, FeedInv, NEW u \in Turns, NEW seq \in Int, NEW rating,
         RouterFeedback(Turn[u].inst, Turn[u].key, seq, rating)
  PROVE  /\ ToldInv'
         /\ Named(feedback'.last.key, feedback'.last.seq, feedback'.last.req)
<1> DEFINE inst == Turn[u].inst
           key == Turn[u].key
           Noted(req) == [key |-> key, seq |-> seq, req |-> req]
<1>0. ToldInv /\ Turn' = Turn /\ UNCHANGED scenario
  BY FeedFrame DEF FeedInv, RouterFeedback
<1>1. PICK fails, thumbFails \in BOOLEAN :
         LET req == Resolved(inst, key, seq, fails)
             who == Credited(inst, req)
         IN IF req = NoTurn THEN feedback' = [feedback EXCEPT !.last = Noted(req)]
            ELSE feedback' =
                   [ thumbs |-> IF req = Null \/ rating = Null \/ thumbFails THEN feedback.thumbs
                                ELSE [feedback.thumbs EXCEPT ![req] = rating],
                     told |-> IF who \in Strategies
                              THEN feedback.told \union {[strategy |-> who, req |-> req]}
                              ELSE feedback.told,
                     last |-> Noted(req) ]
  BY DEF RouterFeedback
<1>2. PICK req : req = Resolved(inst, key, seq, fails)
  OBVIOUS
<1>3. PICK who : who = Credited(inst, req)
  OBVIOUS
<1>4. Named(key, seq, req)
  BY <1>2, ResolvedIs
<1>5. req # NoTurn /\ req # Null /\ Turn[req].kind = "served" /\ Turn[req].strategy # Null =>
         who = Turn[req].strategy
  BY <1>2, <1>3, CreditedIs
<1>6. CASE req = NoTurn
  <2>1. feedback' = [feedback EXCEPT !.last = Noted(req)]
    BY <1>1, <1>2, <1>6
  <2>2. feedback = [thumbs |-> feedback.thumbs, told |-> feedback.told, last |-> feedback.last]
    BY <1>0 DEF ToldInv
  <2>3. feedback' = [thumbs |-> feedback.thumbs, told |-> feedback.told, last |-> Noted(req)]
    BY <2>1, <2>2
  <2>4. feedback'.told = feedback.told /\ feedback'.last = Noted(req)
        /\ feedback' = [thumbs |-> feedback'.thumbs, told |-> feedback'.told, last |-> feedback'.last]
    BY <2>3
  <2>5. ToldInv'
    BY <1>0, <2>4 DEF ToldInv
  <2>6. QED
    BY <1>4, <2>4, <2>5
<1>7. CASE req # NoTurn
  <2>1. PICK th, td :
           /\ feedback' = [thumbs |-> th, told |-> td, last |-> Noted(req)]
           /\ td = IF who \in Strategies THEN feedback.told \union {[strategy |-> who, req |-> req]}
                   ELSE feedback.told
    BY <1>1, <1>2, <1>3, <1>7
  <2>2. feedback'.told = td /\ feedback'.last = Noted(req)
        /\ feedback' = [thumbs |-> feedback'.thumbs, told |-> feedback'.told, last |-> feedback'.last]
    BY <2>1
  <2>3. ASSUME NEW x \in td, x.req # Null, Turn[x.req].kind = "served", Turn[x.req].strategy # Null
        PROVE  x.strategy = Turn[x.req].strategy
    <3>1. CASE x \in feedback.told
      BY <1>0, <2>3, <3>1 DEF ToldInv
    <3>2. CASE x = [strategy |-> who, req |-> req]
      BY <1>5, <1>7, <2>3, <3>2
    <3>3. QED
      BY <2>1, <3>1, <3>2
  <2>4. ToldInv'
    BY <1>0, <2>2, <2>3 DEF ToldInv
  <2>5. QED
    BY <1>4, <2>2, <2>4
<1>8. QED
  BY <1>6, <1>7

FeedIInv == ExportIInv /\ FeedInv

\* Every step keeps it, and only a command changes what is stored.
LEMMA NextFeed ==
  ASSUME FeedIInv, [Next]_vars
  PROVE  /\ FeedIInv'
         /\ feedback' # feedback =>
               Named(feedback'.last.key, feedback'.last.seq, feedback'.last.req)
<1>0. TableInv /\ FeedInv /\ ExportIInv'
  BY NextExport DEF FeedIInv, ExportIInv
<1>1. CASE TurnNext
  <2>1. feedback' = feedback
    BY <1>1 DEF TurnNext, StartTurn, FireTelemetry, BeginInsert, CommitInsert, FailInsert, Tick
  <2>2. QED
    BY <1>0, <1>1, <2>1, TurnNextKeepsFeed DEF FeedIInv
<1>2. CASE ReaderNext
  <2>1. UNCHANGED <<scenario, now, turns, shown, rows>>
    BY <1>2 DEF ReaderNext, ExportBegin, ExportEnd, SavingsRead, SummaryRead, RouterFeedback
  <2>2. ShownInv' /\ SessionInv' /\ LedgerInv' /\ (feedback' = feedback => ToldInv')
    BY <1>0, <2>1, FeedStutter
  <2>3. \/ feedback' = feedback
        \/ \E t \in Turns, seq \in -2 .. 2, rating \in {Null, "up"} :
              RouterFeedback(Turn[t].inst, Turn[t].key, seq, rating)
    BY <1>2 DEF ReaderNext, ExportBegin, ExportEnd, SavingsRead, SummaryRead
  <2>4. CASE feedback' = feedback
    BY <1>0, <2>2, <2>4 DEF FeedIInv, FeedInv
  <2>5. ASSUME NEW t \in Turns, NEW seq \in -2 .. 2, NEW rating,
               RouterFeedback(Turn[t].inst, Turn[t].key, seq, rating)
        PROVE  ToldInv' /\ Named(feedback'.last.key, feedback'.last.seq, feedback'.last.req)
    <3>1. seq \in Int
      OBVIOUS
    <3>2. QED
      BY <1>0, <2>5, <3>1, RatingKeeps
  <2>6. QED
    BY <1>0, <2>2, <2>3, <2>4, <2>5 DEF FeedIInv, FeedInv
<1>3. CASE UNCHANGED telemetryVars
  <2>1. UNCHANGED <<scenario, now, turns, shown, rows, feedback>>
    BY <1>3 DEF telemetryVars
  <2>2. QED
    BY <1>0, <2>1, FeedStutter DEF FeedIInv, FeedInv
<1>4. QED
  BY <1>1, <1>2, <1>3 DEF Next, vars

\* /rf N rates the turn the user saw N-th, /rf -N the N-th from the end, as soon
\* as the rows of the turns seen are in, whatever order the insert goroutines
\* committed them in; and a turn with a strategy of its own is reported to no
\* other (proxy/router_feedback.go).
THEOREM FeedbackHits == Spec => FeedbackHitsTurn
<1>1. Init => FeedIInv
  BY InitExport, InitFeed DEF FeedIInv
<1>2. FeedIInv /\ [Next]_vars => FeedIInv'
  BY NextFeed
<1>3. FeedIInv /\ FeedIInv' /\ [Next]_vars =>
        [ LET c == feedback'.last
              seen == SeenOf(c.key)
              n == IF c.seq > 0 THEN c.seq ELSE Len(seen) + 1 + c.seq
          IN feedback' # feedback =>
               /\ AllIn(c.key) /\ c.seq # 0 /\ c.req # Null =>
                     c.req = IF n \in DOMAIN seen THEN seen[n] ELSE NoTurn
               /\ \A m \in feedback'.told :
                     m.req # Null /\ Turn[m.req].kind = "served" /\ Turn[m.req].strategy # Null =>
                        m.strategy = Turn[m.req].strategy ]_feedback
  <2> SUFFICES ASSUME FeedIInv, FeedIInv', [Next]_vars, feedback' # feedback
               PROVE  /\ Named(feedback'.last.key, feedback'.last.seq, feedback'.last.req)
                      /\ \A m \in feedback'.told :
                           m.req # Null /\ Turn[m.req].kind = "served" /\ Turn[m.req].strategy # Null =>
                              m.strategy = Turn[m.req].strategy
    BY DEF Named
  <2>1. Turn' = Turn
    BY DEF Next, vars, telemetryVars, TurnNext, ReaderNext, StartTurn, FireTelemetry, BeginInsert,
           CommitInsert, FailInsert, Tick, ExportBegin, ExportEnd, SavingsRead, SummaryRead,
           RouterFeedback, Turn
  <2>2. ToldInv'
    BY DEF FeedIInv, FeedInv
  <2>3. QED
    BY <2>1, <2>2, NextFeed DEF ToldInv
<1>4. QED
  BY <1>1, <1>2, <1>3, PTL DEF Spec, FeedbackHitsTurn

=============================================================================
