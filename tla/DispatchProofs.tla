--------------------------- MODULE DispatchProofs ---------------------------
(***************************************************************************)
(* The safety of Dispatch for every catalog, every routing decision, every *)
(* list of sibling candidates and every set of struck-out providers, and   *)
(* that Dispatch implements Reply.                                         *)
(***************************************************************************)
EXTENDS Dispatch, LoopProofs, FiniteSetTheorems

-----------------------------------------------------------------------------
(* The binding walk and the sibling.                                        *)

\* The open bindings of a model: each once, none of a struck-out provider.
LEMMA OpenSound ==
  ASSUME NEW m \in Models, NEW disabled
  PROVE  /\ Open(m, disabled) \in Seq(Providers)
         /\ \A j \in 1 .. Len(Open(m, disabled)) : Open(m, disabled)[j] \notin disabled
         /\ Distinct(Open(m, disabled))
  <1>1. Bindings[m] \in Seq(Providers) /\ Distinct(Bindings[m])
    BY DispatchConstants DEF Distinct
  <1> QED BY <1>1, KeepSound DEF Open

\* Moving the primary to the front keeps a list of providers one.
LEMMA PrimaryFirstSound ==
  ASSUME NEW p \in Providers, NEW s \in Seq(Providers), Distinct(s)
  PROVE  /\ PrimaryFirst(p, s) \in Seq(Providers)
         /\ Distinct(PrimaryFirst(p, s))
         /\ PrimaryFirst(p, s) # <<>>
         /\ \A set : p \notin set /\ (\A j \in 1 .. Len(s) : s[j] \notin set)
               => \A j \in 1 .. Len(PrimaryFirst(p, s)) : PrimaryFirst(p, s)[j] \notin set
  <1> DEFINE rest == Keep(s, Providers \ {p})
             all  == <<p>> \o rest
  <1>1. rest \in Seq(Providers) /\ Distinct(rest)
        /\ \A j \in 1 .. Len(rest) : rest[j] # p
    BY KeepSound
  <1> HIDE DEF rest
  <1>2. PrimaryFirst(p, s) = all
    BY DEF PrimaryFirst, rest
  <1>3. all \in Seq(Providers) /\ Len(all) = Len(rest) + 1 /\ all[1] = p
        /\ \A j \in 2 .. Len(all) : j - 1 \in 1 .. Len(rest) /\ all[j] = rest[j - 1]
    BY <1>1
  <1> HIDE DEF all
  <1>4. Distinct(all)
    <2> SUFFICES ASSUME NEW j \in 1 .. Len(all), NEW k \in 1 .. Len(all), all[j] = all[k]
                 PROVE  j = k
      BY DEF Distinct
    <2>1. (j = 1 \/ j \in 2 .. Len(all)) /\ (k = 1 \/ k \in 2 .. Len(all))
      BY <1>1, <1>3
    <2> QED BY <2>1, <1>1, <1>3 DEF Distinct
  <1>5. ASSUME NEW set, p \notin set, \A j \in 1 .. Len(s) : s[j] \notin set
        PROVE  \A j \in 1 .. Len(all) : all[j] \notin set
    <2>1. \A j \in 1 .. Len(rest) : \E k \in 1 .. Len(s) : rest[j] = s[k]
      BY KeepSound DEF rest
    <2> TAKE j \in 1 .. Len(all)
    <2>2. j = 1 \/ j \in 2 .. Len(all)
      BY <1>1, <1>3
    <2> QED BY <1>3, <1>5, <2>1, <2>2
  <1> QED BY <1>2, <1>3, <1>4, <1>5

\* The walk starts from distinct providers, none of them disabled under failover.
LEMMA ResolveSound ==
  ASSUME NEW t \in Turns, NEW d \in Arm
  PROVE  /\ resolveBindingsForDispatch(t, d) \in Seq(Providers)
         /\ Distinct(resolveBindingsForDispatch(t, d))
         /\ t.failover => \A j \in 1 .. Len(resolveBindingsForDispatch(t, d)) :
              resolveBindingsForDispatch(t, d)[j] \notin t.disabled
  <1> DEFINE open == Open(d.model, t.disabled)
  <1>1. d.model \in Models /\ d.provider \in Providers
    BY DEF Arm
  <1>2. open \in Seq(Providers) /\ Distinct(open)
        /\ \A j \in 1 .. Len(open) : open[j] \notin t.disabled
    BY <1>1, OpenSound
  <1>3. <<d.provider>> \in Seq(Providers) /\ Distinct(<<d.provider>>)
        /\ (d.provider \notin t.disabled =>
              \A j \in 1 .. Len(<<d.provider>>) : <<d.provider>>[j] \notin t.disabled)
    BY <1>1 DEF Distinct
  <1>4. <<>> \in Seq(Providers) /\ Distinct(<<>>)
        /\ \A j \in 1 .. Len(<<>>) : <<>>[j] \notin t.disabled
    BY DEF Distinct
  <1>5. PrimaryFirst(d.provider, open) \in Seq(Providers)
        /\ Distinct(PrimaryFirst(d.provider, open))
        /\ (d.provider \notin t.disabled =>
              \A j \in 1 .. Len(PrimaryFirst(d.provider, open)) :
                 PrimaryFirst(d.provider, open)[j] \notin t.disabled)
    BY <1>1, <1>2, PrimaryFirstSound
  <1>6. InSeq(open, d.provider) => d.provider \notin t.disabled
    BY <1>2 DEF InSeq
  <1> HIDE DEF open
  <1> QED BY <1>2, <1>3, <1>4, <1>5, <1>6 DEF resolveBindingsForDispatch, open

\* A sibling is an arm of another model.
LEMMA SiblingSound ==
  ASSUME NEW t \in Turns, siblingFailoverDecision(t) # <<>>
  PROVE  /\ siblingFailoverDecision(t) = <<siblingFailoverDecision(t)[1]>>
         /\ siblingFailoverDecision(t)[1] \in Arm
         /\ siblingFailoverDecision(t)[1].model # t.decision.model
  <1> DEFINE armsOf(n) == { [model |-> t.candidates[n].model, provider |-> p] :
                              p \in siblingProvider(t, t.candidates[n]) }
             usable == { n \in 1 .. Len(t.candidates) :
                           /\ t.candidates[n].model # t.decision.model
                           /\ armsOf(n) # {} }
             apart  == { n \in usable : \A a \in armsOf(n) : a.provider # t.decision.provider }
             pool   == IF apart # {} THEN apart ELSE usable
             first  == CHOOSE n \in pool : \A k \in pool : n <= k
             best   == CHOOSE a \in armsOf(first) : TRUE
  <1>1. t.candidates \in Seq([model : Models, via : SUBSET Providers])
    BY DispatchConstants DEF Turns
  <1>2. siblingFailoverDecision(t) = IF pool = {} THEN <<>> ELSE <<best>>
    BY DEF siblingFailoverDecision
  <1>3. /\ pool # {} /\ siblingFailoverDecision(t)[1] = best
        /\ siblingFailoverDecision(t) = <<siblingFailoverDecision(t)[1]>>
    <2> HIDE DEF pool, best
    <2> QED BY <1>2
  <1>4. pool \subseteq usable
    OBVIOUS
  <1>5. first \in pool
    <2>1. pool \in SUBSET Nat
      BY <1>1, <1>4
    <2> HIDE DEF pool
    <2>2. \E n \in pool : \A k \in pool : n <= k
      BY <1>3, <2>1, Least
    <2> QED BY <2>2
  <1> HIDE DEF pool, first
  <1>6. first \in 1 .. Len(t.candidates) /\ t.candidates[first].model # t.decision.model
        /\ armsOf(first) # {}
    BY <1>4, <1>5
  <1>7. best \in armsOf(first)
    BY <1>6
  <1>8. t.candidates[first].model \in Models /\ t.candidates[first].via \subseteq Providers
    <2>1. first \in 1 .. Len(t.candidates)
      BY <1>6
    <2> HIDE DEF armsOf, usable, apart, best
    <2>2. t.candidates[first] \in [model : Models, via : SUBSET Providers]
      BY <1>1, <2>1, ElementOf, Zenon
    <2> QED BY <2>2
  <1>9. siblingProvider(t, t.candidates[first]) \subseteq Providers
    <2>1. Open(t.candidates[first].model, t.disabled) \in Seq(Providers)
      BY <1>8, OpenSound
    <2> QED BY <1>8, <2>1 DEF siblingProvider
  <1> HIDE DEF best
  <1>10. best \in Arm /\ best.model = t.candidates[first].model
    BY <1>7, <1>8, <1>9 DEF Arm
  <1> QED BY <1>3, <1>6, <1>10

-----------------------------------------------------------------------------
(* The inductive invariant.                                                 *)

\* The walk is where the list it started from says it is.
WalkInv ==
    /\ sibling = siblingFailoverDecision(turn)
    /\ bindings = IF rescue THEN SiblingBindings
                  ELSE resolveBindingsForDispatch(turn, turn.decision)
    /\ rescue => siblingViable /\ arm.model = sibling[1].model
    /\ ~rescue => arm.model = turn.decision.model
    /\ IF bindings = <<>> THEN i = 1 ELSE i \in 1 .. Len(bindings)
    /\ pc \in {"attempt", "upstream", "failed"} =>
          bindings # <<>> /\ arm.provider = bindings[i]
    /\ pc = "rescue" => ~rescue
    /\ Len(bindings) # 1 \/ pc = "walk" => sb = 0

\* The prelude buffer holds nothing but the prelude of the last attempt, and
\* whatever reached the client is that attempt's.
BufInv ==
    /\ buf.held \subseteq {Len(tried)}
    /\ buf.committed \/ (pc = "walk" /\ i = 1) => buf.held = {}
    /\ pc \notin {"walk", "upstream", "failed"} => buf.held = {}
    /\ pc \in {"walk", "attempt", "failed"} => ~buf.committed
    /\ pc = "upstream" /\ ~buf.committed => header = Len(tried)
    /\ pc \in {"upstream", "failed"} \/ buf.committed =>
          Len(tried) > 0 /\ tried[Len(tried)] = arm
    /\ buf.committed =>
          /\ named = Len(tried)
          /\ bindings # <<>> /\ arm.provider = bindings[i]
          /\ pc # "upstream" => err # "incompatible"

\* What the client has, by where the turn is.
WireInv ==
    /\ pc \in {"walk", "attempt", "failed"} => wire = R!Silent
    /\ pc = "upstream" =>
          wire = IF buf.committed THEN R!Sent({Len(tried)}, FALSE) ELSE R!Silent
    /\ pc \in {"rescue", "account", "handler", "done"} =>
          IF buf.committed THEN \E ended \in BOOLEAN : wire = R!Sent({Len(tried)}, ended)
          ELSE \/ wire \in {R!Silent, R!Refused(1, 0)}
               \/ pc = "done" /\ wire = R!Refused(0, 1)
    /\ pc = "rescue" /\ siblingViable /\ ~buf.committed => wire = R!Silent
    /\ pc \in {"handler", "done"} /\ buf.committed => final = arm

\* An upstream error is owed to the client until it is sent.
ErrInv ==
    /\ pc \in {"rescue", "account", "handler", "done"} /\ buf.committed => ~Buffered(err)
    /\ pc = "rescue" /\ ~buf.committed /\ Buffered(err) /\ ~gone /\ ~siblingViable
          => wire.upstream = 1
    /\ pc \in {"account", "handler", "done"} /\ Buffered(err) /\ ~gone => wire.upstream = 1

\* The list a model's attempts are taken from.
Walked(m) == IF m = turn.decision.model
             THEN resolveBindingsForDispatch(turn, turn.decision) ELSE SiblingBindings

\* The attempts of one model: a walk without alternative spends its retries in
\* a row, any other walk tries an arm once.
SpreadOf(m) ==
    IF Len(Walked(m)) = 1
    THEN \E b \in Int : \A k \in 1 .. Len(tried) : tried[k].model = m => k \in b .. b + 2
    ELSE \A k, l \in 1 .. Len(tried) : tried[k].model = m /\ tried[k] = tried[l] => k = l

Begun == IF pc \in {"walk", "attempt"} THEN 0 ELSE 1

\* The attempts of the walk that is under way.
RecentInv ==
    pc \in {"walk", "attempt", "upstream", "failed"} =>
      \A k \in 1 .. Len(tried) : tried[k].model = arm.model =>
         IF Len(bindings) = 1 THEN k > Len(tried) - (sb + Begun)
         ELSE \E j \in 1 .. i - 1 + Begun : tried[k].provider = bindings[j]

TriedInv ==
    /\ ForbiddenNeverTried
    /\ ~rescue => \A k \in 1 .. Len(tried) : tried[k].model = turn.decision.model
    /\ \A m \in Models : m = turn.decision.model \/ rescue => SpreadOf(m)
    /\ RecentInv

IInv == TypeOK /\ WalkInv /\ BufInv /\ WireInv /\ ErrInv /\ TriedInv

-----------------------------------------------------------------------------
(* What is written to the client.                                           *)

WireType == [from : SUBSET Nat, upstream : Nat, router : Nat, ended : BOOLEAN]

BufType == [held : SUBSET Nat, sealed : BOOLEAN, committed : BOOLEAN]

\* The forms of a reply and what tells them apart.
LEMMA Forms ==
  /\ R!Silent \in WireType /\ R!Silent.from = {} /\ R!Silent.upstream = 0 /\ R!Silent.router = 0
  /\ R!Refused(1, 0) \in WireType /\ R!Refused(1, 0).upstream = 1 /\ R!Refused(1, 0).from = {}
  /\ R!Refused(0, 1) \in WireType /\ R!Refused(0, 1).upstream = 0 /\ R!Refused(0, 1).from = {}
  /\ R!Refused(1, 0) # R!Silent /\ R!Refused(0, 1) # R!Silent
  /\ \A a \in Nat, ended \in BOOLEAN :
        /\ R!Sent({a}, ended) \in WireType
        /\ R!Sent({a}, ended).from = {a}
        /\ R!Sent({a}, ended).upstream = 0
        /\ R!Sent({a}, ended) # R!Silent
  <1>1. R!Silent \in WireType /\ R!Silent.from = {} /\ R!Silent.upstream = 0 /\ R!Silent.router = 0
    BY DEF R!Silent, WireType
  <1>2. R!Refused(1, 0) \in WireType /\ R!Refused(1, 0).upstream = 1 /\ R!Refused(1, 0).from = {}
    BY DEF R!Silent, R!Refused, WireType
  <1>3. R!Refused(0, 1) \in WireType /\ R!Refused(0, 1).upstream = 0 /\ R!Refused(0, 1).from = {}
    BY DEF R!Silent, R!Refused, WireType
  <1>4. R!Refused(1, 0) # R!Silent /\ R!Refused(0, 1) # R!Silent
    BY DEF R!Silent, R!Refused
  <1>5. ASSUME NEW a \in Nat, NEW ended \in BOOLEAN
        PROVE  /\ R!Sent({a}, ended) \in WireType
               /\ R!Sent({a}, ended).from = {a}
               /\ R!Sent({a}, ended).upstream = 0
               /\ R!Sent({a}, ended) # R!Silent
    <2>1. {a} \in SUBSET Nat /\ {a} # {}
      OBVIOUS
    <2> QED BY <2>1 DEF R!Silent, R!Sent, WireType
  <1> QED BY <1>1, <1>2, <1>3, <1>4, <1>5

\* An envelope is counted once.
LEMMA FirstEnvelope ==
  /\ [R!Silent EXCEPT !.upstream = @ + 1, !.ended = TRUE] = R!Refused(1, 0)
  /\ [R!Silent EXCEPT !.router = @ + 1, !.ended = TRUE] = R!Refused(0, 1)
  <1>1. [R!Silent EXCEPT !.upstream = @ + 1, !.ended = TRUE] = R!Refused(1, 0)
    <2> DEFINE r == [R!Silent EXCEPT !.upstream = 1, !.ended = TRUE]
               q == R!Refused(1, 0)
    <2>1. R!Silent.upstream + 1 = 1
      BY DEF R!Silent
    <2>2. [R!Silent EXCEPT !.upstream = @ + 1, !.ended = TRUE] = r
      BY <2>1
    <2>3. r \in WireType /\ r.from = {} /\ r.upstream = 1 /\ r.router = 0 /\ r.ended = TRUE
      BY DEF R!Silent, WireType
    <2>4. q \in WireType /\ q.from = {} /\ q.upstream = 1 /\ q.router = 0 /\ q.ended = TRUE
      BY DEF R!Silent, R!Refused, WireType
    <2> HIDE DEF r, q
    <2>5. r = q
      BY <2>3, <2>4 DEF WireType
    <2> QED BY <2>2, <2>5 DEF q
  <1>2. [R!Silent EXCEPT !.router = @ + 1, !.ended = TRUE] = R!Refused(0, 1)
    <2> DEFINE r == [R!Silent EXCEPT !.router = 1, !.ended = TRUE]
               q == R!Refused(0, 1)
    <2>1. R!Silent.router + 1 = 1
      BY DEF R!Silent
    <2>2. [R!Silent EXCEPT !.router = @ + 1, !.ended = TRUE] = r
      BY <2>1
    <2>3. r \in WireType /\ r.from = {} /\ r.upstream = 0 /\ r.router = 1 /\ r.ended = TRUE
      BY DEF R!Silent, WireType
    <2>4. q \in WireType /\ q.from = {} /\ q.upstream = 0 /\ q.router = 1 /\ q.ended = TRUE
      BY DEF R!Silent, R!Refused, WireType
    <2> HIDE DEF r, q
    <2>5. r = q
      BY <2>3, <2>4 DEF WireType
    <2> QED BY <2>2, <2>5 DEF q
  <1> QED BY <1>1, <1>2

\* What flushErr makes of a reply that has not begun.
LEMMA FlushStep ==
  ASSUME wire = R!Silent, NEW e, flushErr(e)
  PROVE  wire' = IF Buffered(e) THEN R!Refused(1, 0) ELSE R!Silent
  BY FirstEnvelope DEF flushErr

\* The first write of an attempt sends its own bytes and no others.
LEMMA FirstCommit ==
  ASSUME wire = R!Silent, buf.held \subseteq {Len(tried)}, NEW ended, commit(ended)
  PROVE  wire' = R!Sent({Len(tried)}, ended)
  <1>1. {} \cup buf.held \cup {Len(tried)} = {Len(tried)}
    OBVIOUS
  <1> QED BY <1>1 DEF commit, Attempt, R!Silent, R!Sent

\* Ending a stream that has been committed adds no bytes of another attempt.
LEMMA LastCommit ==
  ASSUME wire = R!Sent({Len(tried)}, FALSE), buf.held = {}, NEW ended, commit(ended)
  PROVE  wire' = R!Sent({Len(tried)}, ended)
  <1>1. {Len(tried)} \cup buf.held \cup {Len(tried)} = {Len(tried)}
    OBVIOUS
  <1> QED BY <1>1 DEF commit, Attempt, R!Silent, R!Sent

\* A reply of one of the forms has the reply's type.
LEMMA FormTyped ==
  ASSUME NEW w, NEW n \in Nat,
         \/ w \in {R!Silent, R!Refused(1, 0), R!Refused(0, 1)}
         \/ \E ended \in BOOLEAN : w = R!Sent({n}, ended)
  PROVE  w \in WireType
  BY Forms

\* The list being walked: what it was resolved from and what it leaves out.
LEMMA BindingsSound ==
  ASSUME TypeOK, WalkInv
  PROVE  /\ Distinct(bindings)
         /\ turn.failover => \A j \in 1 .. Len(bindings) : bindings[j] \notin turn.disabled
         /\ rescue => arm.model # turn.decision.model
         /\ bindings = Walked(arm.model)
  <1>1. CASE ~rescue
    <2>1. turn \in Turns /\ turn.decision \in Arm
      BY DispatchConstants DEF TypeOK, Turns
    <2>2. bindings = resolveBindingsForDispatch(turn, turn.decision)
          /\ arm.model = turn.decision.model
      BY <1>1 DEF WalkInv
    <2> QED BY <1>1, <2>1, <2>2, ResolveSound DEF Walked
  <1>2. CASE rescue
    <2> DEFINE t == [turn EXCEPT !.selected = FALSE]
    <2>1. t \in Turns /\ t.failover = turn.failover /\ t.disabled = turn.disabled
      BY DEF TypeOK, Turns
    <2>2. sibling[1] \in Arm /\ sibling[1].model # turn.decision.model
      BY <1>2, SiblingSound DEF WalkInv, siblingViable, TypeOK
    <2>3. bindings = resolveBindingsForDispatch(t, sibling[1]) /\ arm.model = sibling[1].model
      BY <1>2 DEF WalkInv, SiblingBindings
    <2> HIDE DEF t
    <2>4. Distinct(bindings)
          /\ (turn.failover => \A j \in 1 .. Len(bindings) : bindings[j] \notin turn.disabled)
      BY <2>1, <2>2, <2>3, ResolveSound
    <2>5. bindings = Walked(arm.model)
      BY <1>2, <2>2, <2>3 DEF WalkInv, Walked
    <2> QED BY <2>2, <2>3, <2>4, <2>5
  <1> QED BY <1>1, <1>2 DEF TypeOK

\* The attempts so far stand as they were while none is added.
LEMMA TriedStays ==
  ASSUME IInv, UNCHANGED <<turn, sibling, rescue, tried>>, RecentInv'
  PROVE  TriedInv'
  <1>1. \A m : SpreadOf(m) => SpreadOf(m)'
    BY DEF SpreadOf, Walked, SiblingBindings
  <1> QED BY <1>1 DEF IInv, TriedInv, ForbiddenNeverTried

\* A walk that has ended adds no attempt.
LEMMA WalkOver ==
  ASSUME pc' \notin {"walk", "attempt", "upstream", "failed"}
  PROVE  RecentInv'
  BY DEF RecentInv

\* Discard empties a buffer that has sent nothing.
LEMMA Discarded ==
  ASSUME TypeOK, ~buf.committed, Discard
  PROVE  buf' = EmptyBuffer /\ buf' \in BufType /\ ~buf'.committed /\ header' \in Nat
  <1>1. buf' = EmptyBuffer /\ header' \in Nat
    BY DEF Discard
  <1>2. EmptyBuffer \in BufType /\ ~EmptyBuffer.committed
    BY DEF EmptyBuffer, BufType
  <1> QED BY <1>1, <1>2

\* A position that is not the last one belongs to a list of several.
LEMMA MoreThanOne ==
  ASSUME NEW a \in Nat, NEW b \in Nat, a >= 1, a < b
  PROVE  b # 1
  OBVIOUS

\* A position that has been walked past stays walked past.
LEMMA LongerRange ==
  ASSUME NEW a \in Nat, NEW b \in Nat, a <= b, NEW j \in 1 .. a - 1 + 0
  PROVE  j \in 1 .. b - 1 + 0
  OBVIOUS

-----------------------------------------------------------------------------
(* Every action keeps the invariant.                                        *)

\* The request is refused before any binding is tried.
LEMMA IncompatibleKeeps ==
  ASSUME IInv, Incompatible
  PROVE  IInv'
  <1> USE DEF inputs, walk
  <1>1. TypeOK'
    BY DEF Incompatible, Return, Unsent, IInv, TypeOK, WireType, BufType, Errors,
           maxSameBindingRetries
  <1>2. WalkInv'
    BY DEF Incompatible, Return, Unsent, IInv, TypeOK, WalkInv, BufInv, siblingViable,
           SiblingBindings
  <1>3. BufInv'
    BY DEF Incompatible, Return, Unsent, IInv, TypeOK, WalkInv, BufInv
  <1>4. WireInv'
    BY DEF Incompatible, Return, Unsent, IInv, TypeOK, WalkInv, BufInv, WireInv, ErrInv,
           siblingViable
  <1>5. ErrInv'
    BY DEF Incompatible, Return, Unsent, IInv, TypeOK, WalkInv, BufInv, WireInv, ErrInv,
           Buffered, siblingViable
  <1>6. TriedInv'
    BY TriedStays, WalkOver DEF Incompatible, Return, Unsent, IInv, WalkInv
  <1> QED BY <1>1, <1>2, <1>3, <1>4, <1>5, <1>6 DEF IInv

\* No binding is left to try.
LEMMA NoBindingKeeps ==
  ASSUME IInv, NoBinding
  PROVE  IInv'
  <1> USE DEF inputs, walk
  <1>a. wire = R!Silent /\ ~buf.committed /\ buf.held = {}
    BY DEF NoBinding, IInv, WalkInv, BufInv, WireInv
  <1>b. wire' = IF ~deferFlushOnExhaustion /\ Buffered(err')
               THEN R!Refused(1, 0) ELSE R!Silent
    BY <1>a, FlushStep DEF NoBinding, Return
  <1>c. wire' \in WireType
    BY <1>b, FormTyped
  <1>1. TypeOK'
    BY <1>c DEF NoBinding, Return, deferFlushOnExhaustion, IInv, TypeOK, WireType, BufType,
           Errors, maxSameBindingRetries
  <1>2. WalkInv'
    BY DEF NoBinding, Return, deferFlushOnExhaustion, IInv, TypeOK, WalkInv, BufInv,
           siblingViable, SiblingBindings
  <1>3. BufInv'
    BY <1>a DEF NoBinding, Return, deferFlushOnExhaustion, IInv, TypeOK, WalkInv, BufInv
  <1>4. WireInv'
    BY <1>a, <1>b DEF NoBinding, Return, deferFlushOnExhaustion, IInv, TypeOK, WalkInv,
           BufInv, WireInv, ErrInv, siblingViable
  <1>5. ErrInv'
    BY <1>a, <1>b, Forms DEF NoBinding, Return, deferFlushOnExhaustion, IInv, TypeOK,
           WalkInv, BufInv, WireInv, ErrInv, Buffered, siblingViable
  <1>6. TriedInv'
    BY TriedStays, WalkOver DEF NoBinding, Return, deferFlushOnExhaustion, IInv, WalkInv
  <1> QED BY <1>1, <1>2, <1>3, <1>4, <1>5, <1>6 DEF IInv

\* The walk takes its next binding.
LEMMA NextBindingKeeps ==
  ASSUME IInv, NextBinding
  PROVE  IInv'
  <1> USE DEF inputs, walk
  <1>a. bindings[i] \in Providers /\ arm' \in Arm
    <2>1. bindings[i] \in Providers
      BY DEF NextBinding, IInv, TypeOK, WalkInv
    <2> QED BY <2>1 DEF NextBinding, IInv, TypeOK, Arm
  <1>b. buf' \in BufType /\ header' \in Nat /\ ~buf.committed /\ ~buf'.committed
    <2>1. ~buf.committed /\ buf \in BufType /\ header \in Nat
      BY DEF NextBinding, IInv, TypeOK, BufInv, BufType
    <2> QED BY <2>1, Discarded DEF NextBinding, IInv
  <1>1. TypeOK'
    BY <1>a, <1>b DEF NextBinding, Return, Discard, EmptyBuffer, IInv, TypeOK, WireType,
           BufType, Errors, maxSameBindingRetries
  <1>2. WalkInv'
    BY SMTT(30) DEF NextBinding, Return, Discard, EmptyBuffer, IInv, TypeOK, WalkInv, BufInv,
           siblingViable, SiblingBindings
  <1>3. BufInv'
    BY DEF NextBinding, Return, Discard, EmptyBuffer, IInv, TypeOK, WalkInv, BufInv
  <1>4. WireInv'
    BY <1>b DEF NextBinding, Return, Discard, EmptyBuffer, IInv, TypeOK, WalkInv, BufInv,
           WireInv, ErrInv, siblingViable
  <1>5. ErrInv'
    BY DEF NextBinding, Return, Discard, EmptyBuffer, IInv, TypeOK, WalkInv, BufInv,
           WireInv, ErrInv, Buffered, siblingViable
  <1>6. TriedInv'
    <2>1. CASE pc' \in {"walk", "attempt"}
      <3> SUFFICES ASSUME NEW k \in 1 .. Len(tried), tried[k].model = arm.model
                   PROVE  IF Len(bindings) = 1 THEN k > Len(tried) - (sb' + 0)
                          ELSE \E j \in 1 .. i' - 1 + 0 : tried[k].provider = bindings[j]
        <4>1. arm'.model = arm.model
          BY DEF NextBinding, IInv, TypeOK, Arm
        <4>2. RecentInv'
          BY <2>1, <4>1 DEF NextBinding, RecentInv, Begun
        <4> QED BY <4>2, TriedStays DEF NextBinding
      <3>1. IF Len(bindings) = 1 THEN k > Len(tried) - (sb + 0)
            ELSE \E j \in 1 .. i - 1 + 0 : tried[k].provider = bindings[j]
        BY DEF NextBinding, IInv, TriedInv, RecentInv, Begun
      <3>2. sb' = sb /\ i' \in {i, i + 1} /\ i \in Nat
        BY DEF NextBinding, IInv, WalkInv, TypeOK
      <3>3. CASE Len(bindings) = 1
        BY <3>1, <3>2, <3>3
      <3>4. CASE Len(bindings) # 1
        <4>1. PICK j \in 1 .. i - 1 + 0 : tried[k].provider = bindings[j]
          BY <3>1, <3>4
        <4>2. i' \in Nat /\ i <= i' /\ i \in Nat
          BY <3>2
        <4>3. j \in 1 .. i' - 1 + 0
          BY <4>1, <4>2, LongerRange, Zenon
        <4> QED BY <3>4, <4>1, <4>3
      <3> QED BY <3>3, <3>4
    <2>2. CASE pc' \notin {"walk", "attempt"}
      BY <2>2, TriedStays, WalkOver DEF NextBinding, Return, IInv, TypeOK
    <2> QED BY <2>1, <2>2
  <1> QED BY <1>1, <1>2, <1>3, <1>4, <1>5, <1>6 DEF IInv

\* An attempt starts and is recorded.
LEMMA BeginAttemptKeeps ==
  ASSUME IInv, BeginAttempt
  PROVE  IInv'
  <1> USE DEF inputs, walk
  <1>a. Len(tried) + 1 \in Nat /\ tried' \in Seq(Arm) /\ Len(tried') = Len(tried) + 1
    BY DEF BeginAttempt, IInv, TypeOK
  <1>b. buf' \in BufType
    BY <1>a DEF BeginAttempt, IInv, TypeOK, BufType
  <1>1. TypeOK'
    BY <1>a, <1>b DEF BeginAttempt, IInv, TypeOK, WireType, BufType, Errors,
           maxSameBindingRetries
  <1>2. WalkInv'
    BY DEF BeginAttempt, IInv, TypeOK, WalkInv, BufInv, siblingViable, SiblingBindings
  <1>3. BufInv'
    BY DEF BeginAttempt, IInv, TypeOK, WalkInv, BufInv
  <1>4. WireInv'
    BY DEF BeginAttempt, IInv, TypeOK, WalkInv, BufInv, WireInv, ErrInv, siblingViable
  <1>5. ErrInv'
    BY DEF BeginAttempt, IInv, TypeOK, WalkInv, BufInv, WireInv, ErrInv, Buffered,
           siblingViable
  <1>6. TriedInv'
    <2> DEFINE n == Len(tried) + 1
    <2>1. /\ Len(tried) \in Nat /\ Len(tried') = n /\ tried'[n] = arm
          /\ \A k \in 1 .. Len(tried) : tried'[k] = tried[k]
          /\ \A k \in 1 .. n : k \in 1 .. Len(tried) \/ k = n
      BY <1>a DEF BeginAttempt, IInv, TypeOK
    <2>2. /\ bindings \in Seq(Providers) /\ Distinct(bindings)
          /\ i \in 1 .. Len(bindings) /\ arm.provider = bindings[i]
          /\ turn.failover => arm.provider \notin turn.disabled
          /\ bindings = Walked(arm.model)
      BY BindingsSound DEF BeginAttempt, IInv, TypeOK, WalkInv
    <2>3. ForbiddenNeverTried'
      BY <2>1, <2>2 DEF BeginAttempt, IInv, TriedInv, ForbiddenNeverTried
    <2>4. ~rescue => \A k \in 1 .. n : tried'[k].model = turn.decision.model
      BY <2>1 DEF IInv, TriedInv, WalkInv
    <2>5. ASSUME NEW k \in 1 .. Len(tried), tried[k].model = arm.model
          PROVE  IF Len(bindings) = 1 THEN k > Len(tried) - sb
                 ELSE \E j \in 1 .. i - 1 : tried[k].provider = bindings[j]
      <3>1. sb + 0 = sb /\ i - 1 + 0 = i - 1
        BY DEF IInv, TypeOK
      <3> QED BY <2>5, <3>1 DEF BeginAttempt, IInv, TriedInv, RecentInv, Begun
    <2>6. sb \in 0 .. 2
      BY DEF IInv, TypeOK, maxSameBindingRetries
    <2>7. RecentInv'
      <3> SUFFICES ASSUME NEW k \in 1 .. n, tried'[k].model = arm.model
                   PROVE  IF Len(bindings) = 1 THEN k > n - (sb + 1)
                          ELSE \E j \in 1 .. i - 1 + 1 : tried'[k].provider = bindings[j]
        BY <2>1 DEF BeginAttempt, RecentInv, Begun
      <3>1. CASE k = n
        BY <2>1, <2>2, <2>6, <3>1
      <3>2. CASE k \in 1 .. Len(tried)
        BY <2>1, <2>2, <2>5, <2>6, <3>2
      <3> QED BY <2>1, <3>1, <3>2
    <2>8. ASSUME NEW m \in Models, m = turn.decision.model \/ rescue
          PROVE  SpreadOf(m)'
      <3>1. SpreadOf(m) /\ Walked(m)' = Walked(m)
        BY <2>8 DEF IInv, TriedInv, BeginAttempt, Walked, SiblingBindings
      <3>2. CASE m # arm.model
        <4>1. \A k \in 1 .. n : tried'[k].model = m => k \in 1 .. Len(tried)
          BY <2>1, <3>2
        <4> QED BY <2>1, <3>1, <4>1 DEF SpreadOf
      <3>3. CASE m = arm.model /\ Len(bindings) = 1
        <4>1. \A k \in 1 .. n : tried'[k].model = m => k \in Len(tried) - 1 .. Len(tried) - 1 + 2
          BY <2>1, <2>5, <2>6, <3>3
        <4>2. Len(tried) - 1 \in Int
          BY <2>1
        <4>3. \E b \in Int : \A k \in 1 .. n : tried'[k].model = m => k \in b .. b + 2
          BY <4>1, <4>2, LongerRange, Zenon
        <4> QED BY <2>1, <2>2, <3>1, <3>3, <4>3 DEF SpreadOf
      <3>4. CASE m = arm.model /\ Len(bindings) # 1
        <4>1. ASSUME NEW k \in 1 .. Len(tried), tried[k] = arm
              PROVE  FALSE
          <5>1. PICK j \in 1 .. i - 1 : bindings[i] = bindings[j]
            BY <2>2, <2>5, <3>4, <4>1
          <5> QED BY <2>2, <5>1 DEF Distinct
        <4>2. \A k, l \in 1 .. Len(tried) : tried[k].model = m /\ tried[k] = tried[l] => k = l
          BY <2>2, <3>1, <3>4 DEF SpreadOf
        <4>3. \A k, l \in 1 .. n : tried'[k].model = m /\ tried'[k] = tried'[l] => k = l
          BY <2>1, <4>1, <4>2
        <4> QED BY <2>1, <2>2, <3>1, <3>4, <4>3 DEF SpreadOf
      <3> QED BY <3>2, <3>3, <3>4
    <2> QED BY <2>1, <2>3, <2>4, <2>7, <2>8 DEF TriedInv, BeginAttempt
  <1> QED BY <1>1, <1>2, <1>3, <1>4, <1>5, <1>6 DEF IInv

\* The upstream writes, into the prelude or to the client.
LEMMA UpstreamOutputKeeps ==
  ASSUME IInv, UpstreamOutput
  PROVE  IInv'
  <1> USE DEF inputs, walk
  <1>a. Len(tried) \in Nat
    BY DEF IInv, TypeOK
  <1>b. wire' = R!Sent({Len(tried)}, FALSE)
    BY FirstCommit DEF UpstreamOutput, IInv, BufInv, WireInv
  <1>c. wire' \in WireType /\ buf' \in BufType
    <2>1. wire' \in WireType
      BY <1>a, <1>b, FormTyped
    <2> QED BY <2>1 DEF UpstreamOutput, commit, IInv, TypeOK, BufType
  <1>d. buf'.committed
    BY DEF UpstreamOutput, commit, IInv, TypeOK
  <1>1. TypeOK'
    BY <1>c DEF UpstreamOutput, commit, Attempt, IInv, TypeOK, WireType, BufType, Errors,
           maxSameBindingRetries
  <1>2. WalkInv'
    BY DEF UpstreamOutput, commit, Attempt, IInv, TypeOK, WalkInv, BufInv, siblingViable,
           SiblingBindings
  <1>3. BufInv'
    BY DEF UpstreamOutput, commit, Attempt, IInv, TypeOK, WalkInv, BufInv
  <1>4. WireInv'
    BY <1>b, <1>d DEF UpstreamOutput, commit, Attempt, IInv, TypeOK, WalkInv, BufInv,
           WireInv, ErrInv, siblingViable
  <1>5. ErrInv'
    BY DEF UpstreamOutput, commit, Attempt, IInv, TypeOK, WalkInv, BufInv, WireInv, ErrInv,
           Buffered, siblingViable
  <1>6. TriedInv'
    <2>1. RecentInv'
      BY DEF UpstreamOutput, RecentInv, Begun, IInv, TriedInv
    <2> QED BY <2>1, TriedStays DEF UpstreamOutput
  <1> QED BY <1>1, <1>2, <1>3, <1>4, <1>5, <1>6 DEF IInv

\* The upstream ends its answer.
LEMMA UpstreamCompleteKeeps ==
  ASSUME IInv, UpstreamComplete
  PROVE  IInv'
  <1> USE DEF inputs, walk
  <1>a. Len(tried) \in Nat
    BY DEF IInv, TypeOK
  <1>b. wire' = R!Sent({Len(tried)}, TRUE)
    BY FirstCommit, LastCommit DEF UpstreamComplete, IInv, BufInv, WireInv
  <1>c. wire' \in WireType /\ buf' \in BufType
    <2>1. wire' \in WireType
      BY <1>a, <1>b, FormTyped
    <2> QED BY <2>1 DEF UpstreamComplete, commit, IInv, TypeOK, BufType
  <1>d. buf'.committed
    BY DEF UpstreamComplete, commit, IInv, TypeOK
  <1>1. TypeOK'
    BY <1>c DEF UpstreamComplete, commit, Attempt, Return, IInv, TypeOK, WireType, BufType,
           Errors, maxSameBindingRetries
  <1>2. WalkInv'
    BY DEF UpstreamComplete, commit, Attempt, Return, IInv, TypeOK, WalkInv, BufInv,
           siblingViable, SiblingBindings
  <1>3. BufInv'
    BY DEF UpstreamComplete, commit, Attempt, Return, IInv, TypeOK, WalkInv, BufInv
  <1>4. WireInv'
    BY <1>b, <1>d DEF UpstreamComplete, commit, Attempt, Return, IInv, TypeOK, WalkInv,
           BufInv, WireInv, ErrInv, siblingViable
  <1>5. ErrInv'
    BY DEF UpstreamComplete, commit, Attempt, Return, IInv, TypeOK, WalkInv, BufInv,
           WireInv, ErrInv, Buffered, siblingViable
  <1>6. TriedInv'
    BY TriedStays, WalkOver DEF UpstreamComplete, commit, Attempt, Return, IInv, WalkInv
  <1> QED BY <1>1, <1>2, <1>3, <1>4, <1>5, <1>6 DEF IInv

\* The upstream breaks off after output was committed.
LEMMA UpstreamBreaksKeeps ==
  ASSUME IInv, UpstreamBreaks
  PROVE  IInv'
  <1> USE DEF inputs, walk
  <1>a. \E ended \in BOOLEAN : wire' = R!Sent({Len(tried)}, ended)
    BY DEF UpstreamBreaks, IInv, WireInv, R!Sent, R!Silent
  <1>1. TypeOK'
    BY DEF UpstreamBreaks, Return, IInv, TypeOK, WireType, BufType, Errors,
           maxSameBindingRetries
  <1>2. WalkInv'
    BY DEF UpstreamBreaks, Return, IInv, TypeOK, WalkInv, BufInv, siblingViable,
           SiblingBindings
  <1>3. BufInv'
    BY DEF UpstreamBreaks, Return, IInv, TypeOK, WalkInv, BufInv
  <1>4. WireInv'
    BY <1>a DEF UpstreamBreaks, Return, IInv, TypeOK, WalkInv, BufInv, WireInv, ErrInv,
           siblingViable
  <1>5. ErrInv'
    BY DEF UpstreamBreaks, Return, IInv, TypeOK, WalkInv, BufInv, WireInv, ErrInv,
           Buffered, siblingViable
  <1>6. TriedInv'
    BY TriedStays, WalkOver DEF UpstreamBreaks, Return, IInv, WalkInv
  <1> QED BY <1>1, <1>2, <1>3, <1>4, <1>5, <1>6 DEF IInv

\* The upstream fails before anything was committed.
LEMMA UpstreamFailsKeeps ==
  ASSUME IInv, UpstreamFails
  PROVE  IInv'
  <1> USE DEF inputs, walk
  <1>1. TypeOK'
    BY DEF UpstreamFails, Unsent, AttemptErrors, IInv, TypeOK, WireType, BufType, Errors,
           maxSameBindingRetries
  <1>2. WalkInv'
    BY DEF UpstreamFails, Unsent, AttemptErrors, IInv, TypeOK, WalkInv, BufInv,
           siblingViable, SiblingBindings
  <1>3. BufInv'
    BY DEF UpstreamFails, Unsent, AttemptErrors, IInv, TypeOK, WalkInv, BufInv
  <1>4. WireInv'
    BY DEF UpstreamFails, Unsent, AttemptErrors, IInv, TypeOK, WalkInv, BufInv, WireInv,
           ErrInv, siblingViable
  <1>5. ErrInv'
    BY DEF UpstreamFails, Unsent, AttemptErrors, IInv, TypeOK, WalkInv, BufInv, WireInv,
           ErrInv, Buffered, siblingViable
  <1>6. TriedInv'
    <2>1. RecentInv'
      BY DEF UpstreamFails, Unsent, RecentInv, Begun, IInv, TriedInv
    <2> QED BY <2>1, TriedStays DEF UpstreamFails, Unsent
  <1> QED BY <1>1, <1>2, <1>3, <1>4, <1>5, <1>6 DEF IInv

\* The same binding is tried again.
LEMMA RetrySameBindingKeeps ==
  ASSUME IInv, RetrySameBinding
  PROVE  IInv'
  <1> USE DEF inputs, walk
  <1>a. buf' \in BufType /\ header' \in Nat
    BY Discarded DEF RetrySameBinding, IInv, BufInv
  <1>1. TypeOK'
    BY <1>a DEF RetrySameBinding, MayRetry, Discard, EmptyBuffer, IInv, TypeOK, WireType,
           BufType, Errors, maxSameBindingRetries
  <1>2. WalkInv'
    BY DEF RetrySameBinding, MayRetry, Discard, EmptyBuffer, IInv, TypeOK, WalkInv, BufInv,
           siblingViable, SiblingBindings
  <1>3. BufInv'
    BY DEF RetrySameBinding, MayRetry, Discard, EmptyBuffer, IInv, TypeOK, WalkInv, BufInv
  <1>4. WireInv'
    BY DEF RetrySameBinding, MayRetry, Discard, EmptyBuffer, IInv, TypeOK, WalkInv, BufInv,
           WireInv, ErrInv, siblingViable
  <1>5. ErrInv'
    BY DEF RetrySameBinding, MayRetry, Discard, EmptyBuffer, IInv, TypeOK, WalkInv, BufInv,
           WireInv, ErrInv, Buffered, siblingViable
  <1>6. TriedInv'
    <2>1. sb \in Nat /\ sb + 1 = sb' + 0 /\ Len(bindings) = 1
      BY DEF RetrySameBinding, MayRetry, IInv, TypeOK, maxSameBindingRetries
    <2>2. RecentInv'
      BY <2>1 DEF RetrySameBinding, RecentInv, Begun, IInv, TriedInv
    <2> QED BY <2>2, TriedStays DEF RetrySameBinding
  <1> QED BY <1>1, <1>2, <1>3, <1>4, <1>5, <1>6 DEF IInv

\* The client leaves during the backoff.
LEMMA AbortBackoffKeeps ==
  ASSUME IInv, AbortBackoff
  PROVE  IInv'
  <1> USE DEF inputs, walk
  <1>a. buf' \in BufType /\ header' \in Nat
    BY Discarded DEF AbortBackoff, IInv, BufInv
  <1>1. TypeOK'
    BY <1>a DEF AbortBackoff, MayRetry, Discard, EmptyBuffer, Return, IInv, TypeOK,
           WireType, BufType, Errors, maxSameBindingRetries
  <1>2. WalkInv'
    BY DEF AbortBackoff, MayRetry, Discard, EmptyBuffer, Return, IInv, TypeOK, WalkInv,
           BufInv, siblingViable, SiblingBindings
  <1>3. BufInv'
    BY DEF AbortBackoff, MayRetry, Discard, EmptyBuffer, Return, IInv, TypeOK, WalkInv,
           BufInv
  <1>4. WireInv'
    BY DEF AbortBackoff, MayRetry, Discard, EmptyBuffer, Return, IInv, TypeOK, WalkInv,
           BufInv, WireInv, ErrInv, siblingViable
  <1>5. ErrInv'
    BY DEF AbortBackoff, MayRetry, Discard, EmptyBuffer, Return, IInv, TypeOK, WalkInv,
           BufInv, WireInv, ErrInv, Buffered, siblingViable
  <1>6. TriedInv'
    BY TriedStays, WalkOver DEF AbortBackoff, MayRetry, Discard, EmptyBuffer, Return, IInv,
           WalkInv
  <1> QED BY <1>1, <1>2, <1>3, <1>4, <1>5, <1>6 DEF IInv

\* The walk moves on after a failure.
LEMMA FailoverKeeps ==
  ASSUME IInv, Failover
  PROVE  IInv'
  <1> USE DEF inputs, walk
  <1>1. TypeOK'
    BY DEF Failover, Unsent, IInv, TypeOK, WireType, BufType, Errors, maxSameBindingRetries
  <1>2. WalkInv'
    <2>1. Len(bindings) \in Nat /\ i \in Nat /\ i < Len(bindings) /\ i' = i + 1 /\ i >= 1
      BY DEF Failover, IInv, TypeOK
    <2>2. Len(bindings) # 1
      BY <2>1, MoreThanOne, Zenon
    <2>2a. i' \in 1 .. Len(bindings)
      BY <2>1
    <2>2b. bindings # <<>>
      BY DEF Failover, IInv, WalkInv
    <2>3. sb = 0
      BY <2>2 DEF IInv, WalkInv
    <2> QED BY <2>2, <2>2a, <2>2b, <2>3
        DEF Failover, Unsent, IInv, WalkInv, siblingViable, SiblingBindings
  <1>3. BufInv'
    BY DEF Failover, Unsent, IInv, TypeOK, WalkInv, BufInv
  <1>4. WireInv'
    BY DEF Failover, Unsent, IInv, TypeOK, WalkInv, BufInv, WireInv, ErrInv, siblingViable
  <1>5. ErrInv'
    BY DEF Failover, Unsent, IInv, TypeOK, WalkInv, BufInv, WireInv, ErrInv, Buffered,
           siblingViable
  <1>6. TriedInv'
    <2>a. Len(bindings) \in Nat /\ i \in Nat /\ i < Len(bindings) /\ i' = i + 1 /\ i >= 1
      BY DEF Failover, IInv, TypeOK
    <2>1. i - 1 + 1 = i' - 1 + 0
      BY <2>a
    <2>1b. Len(bindings) # 1
      BY <2>a, MoreThanOne, Zenon
    <2>2. RecentInv'
      BY <2>1, <2>1b DEF Failover, Unsent, RecentInv, Begun, IInv, TriedInv
    <2> QED BY <2>2, TriedStays DEF Failover, Unsent
  <1> QED BY <1>1, <1>2, <1>3, <1>4, <1>5, <1>6 DEF IInv

\* The last binding has failed.
LEMMA ExhaustedKeeps ==
  ASSUME IInv, Exhausted
  PROVE  IInv'
  <1> USE DEF inputs, walk
  <1>a. wire = R!Silent /\ ~buf.committed
    BY DEF Exhausted, IInv, BufInv, WireInv
  <1>b. wire' = IF ~deferFlushOnExhaustion /\ Buffered(err')
               THEN R!Refused(1, 0) ELSE R!Silent
    BY <1>a, FlushStep DEF Exhausted, Return
  <1>c. wire' \in WireType
    BY <1>b, FormTyped
  <1>d. buf' = EmptyBuffer /\ buf' \in BufType
    BY <1>a, Discarded DEF Exhausted, IInv
  <1>1. TypeOK'
    BY <1>a, <1>c, <1>d DEF Exhausted, Discard, EmptyBuffer, Return,
           deferFlushOnExhaustion, IInv, TypeOK, WireType, BufType, Errors, maxSameBindingRetries
  <1>2. WalkInv'
    BY DEF Exhausted, Discard, EmptyBuffer, Return, deferFlushOnExhaustion, IInv, TypeOK,
           WalkInv, BufInv, siblingViable, SiblingBindings
  <1>3. BufInv'
    BY <1>a DEF Exhausted, Discard, EmptyBuffer, Return, deferFlushOnExhaustion, IInv,
           TypeOK, WalkInv, BufInv
  <1>4. WireInv'
    BY <1>a, <1>b, <1>d DEF Exhausted, Discard, EmptyBuffer, Return,
           deferFlushOnExhaustion, IInv, TypeOK, WalkInv, BufInv, WireInv, ErrInv, siblingViable
  <1>5. ErrInv'
    BY <1>a, <1>b, <1>d, Forms DEF Exhausted, Discard, EmptyBuffer, Return,
           deferFlushOnExhaustion, IInv, TypeOK, WalkInv, BufInv, WireInv, ErrInv, Buffered,
           siblingViable
  <1>6. TriedInv'
    BY TriedStays, WalkOver DEF Exhausted, Discard, EmptyBuffer, Return,
           deferFlushOnExhaustion, IInv, WalkInv
  <1> QED BY <1>1, <1>2, <1>3, <1>4, <1>5, <1>6 DEF IInv

\* A peer model takes over with a walk of its own.
LEMMA SiblingRescueKeeps ==
  ASSUME IInv, SiblingRescue
  PROVE  IInv'
  <1> USE DEF inputs, walk
  <1>a. sibling[1] \in Arm /\ sibling[1].model # turn.decision.model
    BY SiblingSound DEF SiblingRescue, RescueRuns, RescueOwed, siblingViable, IInv, TypeOK, WalkInv
  <1>b. SiblingBindings \in Seq(Providers)
    <2>1. [turn EXCEPT !.selected = FALSE] \in Turns
      BY DEF IInv, TypeOK, Turns
    <2> QED BY <1>a, <2>1, ResolveSound DEF SiblingBindings
  <1>1. TypeOK'
    BY <1>a, <1>b DEF SiblingRescue, RescueRuns, RescueOwed, Unsent, IInv, TypeOK,
           WireType, BufType, Errors, maxSameBindingRetries
  <1>2. WalkInv'
    BY DEF SiblingRescue, RescueRuns, RescueOwed, Unsent, IInv, TypeOK, WalkInv, BufInv,
           siblingViable, SiblingBindings
  <1>3. BufInv'
    BY DEF SiblingRescue, RescueRuns, RescueOwed, Unsent, IInv, TypeOK, WalkInv, BufInv
  <1>4. WireInv'
    BY DEF SiblingRescue, RescueRuns, RescueOwed, Unsent, IInv, TypeOK, WalkInv, BufInv,
           WireInv, ErrInv, siblingViable
  <1>5. ErrInv'
    BY DEF SiblingRescue, RescueRuns, RescueOwed, Unsent, IInv, TypeOK, WalkInv, BufInv,
           WireInv, ErrInv, Buffered, siblingViable
  <1>6. TriedInv'
    <2>1. \A k \in 1 .. Len(tried) : tried[k].model = turn.decision.model
      BY DEF SiblingRescue, IInv, WalkInv, TriedInv
    <2>2. RecentInv'
      BY <1>a, <2>1 DEF SiblingRescue, Unsent, RecentInv
    <2>3. ASSUME NEW m \in Models
          PROVE  SpreadOf(m)'
      <3>1. CASE m = turn.decision.model
        <4>1. SpreadOf(m)
          BY <3>1 DEF IInv, TriedInv
        <4> QED BY <4>1 DEF SpreadOf, Walked, SiblingBindings, SiblingRescue, Unsent
      <3>2. CASE m # turn.decision.model
        <4>1. \A k \in 1 .. Len(tried') : tried'[k].model # m
          BY <2>1, <3>2 DEF SiblingRescue, Unsent
        <4>2. 0 \in Int
          OBVIOUS
        <4> QED BY <4>1, <4>2 DEF SpreadOf
      <3> QED BY <3>1, <3>2
    <2> QED BY <2>2, <2>3 DEF SiblingRescue, Unsent, IInv, TriedInv, ForbiddenNeverTried
  <1> QED BY <1>1, <1>2, <1>3, <1>4, <1>5, <1>6 DEF IInv

\* No peer takes over.
LEMMA NoRescueKeeps ==
  ASSUME IInv, NoRescue
  PROVE  IInv'
  <1> USE DEF inputs, walk
  <1>a. wire' = IF RescueOwed /\ Buffered(err) THEN R!Refused(1, 0) ELSE wire
    BY FlushStep DEF NoRescue, RescueOwed, IInv, WireInv
  <1>b. wire' \in WireType
    BY <1>a, FormTyped DEF IInv, TypeOK, WireType
  <1>c. RescueOwed => wire = R!Silent
    BY DEF NoRescue, RescueOwed, IInv, WireInv
  <1>1. TypeOK'
    BY <1>b DEF NoRescue, RescueRuns, RescueOwed, IInv, TypeOK, WireType, BufType, Errors,
           maxSameBindingRetries
  <1>2. WalkInv'
    BY DEF NoRescue, RescueRuns, RescueOwed, IInv, TypeOK, WalkInv, BufInv, siblingViable,
           SiblingBindings
  <1>3. BufInv'
    BY DEF NoRescue, RescueRuns, RescueOwed, IInv, TypeOK, WalkInv, BufInv
  <1>4. WireInv'
    BY <1>a, <1>c DEF NoRescue, RescueRuns, RescueOwed, IInv, TypeOK, WalkInv, BufInv,
           WireInv, ErrInv, siblingViable
  <1>5. ErrInv'
    BY <1>a, <1>c, Forms DEF NoRescue, RescueRuns, RescueOwed, IInv, TypeOK, WalkInv,
           BufInv, WireInv, ErrInv, Buffered, siblingViable
  <1>6. TriedInv'
    BY TriedStays, WalkOver DEF NoRescue, RescueRuns, RescueOwed, IInv, WalkInv
  <1> QED BY <1>1, <1>2, <1>3, <1>4, <1>5, <1>6 DEF IInv

\* The turn is charged to an arm.
LEMMA AccountKeeps ==
  ASSUME IInv, Account
  PROVE  IInv'
  <1> USE DEF inputs, walk
  <1>a. final' \in Arm
    <2>1. bindings # <<>> => bindings[i] \in Providers
      BY DEF IInv, TypeOK, WalkInv
    <2>2. turn.decision \in Arm /\ arm \in Arm
      BY DispatchConstants DEF IInv, TypeOK, Turns
    <2> QED BY <2>1, <2>2 DEF Account, Arm
  <1>b. buf.committed => final' = arm
    BY DEF Account, IInv, TypeOK, BufInv, Arm
  <1>1. TypeOK'
    BY <1>a DEF Account, Unsent, IInv, TypeOK, WireType, BufType, Errors,
           maxSameBindingRetries
  <1>2. WalkInv'
    BY DEF Account, Unsent, IInv, TypeOK, WalkInv, BufInv, siblingViable, SiblingBindings
  <1>3. BufInv'
    BY DEF Account, Unsent, IInv, TypeOK, WalkInv, BufInv
  <1>4. WireInv'
    BY <1>b DEF Account, Unsent, IInv, TypeOK, WalkInv, BufInv, WireInv, ErrInv,
           siblingViable
  <1>5. ErrInv'
    BY DEF Account, Unsent, IInv, TypeOK, WalkInv, BufInv, WireInv, ErrInv, Buffered,
           siblingViable
  <1>6. TriedInv'
    BY TriedStays, WalkOver DEF Account, Unsent, IInv, WalkInv
  <1> QED BY <1>1, <1>2, <1>3, <1>4, <1>5, <1>6 DEF IInv

\* The handler answers with what is still owed.
LEMMA HandlerKeeps ==
  ASSUME IInv, Handler
  PROVE  IInv'
  <1> USE DEF inputs, walk
  <1>a. wire' = IF err # "none" /\ wire = R!Silent THEN R!Refused(0, 1) ELSE wire
    BY FirstEnvelope DEF Handler
  <1>b. wire' \in WireType
    BY <1>a, FormTyped DEF IInv, TypeOK, WireType
  <1>1. TypeOK'
    BY <1>b DEF Handler, IInv, TypeOK, WireType, BufType, Errors, maxSameBindingRetries
  <1>2. WalkInv'
    BY DEF Handler, IInv, TypeOK, WalkInv, BufInv, siblingViable, SiblingBindings
  <1>3. BufInv'
    BY DEF Handler, IInv, TypeOK, WalkInv, BufInv
  <1>4. WireInv'
    BY <1>a, Forms DEF Handler, IInv, TypeOK, WalkInv, BufInv, WireInv, ErrInv,
           siblingViable
  <1>5. ErrInv'
    BY <1>a, Forms DEF Handler, IInv, TypeOK, WalkInv, BufInv, WireInv, ErrInv, Buffered,
           siblingViable
  <1>6. TriedInv'
    BY TriedStays, WalkOver DEF Handler, IInv, WalkInv
  <1> QED BY <1>1, <1>2, <1>3, <1>4, <1>5, <1>6 DEF IInv

\* The client leaves.
LEMMA ClientGoneKeeps ==
  ASSUME IInv, ClientGone
  PROVE  IInv'
  <1> USE DEF inputs, walk
  <1>1. TypeOK'
    BY DEF ClientGone, Unsent, IInv, TypeOK, WireType, BufType, Errors,
           maxSameBindingRetries
  <1>2. WalkInv'
    BY DEF ClientGone, Unsent, IInv, TypeOK, WalkInv, BufInv, siblingViable, SiblingBindings
  <1>3. BufInv'
    BY DEF ClientGone, Unsent, IInv, TypeOK, WalkInv, BufInv
  <1>4. WireInv'
    BY DEF ClientGone, Unsent, IInv, TypeOK, WalkInv, BufInv, WireInv, ErrInv, siblingViable
  <1>5. ErrInv'
    BY DEF ClientGone, Unsent, IInv, TypeOK, WalkInv, BufInv, WireInv, ErrInv, Buffered,
           siblingViable
  <1>6. TriedInv'
    <2>1. RecentInv'
      BY DEF ClientGone, Unsent, RecentInv, Begun, IInv, TriedInv
    <2> QED BY <2>1, TriedStays DEF ClientGone, Unsent
  <1> QED BY <1>1, <1>2, <1>3, <1>4, <1>5, <1>6 DEF IInv

-----------------------------------------------------------------------------
(* The theorems.                                                            *)

\* The invariant holds when the turn has been routed.
LEMMA InitInv ==
  ASSUME Init
  PROVE  IInv
  <1>1. turn \in Turns /\ turn.decision \in Arm
    BY DispatchConstants DEF Init, Turns
  <1>2. bindings \in Seq(Providers)
    BY <1>1, ResolveSound DEF Init
  <1>3. sibling \in Seq(Arm)
    <2>1. CASE sibling = <<>>
      BY <2>1
    <2>2. CASE sibling # <<>>
      <3>1. sibling[1] \in Arm
        BY <1>1, <2>2, SiblingSound DEF Init
      <3>2. sibling = <<sibling[1]>>
        BY <1>1, <2>2, SiblingSound DEF Init
      <3>3. <<sibling[1]>> \in Seq(Arm)
        BY <3>1
      <3> QED BY <3>2, <3>3
    <2> QED BY <2>1, <2>2
  <1>4. buf \in BufType /\ buf.held = {} /\ ~buf.committed
    BY DEF Init, EmptyBuffer, BufType
  <1>5. wire \in WireType
    BY Forms DEF Init
  <1>6. Len(tried) = 0 /\ tried \in Seq(Arm)
    BY DEF Init
  <1>7. TypeOK
    <2>1. /\ i \in Nat \ {0} /\ sb \in 0 .. maxSameBindingRetries
          /\ header \in Nat /\ named \in Nat
      BY DEF Init, maxSameBindingRetries
    <2>2. arm \in Arm /\ final \in Arm /\ rescue \in BOOLEAN /\ gone \in BOOLEAN
      BY <1>1 DEF Init
    <2>3. err \in Errors /\ pc = "walk"
      BY DEF Init, Errors
    <2> QED BY <1>1, <1>2, <1>3, <1>4, <1>5, <1>6, <2>1, <2>2, <2>3 DEF TypeOK, WireType, BufType
  <1>8. WalkInv
    BY <1>2 DEF Init, WalkInv
  <1>9. BufInv
    BY <1>4 DEF Init, BufInv
  <1>10. WireInv /\ ErrInv
    BY DEF Init, WireInv, ErrInv
  <1>11. TriedInv
    <2>1. 0 \in Int
      OBVIOUS
    <2> QED BY <1>6, <2>1 DEF Init, TriedInv, ForbiddenNeverTried, SpreadOf, RecentInv
  <1> QED BY <1>7, <1>8, <1>9, <1>10, <1>11 DEF IInv

\* Every step of the turn keeps the invariant.
LEMMA NextInv ==
  ASSUME IInv, [Next]_vars
  PROVE  IInv'
  <1>1. CASE Step
    BY <1>1, IncompatibleKeeps, NoBindingKeeps, NextBindingKeeps, BeginAttemptKeeps,
       UpstreamOutputKeeps, UpstreamCompleteKeeps, UpstreamBreaksKeeps, UpstreamFailsKeeps,
       RetrySameBindingKeeps, AbortBackoffKeeps, FailoverKeeps, ExhaustedKeeps,
       SiblingRescueKeeps, NoRescueKeeps, AccountKeeps, HandlerKeeps DEF Step
  <1>2. CASE ClientGone
    BY <1>2, ClientGoneKeeps
  <1>3. CASE UNCHANGED vars
    <2>1. TypeOK' /\ WalkInv'
      BY <1>3 DEF vars, inputs, walk, IInv, TypeOK, WalkInv, siblingViable, SiblingBindings
    <2>2. BufInv' /\ WireInv' /\ ErrInv'
      BY <1>3 DEF vars, inputs, walk, IInv, BufInv, WireInv, ErrInv, siblingViable
    <2>3. RecentInv'
      BY <1>3 DEF vars, inputs, walk, IInv, TriedInv, RecentInv, Begun
    <2>4. TriedInv'
      BY <1>3, <2>3, TriedStays DEF vars, inputs, walk
    <2> QED BY <2>1, <2>2, <2>4 DEF IInv
  <1> QED BY <1>1, <1>2, <1>3 DEF Next

\* The walk, the prelude buffer, the reply, the error owed and the attempts made
\* stay consistent in every reachable state.
THEOREM Inductive == Spec => []IInv
  <1>1. Init => IInv
    BY InitInv
  <1>2. IInv /\ [Next]_vars => IInv'
    BY NextInv
  <1> QED BY <1>1, <1>2, PTL DEF Spec

\* Every variable of the dispatch keeps its type.
THEOREM DispatchTyped == Spec => []TypeOK
  <1>1. IInv => TypeOK
    BY DEF IInv
  <1> QED BY <1>1, Inductive, PTL

\* A provider is tried at most once among several, and thrice when it is alone.
LEMMA Retries ==
  ASSUME IInv
  PROVE  RetriesBounded
  <1> DEFINE primary == resolveBindingsForDispatch(turn, turn.decision)
             limit(m) == IF Len(IF m = turn.decision.model THEN primary ELSE SiblingBindings) = 1
                         THEN maxSameBindingRetries + 1 ELSE 1
             again(a) == { k \in 1 .. Len(tried) : tried[k] = a }
  <1> SUFFICES ASSUME NEW n \in 1 .. Len(tried)
               PROVE  Cardinality(again(tried[n])) <= limit(tried[n].model)
    BY DEF RetriesBounded
  <1> DEFINE a == tried[n]
  <1>1. a \in Arm /\ a.model \in Models
    <2>1. tried \in Seq(Arm)
      BY DEF IInv, TypeOK
    <2> HIDE DEF again, limit
    <2>2. a \in Arm
      BY <2>1, ElementOf, Zenon
    <2> QED BY <2>2 DEF Arm
  <1>2. a.model = turn.decision.model \/ rescue
    BY DEF IInv, TriedInv, TypeOK
  <1>3. SpreadOf(a.model)
    BY <1>1, <1>2 DEF IInv, TriedInv
  <1>4. CASE Len(Walked(a.model)) = 1
    <2>1. PICK b \in Int : \A k \in 1 .. Len(tried) : tried[k].model = a.model => k \in b .. b + 2
      BY <1>3, <1>4 DEF SpreadOf
    <2>2. again(a) \subseteq b .. b + 2
      BY <2>1
    <2>3. IsFiniteSet(b .. b + 2) /\ Cardinality(b .. b + 2) = 3
      <3>1. b + 2 \in Int /\ ~(b > b + 2) /\ (b + 2) - b + 1 = 3
        OBVIOUS
      <3> QED BY <3>1, FS_Interval
    <2> HIDE DEF again
    <2>4. Cardinality(again(a)) <= 3
      BY <2>2, <2>3, FS_Subset
    <2>5. limit(a.model) = 3
      BY <1>4 DEF Walked, maxSameBindingRetries
    <2> QED BY <2>4, <2>5
  <1>5. CASE Len(Walked(a.model)) # 1
    <2>1. again(a) = {n}
      BY <1>3, <1>5 DEF SpreadOf
    <2>2. Cardinality(again(a)) = 1
      BY <2>1, FS_Singleton
    <2>3. limit(a.model) = 1
      BY <1>5 DEF Walked
    <2> QED BY <2>2, <2>3
  <1> QED BY <1>4, <1>5

\* What has been sent is the last attempt's, which the headers name.
LEMMA Credited ==
  ASSUME IInv
  PROVE  HeadersNameServer /\ AttributedToServer
  <1>1. wire.from # {} => buf.committed /\ wire.from = {Len(tried)}
    <2>1. Len(tried) \in Nat
      BY DEF IInv, TypeOK
    <2>2. \/ wire \in {R!Silent, R!Refused(1, 0), R!Refused(0, 1)}
          \/ buf.committed /\ \E ended \in BOOLEAN : wire = R!Sent({Len(tried)}, ended)
      BY DEF IInv, TypeOK, WireInv
    <2> QED BY <2>1, <2>2, Forms
  <1>2. HeadersNameServer
    BY <1>1 DEF IInv, BufInv, HeadersNameServer
  <1>3. AttributedToServer
    BY <1>1 DEF IInv, BufInv, WireInv, AttributedToServer
  <1> QED BY <1>2, <1>3

\* Failover, retries and the sibling rescue stay within what the session permits
\* and the retry budget, and the reply is credited to the arm that served it, for
\* every catalog and every turn.
THEOREM AttemptsAreSound == Spec => []AttemptsSound
  <1>1. IInv => AttemptsSound
    BY Retries, Credited DEF AttemptsSound, IInv, TriedInv
  <1> QED BY <1>1, Inductive, PTL

\* An upstream error that ends the turn has reached the client, once.
THEOREM ErrorSurfaces == Spec => []UpstreamErrorSurfaces
  <1>1. IInv => UpstreamErrorSurfaces
    BY DEF IInv, ErrInv, UpstreamErrorSurfaces
  <1> QED BY <1>1, Inductive, PTL

-----------------------------------------------------------------------------
(* Dispatch implements Reply.                                               *)

\* The first bytes of an attempt are a first step of the reply.
LEMMA BeginsReply ==
  ASSUME NEW n, NEW ended \in BOOLEAN, wire = R!Silent, wire' = R!Sent({n}, ended),
         R!Sent({n}, ended).from = {n}
  PROVE  R!Next
  BY DEF R!Next, R!Begin, R!One

\* The steps that end a walk or the handler are steps of the reply.
LEMMA WalkStepsReply ==
  ASSUME IInv, NoBinding \/ Exhausted \/ NoRescue \/ Handler
  PROVE  R!Next \/ UNCHANGED wire
  <1>1. CASE NoBinding
    BY <1>1, FlushStep DEF NoBinding, IInv, WireInv, R!Next, R!Refuse
  <1>2. CASE Exhausted
    BY <1>2, FlushStep DEF Exhausted, IInv, WireInv, R!Next, R!Refuse
  <1>3. CASE NoRescue
    BY <1>3, FlushStep DEF NoRescue, RescueOwed, IInv, WireInv, R!Next, R!Refuse
  <1>4. CASE Handler
    BY <1>4, FirstEnvelope DEF Handler, R!Next, R!Refuse
  <1> QED BY <1>1, <1>2, <1>3, <1>4

\* An upstream's output, completion or break is a step of the reply.
LEMMA UpstreamStepsReply ==
  ASSUME IInv, UpstreamOutput \/ UpstreamComplete \/ UpstreamBreaks
  PROVE  R!Next \/ UNCHANGED wire
  <1>1. Len(tried) \in Nat /\ \A ended \in BOOLEAN : R!Sent({Len(tried)}, ended).from = {Len(tried)}
    <2>1. Len(tried) \in Nat
      BY DEF IInv, TypeOK
    <2> QED BY <2>1, Forms
  <1>2. CASE UpstreamOutput
    BY <1>1, <1>2, FirstCommit, BeginsReply DEF UpstreamOutput, IInv, BufInv, WireInv
  <1>3. CASE UpstreamComplete /\ ~buf.committed
    BY <1>1, <1>3, FirstCommit, BeginsReply DEF UpstreamComplete, IInv, BufInv, WireInv
  <1>4. ASSUME wire = R!Sent({Len(tried)}, FALSE), wire' = R!Sent({Len(tried)}, TRUE)
        PROVE  R!Next
    BY <1>1, <1>4 DEF R!Next, R!End, R!One
  <1>5. CASE UpstreamComplete /\ buf.committed
    BY <1>4, <1>5, LastCommit DEF UpstreamComplete, IInv, BufInv, WireInv
  <1>6. CASE UpstreamBreaks
    <2>1. wire = R!Sent({Len(tried)}, FALSE)
      BY <1>6 DEF UpstreamBreaks, IInv, WireInv
    <2>2. CASE wire' = [wire EXCEPT !.ended = TRUE]
      <3>1. wire' = R!Sent({Len(tried)}, TRUE)
        BY <2>1, <2>2 DEF R!Sent, R!Silent
      <3> QED BY <1>4, <2>1, <3>1
    <2> QED BY <1>6, <2>2 DEF UpstreamBreaks
  <1> QED BY <1>2, <1>3, <1>5, <1>6

\* However many attempts are made behind it, the client sees one reply: the bytes
\* of one attempt or one error envelope, and nothing after its end.
THEOREM ImplementsOneReply == Spec => ImplementsReply
  <1>1. Init => R!Init
    BY DEF Init, R!Init
  <1>2. IInv /\ [Next]_vars => [R!Next]_wire
    <2> SUFFICES ASSUME IInv, [Next]_vars
                 PROVE  R!Next \/ UNCHANGED wire
      OBVIOUS
    <2>1. CASE NoBinding \/ Exhausted \/ NoRescue \/ Handler
      BY <2>1, WalkStepsReply
    <2>2. CASE UpstreamOutput \/ UpstreamComplete \/ UpstreamBreaks
      BY <2>2, UpstreamStepsReply
    <2>3. CASE \/ Incompatible \/ NextBinding \/ BeginAttempt \/ UpstreamFails
               \/ RetrySameBinding \/ AbortBackoff \/ Failover \/ SiblingRescue
               \/ Account \/ ClientGone \/ UNCHANGED vars
      BY <2>3 DEF Incompatible, NextBinding, BeginAttempt, UpstreamFails, RetrySameBinding,
                  AbortBackoff, Failover, SiblingRescue, Account, ClientGone, Unsent, vars
    <2> QED BY <2>1, <2>2, <2>3 DEF Next, Step
  <1> QED BY <1>1, <1>2, Inductive, PTL DEF Spec, ImplementsReply, R!Spec
=============================================================================
