----------------------------- MODULE PolicyProofs -----------------------------
(***************************************************************************)
(* The safety of policy routing for every catalog, every roster, every     *)
(* request and every answer the sidecar may give.                          *)
(***************************************************************************)
EXTENDS Policy, LoopProofs, FiniteSetTheorems

-----------------------------------------------------------------------------
(* Lists.                                                                   *)

\* The members of a list over E.
LEMMA RangeOf ==
  ASSUME NEW E, NEW s \in Seq(E)
  PROVE  /\ DOMAIN s = 1 .. Len(s) /\ Len(s) \in Nat
         /\ Range(s) = { s[k] : k \in 1 .. Len(s) }
         /\ Range(s) \subseteq E
         /\ s # <<>> => 1 \in 1 .. Len(s) /\ s[1] \in Range(s)
         /\ s = <<>> => Range(s) = {}
  BY DEF Range

\* Keep keeps the members in set.
LEMMA KeepRange ==
  ASSUME NEW E, NEW s \in Seq(E), NEW set
  PROVE  Keep(s, set) \in Seq(E) /\ Range(Keep(s, set)) = Range(s) \cap set
  <1>1. PICK k : k = Keep(s, set)
    OBVIOUS
  <1>2. k \in Seq(E)
        /\ (\A j \in 1 .. Len(k) : k[j] \in set /\ \E i \in 1 .. Len(s) : k[j] = s[i])
        /\ (\A i \in 1 .. Len(s) : s[i] \in set => \E j \in 1 .. Len(k) : k[j] = s[i])
    <2>1. /\ Keep(s, set) \in Seq(E)
          /\ \A j \in 1 .. Len(Keep(s, set)) :
                Keep(s, set)[j] \in set /\ \E i \in 1 .. Len(s) : Keep(s, set)[j] = s[i]
          /\ \A i \in 1 .. Len(s) :
                s[i] \in set => \E j \in 1 .. Len(Keep(s, set)) : Keep(s, set)[j] = s[i]
      BY KeepMembers
    <2> QED BY <1>1, <2>1
  <1>3. Range(k) = { k[j] : j \in 1 .. Len(k) } /\ Range(s) = { s[i] : i \in 1 .. Len(s) }
    BY <1>2, RangeOf
  <1>4. Range(k) = Range(s) \cap set
    BY <1>2, <1>3
  <1> QED BY <1>1, <1>2, <1>4

FlatStep(ss, f, n) == IF n = 1 THEN ss[n] ELSE f[n - 1] \o ss[n]
IsFlat(ss, f, len) == f = [n \in 1 .. len |-> FlatStep(ss, f, n)]

\* The recursive definition in FlattenSeq has a solution.
LEMMA FlattenDefined ==
  ASSUME NEW ss, NEW len \in Nat
  PROVE  \E f : IsFlat(ss, f, len)
  <1> DEFINE T == { n \in Nat : ~\E f : IsFlat(ss, f, n) }
  <1>1. SUFFICES ASSUME T # {} PROVE FALSE
    OBVIOUS
  <1>2. PICK n \in T : \A m \in T : n <= m
    BY <1>1, Least
  <1>3. CASE n = 0
    <2> DEFINE f == [k \in 1 .. 0 |-> <<>>]
    <2>1. f = [k \in 1 .. 0 |-> FlatStep(ss, f, k)]
      OBVIOUS
    <2>2. IsFlat(ss, f, 0)
      BY <2>1 DEF IsFlat
    <2> QED BY <1>2, <1>3, <2>2
  <1>4. CASE n # 0
    <2>1. n - 1 \in Nat /\ n - 1 \notin T
      BY <1>2, <1>4
    <2>2. PICK f : IsFlat(ss, f, n - 1)
      BY <2>1
    <2> DEFINE g == [k \in 1 .. n |-> IF k = n THEN FlatStep(ss, f, n) ELSE f[k]]
    <2>3. ASSUME NEW k \in 1 .. n
          PROVE  g[k] = FlatStep(ss, g, k)
      <3>1. k # 1 => k - 1 \in 1 .. n - 1 /\ g[k - 1] = f[k - 1]
        OBVIOUS
      <3>2. CASE k = n
        <4>1. g[k] = FlatStep(ss, f, k)
          BY <3>2
        <4> QED BY <4>1, <3>1 DEF FlatStep
      <3>3. CASE k # n
        <4>1. k \in 1 .. n - 1 /\ g[k] = f[k]
          BY <3>3
        <4>2. f[k] = FlatStep(ss, f, k)
          BY <4>1, <2>2 DEF IsFlat
        <4> QED BY <4>1, <4>2, <3>1 DEF FlatStep
      <3> QED BY <3>2, <3>3
    <2>4. IsFlat(ss, g, n)
      BY <2>3 DEF IsFlat
    <2> QED BY <1>2, <2>4
  <1> QED BY <1>3, <1>4

\* Concatenation, member by member.
LEMMA ConcatRange ==
  ASSUME NEW E, NEW s \in Seq(E), NEW t \in Seq(E)
  PROVE  s \o t \in Seq(E) /\ Range(s \o t) = Range(s) \cup Range(t)
  <1> DEFINE u == s \o t
  <1>1. u \in Seq(E) /\ Len(u) = Len(s) + Len(t)
        /\ (\A k \in 1 .. Len(s) : k \in 1 .. Len(u) /\ u[k] = s[k])
        /\ (\A k \in 1 .. Len(t) : Len(s) + k \in 1 .. Len(u) /\ u[Len(s) + k] = t[k])
    OBVIOUS
  <1>2. \A k \in 1 .. Len(u) : k \in 1 .. Len(s) \/ (k - Len(s)) \in 1 .. Len(t)
    BY <1>1
  <1>3. \A k \in 1 .. Len(u) : Len(s) + (k - Len(s)) = k
    BY <1>1
  <1>4. Range(u) = { u[k] : k \in 1 .. Len(u) } /\ Range(s) = { s[k] : k \in 1 .. Len(s) }
        /\ Range(t) = { t[k] : k \in 1 .. Len(t) }
    BY <1>1, RangeOf
  <1> HIDE DEF u
  <1>5. ASSUME NEW x \in Range(u) PROVE x \in Range(s) \cup Range(t)
    <2>1. PICK k \in 1 .. Len(u) : x = u[k]
      BY <1>4
    <2>2. CASE k \in 1 .. Len(s)
      BY <2>1, <2>2, <1>1, <1>4
    <2>3. CASE (k - Len(s)) \in 1 .. Len(t)
      <3>1. PICK j \in 1 .. Len(t) : j = k - Len(s)
        BY <2>3
      <3>2. Len(s) + j = k
        BY <3>1, <1>3
      <3> QED BY <2>1, <3>1, <3>2, <1>1, <1>4
    <2> QED BY <1>2, <2>2, <2>3
  <1>6. ASSUME NEW x \in Range(s) \cup Range(t) PROVE x \in Range(u)
    BY <1>1, <1>4
  <1>7. Range(u) = Range(s) \cup Range(t)
    BY <1>5, <1>6
  <1> QED BY <1>1, <1>7 DEF u

\* A flattened list of lists has the members of all of them.
LEMMA FlattenRange ==
  ASSUME NEW E, NEW ss \in Seq(Seq(E))
  PROVE  /\ FlattenSeq(ss) \in Seq(E)
         /\ \A x : x \in Range(FlattenSeq(ss)) <=> \E i \in 1 .. Len(ss) : x \in Range(ss[i])
  <1>1. CASE Len(ss) = 0
    <2>1. FlattenSeq(ss) = <<>>
      BY <1>1 DEF FlattenSeq
    <2> QED BY <1>1, <2>1 DEF Range
  <1>2. CASE Len(ss) # 0
    <2> DEFINE f == CHOOSE g : IsFlat(ss, g, Len(ss))
    <2>0. Len(ss) \in Nat
      OBVIOUS
    <2>1. IsFlat(ss, f, Len(ss))
      BY <2>0, FlattenDefined
    <2>2. FlattenSeq(ss) = f[Len(ss)]
      BY <1>2 DEF FlattenSeq, IsFlat, FlatStep
    <2>3. \A n \in 1 .. Len(ss) : f[n] = FlatStep(ss, f, n)
      BY <2>1 DEF IsFlat
    <2> HIDE DEF f
    <2> DEFINE Good(n) ==
          /\ f[n] \in Seq(E)
          /\ \A x : x \in Range(f[n]) <=> \E i \in 1 .. n : x \in Range(ss[i])
        T == { n \in 1 .. Len(ss) : ~Good(n) }
    <2>4. SUFFICES ASSUME T # {} PROVE FALSE
      <3>1. Len(ss) \in 1 .. Len(ss)
        BY <1>2, <2>0
      <3>2. T = {} => Good(Len(ss))
        BY <3>1
      <3> QED BY <2>2, <3>2
    <2>5. T \in SUBSET Nat
      OBVIOUS
    <2>6. PICK n \in T : \A m \in T : n <= m
      BY <2>4, <2>5, Least
    <2>7. n \in 1 .. Len(ss) /\ ~Good(n) /\ f[n] = FlatStep(ss, f, n) /\ ss[n] \in Seq(E)
      BY <2>6, <2>3
    <2>a. ASSUME NEW m \in 1 .. Len(ss), m < n
          PROVE  Good(m)
      <3>1. m \in Nat /\ n \in Nat /\ ~(n <= m)
        BY <2>a, <2>7
      <3>2. m \notin T
        BY <3>1, <2>6
      <3> QED BY <3>2
    <2> HIDE DEF T
    <2>8. CASE n = 1
      <3>1. f[n] = ss[1]
        BY <2>7, <2>8 DEF FlatStep
      <3>2. \A i \in 1 .. 1 : i = 1
        OBVIOUS
      <3>4. ss[1] \in Seq(E) /\ \A x : x \in Range(ss[1]) <=> \E i \in 1 .. 1 : x \in Range(ss[i])
        BY <3>2, <2>7, <2>8
      <3>3. Good(n)
        BY <3>1, <3>4, <2>8
      <3> QED BY <2>7, <3>3
    <2>9. CASE n # 1
      <3>1. n - 1 \in 1 .. Len(ss) /\ n - 1 < n
        BY <2>7, <2>9
      <3>2. PICK q : q = f[n - 1]
        OBVIOUS
      <3>3. q \in Seq(E) /\ \A x : x \in Range(q) <=> \E i \in 1 .. n - 1 : x \in Range(ss[i])
        BY <3>1, <3>2, <2>a
      <3>4. f[n] = q \o ss[n]
        BY <2>7, <2>9, <3>2 DEF FlatStep
      <3>p. PICK t : t = ss[n]
        OBVIOUS
      <3>t. q \in Seq(E) /\ t \in Seq(E)
        BY <3>3, <3>p, <2>7
      <3>u. q \o t \in Seq(E) /\ Range(q \o t) = Range(q) \cup Range(t)
        BY <3>t, ConcatRange
      <3>5. f[n] \in Seq(E) /\ Range(f[n]) = Range(q) \cup Range(ss[n])
        BY <3>4, <3>p, <3>u
      <3>6. \A i : i \in 1 .. n <=> i \in 1 .. n - 1 \/ i = n
        BY <2>7
      <3>7. \A x : x \in Range(f[n]) <=> \E i \in 1 .. n : x \in Range(ss[i])
        BY <3>3, <3>5, <3>6
      <3>8. Good(n)
        BY <3>5, <3>7
      <3> QED BY <2>7, <3>8
    <2> QED BY <2>8, <2>9
  <1> QED BY <1>1, <1>2

-----------------------------------------------------------------------------
(* The candidates of a request.                                             *)

\* The requests a call may route: a turn's own, or that one within a tier.
Routed == Requests \cup { restrictToTier(r, t) : r \in Requests, t \in STRING }

\* A tier touches the excluded models only.
LEMMA RoutedTypes ==
  ASSUME NEW r \in Routed
  PROVE  /\ r.images \in BOOLEAN /\ r.tools \in BOOLEAN
         /\ None \notin DOMAIN r.overrides
         /\ \A g \in DOMAIN r.overrides : r.overrides[g] \in Seq(STRING)
  <1>1. PICK q \in Requests : r = q \/ \E t \in STRING : r = restrictToTier(q, t)
    BY DEF Routed
  <1>2. DOMAIN q = RequestFields
    BY PolicyAssumption
  <1>3. r.images = q.images /\ r.tools = q.tools /\ r.overrides = q.overrides
    BY <1>1, <1>2 DEF restrictToTier, RequestFields
  <1> QED BY <1>3, PolicyAssumption

AllCandidates == { Candidate(m, p) : m \in DOMAIN Catalog, p \in STRING }

\* The providers the policy may use for a request.
Usable(r) == ProviderSet(r) \ Denied

\* An arm that may be offered: an eligible target over a usable binding.
Offered(r, c) ==
  \E m \in Range(Deployed) : \E p \in Range(Catalog[m].bindings) :
    HardEligible(r, m) /\ p \in Usable(r) /\ c = Candidate(m, p)

\* A target that is eligible and bound.
Bound(r, m) ==
  m \in Range(Deployed) /\ HardEligible(r, m) /\ EnumerateBindings(m, Usable(r)) # <<>>

\* The bindings of a model that the request may use.
LEMMA BindingsSound ==
  ASSUME NEW m \in DOMAIN Catalog, NEW provs
  PROVE  /\ EnumerateBindings(m, provs) \in Seq(STRING)
         /\ Range(EnumerateBindings(m, provs)) = Range(Catalog[m].bindings) \cap provs
  <1>1. Catalog[m].bindings \in Seq(STRING)
    BY ResolverAssumption
  <1> QED BY <1>1, KeepRange DEF EnumerateBindings

\* The bindings that become arms: some of them, and none only if there are none.
LEMMA ArmBindingsSound ==
  ASSUME NEW r, NEW m \in DOMAIN Catalog
  PROVE  /\ ArmBindings(r, m) \in Seq(STRING)
         /\ Range(ArmBindings(r, m)) \subseteq Range(Catalog[m].bindings) \cap Usable(r)
         /\ EnumerateBindings(m, Usable(r)) # <<>> => ArmBindings(r, m) # <<>>
  <1> DEFINE e == EnumerateBindings(m, Usable(r))
  <1>1. e \in Seq(STRING) /\ Range(e) = Range(Catalog[m].bindings) \cap Usable(r)
    BY BindingsSound
  <1>2. ArmBindings(r, m) = IF Enumerate \/ e = <<>> THEN e ELSE <<e[1]>>
    BY DEF ArmBindings, Usable
  <1> HIDE DEF e
  <1>3. CASE Enumerate \/ e = <<>>
    BY <1>1, <1>2, <1>3 DEF e
  <1>4. CASE ~(Enumerate \/ e = <<>>)
    <2>1. e[1] \in Range(e) /\ e[1] \in STRING
      BY <1>1, <1>4, RangeOf
    <2>2. <<e[1]>> \in Seq(STRING) /\ Range(<<e[1]>>) = {e[1]} /\ <<e[1]>> # <<>>
      BY <2>1 DEF Range
    <2> QED BY <1>1, <1>2, <1>4, <2>1, <2>2 DEF e
  <1> QED BY <1>3, <1>4

\* The arms of one target.
ArmsOf(r, m) ==
  IF HardEligible(r, m)
  THEN [j \in DOMAIN ArmBindings(r, m) |-> Candidate(m, ArmBindings(r, m)[j])]
  ELSE <<>>

\* The arms of a deployed model are offered, and one exists when the model is bound.
LEMMA ArmsOfSound ==
  ASSUME NEW r, NEW m \in Range(Deployed)
  PROVE  /\ ArmsOf(r, m) \in Seq(AllCandidates)
         /\ \A c \in Range(ArmsOf(r, m)) : Offered(r, c)
         /\ Bound(r, m) => \E c \in Range(ArmsOf(r, m)) : c.model = m
  <1>1. CASE ~HardEligible(r, m)
    <2>1. ArmsOf(r, m) = <<>>
      BY <1>1 DEF ArmsOf
    <2>2. Range(<<>>) = {}
      BY DEF Range
    <2> QED BY <1>1, <2>1, <2>2 DEF Bound
  <1>2. CASE HardEligible(r, m)
    <2>0. PICK b : b = ArmBindings(r, m)
      OBVIOUS
    <2>1. m \in DOMAIN Catalog
      BY <1>2 DEF HardEligible
    <2>2. b \in Seq(STRING) /\ Range(b) \subseteq Range(Catalog[m].bindings) \cap Usable(r)
          /\ (Bound(r, m) => b # <<>>)
      BY <2>0, <2>1, ArmBindingsSound DEF Bound
    <2>3. DOMAIN b = 1 .. Len(b) /\ Len(b) \in Nat /\ \A j \in 1 .. Len(b) : b[j] \in STRING
          /\ b[j] \in Range(b)
      BY <2>2 DEF Range
    <2>4. PICK a : a = [j \in 1 .. Len(b) |-> Candidate(m, b[j])]
      OBVIOUS
    <2>5. a = ArmsOf(r, m)
      BY <1>2, <2>0, <2>3, <2>4 DEF ArmsOf
    <2>6. \A j \in 1 .. Len(b) : Candidate(m, b[j]) \in AllCandidates
      BY <2>1, <2>3 DEF AllCandidates
    <2>7. a \in Seq(AllCandidates) /\ Len(a) = Len(b)
      BY <2>3, <2>4, <2>6
    <2>8. \A c \in Range(a) : \E j \in 1 .. Len(b) : c = Candidate(m, b[j])
      BY <2>4 DEF Range
    <2>9. \A c \in Range(a) : Offered(r, c)
      BY <1>2, <2>2, <2>3, <2>8 DEF Offered
    <2>10. ASSUME Bound(r, m) PROVE \E c \in Range(a) : c.model = m
      <3>1. 1 \in 1 .. Len(b)
        BY <2>10, <2>2, <2>3
      <3>2. a[1] = Candidate(m, b[1]) /\ a[1] \in Range(a)
        BY <3>1, <2>4 DEF Range
      <3>3. a[1].model = m
        BY <3>2 DEF Candidate
      <3> QED BY <3>2, <3>3
    <2> QED BY <2>5, <2>7, <2>9, <2>10
  <1> QED BY <1>1, <1>2

\* The pool before the soft filters: offered arms, at least one of every target
\* that is eligible and bound.
LEMMA BaseSound ==
  ASSUME NEW r
  PROVE  /\ Base(r) \in Seq(AllCandidates)
         /\ \A c \in Range(Base(r)) : Offered(r, c)
         /\ \A m : Bound(r, m) => \E c \in Range(Base(r)) : c.model = m
  <1>0. Deployed \in Seq(STRING)
    BY ResolverAssumption
  <1>1. DOMAIN Deployed = 1 .. Len(Deployed) /\ Len(Deployed) \in Nat
        /\ \A i \in 1 .. Len(Deployed) : Deployed[i] \in Range(Deployed)
    BY <1>0 DEF Range
  <1>2. PICK ss : ss = [i \in 1 .. Len(Deployed) |-> ArmsOf(r, Deployed[i])]
    OBVIOUS
  <1>3. Base(r) = FlattenSeq(ss)
    BY <1>1, <1>2, Zenon DEF Base, ArmsOf
  <1>4. \A i \in 1 .. Len(Deployed) : ArmsOf(r, Deployed[i]) \in Seq(AllCandidates)
    BY <1>1, ArmsOfSound
  <1>5. ss \in Seq(Seq(AllCandidates)) /\ Len(ss) = Len(Deployed)
    BY <1>1, <1>2, <1>4
  <1>6. FlattenSeq(ss) \in Seq(AllCandidates)
        /\ \A x : x \in Range(FlattenSeq(ss)) <=> \E i \in 1 .. Len(ss) : x \in Range(ss[i])
    BY <1>5, FlattenRange
  <1>7. \A i \in 1 .. Len(ss) : ss[i] = ArmsOf(r, Deployed[i])
    BY <1>2, <1>5
  <1>8. \A c \in Range(FlattenSeq(ss)) : Offered(r, c)
    <2> TAKE c \in Range(FlattenSeq(ss))
    <2>1. PICK i \in 1 .. Len(ss) : c \in Range(ss[i])
      BY <1>6
    <2>2. c \in Range(ArmsOf(r, Deployed[i])) /\ Deployed[i] \in Range(Deployed)
      BY <1>1, <1>5, <1>7, <2>1
    <2> QED BY <2>2, ArmsOfSound
  <1>9. ASSUME NEW m, Bound(r, m) PROVE \E c \in Range(FlattenSeq(ss)) : c.model = m
    <2>1. m \in Range(Deployed)
      BY <1>9 DEF Bound
    <2>2. PICK i \in 1 .. Len(Deployed) : m = Deployed[i]
      BY <2>1, <1>1 DEF Range
    <2>3. PICK c \in Range(ArmsOf(r, m)) : c.model = m
      BY <1>9, <2>1, ArmsOfSound
    <2> QED BY <1>5, <1>6, <1>7, <2>2, <2>3
  <1> QED BY <1>3, <1>6, <1>8, <1>9

\* A soft filter takes arms away, never the last one, and what it withdraws is
\* gone unless nothing else was there.
LEMMA SoftFilterSound ==
  ASSUME NEW E, NEW base \in Seq(E), NEW active \in BOOLEAN, NEW drop
  PROVE  /\ softFilter(base, active, drop) \in Seq(E)
         /\ Range(softFilter(base, active, drop)) \subseteq Range(base)
         /\ active /\ drop # {} /\ (\E c \in Range(base) : c.model \notin drop)
              => \A c \in Range(softFilter(base, active, drop)) : c.model \notin drop
  <1>1. PICK kept : kept = Keep(base, {c \in Range(base) : c.model \notin drop})
    OBVIOUS
  <1>2. kept \in Seq(E) /\ Range(kept) = Range(base) \cap {c \in Range(base) : c.model \notin drop}
    BY <1>1, KeepRange
  <1>3. kept = <<>> => Range(kept) = {}
    BY DEF Range
  <1>4. softFilter(base, active, drop) = IF active /\ drop # {} /\ kept # <<>> THEN kept ELSE base
    BY <1>1 DEF softFilter
  <1>5. CASE active /\ drop # {} /\ kept # <<>>
    BY <1>2, <1>4, <1>5
  <1>6. CASE ~(active /\ drop # {} /\ kept # <<>>)
    BY <1>2, <1>3, <1>4, <1>6
  <1> QED BY <1>5, <1>6

\* What Resolve offers: permitted arms, told apart by their identifiers; an arm
\* withdrawn from automatic routing only if every bound target is.
LEMMA ResolveSound ==
  ASSUME NEW r \in Routed
  PROVE  /\ Resolve(r) \in Seq(AllCandidates)
         /\ \A c \in Range(Resolve(r)) : Offered(r, c)
         /\ \A c, d \in Range(Resolve(r)) : c.arm = d.arm => c = d
         /\ \A c \in Range(Resolve(r)) : c.model \in r.auto => \A m : Bound(r, m) => m \in r.auto
  <1>0. r.images \in BOOLEAN /\ r.tools \in BOOLEAN
    BY RoutedTypes
  <1>1. PICK b : b = Base(r)
    OBVIOUS
  <1>2. b \in Seq(AllCandidates) /\ (\A c \in Range(b) : Offered(r, c))
        /\ \A m : Bound(r, m) => \E c \in Range(b) : c.model = m
    BY <1>1, BaseSound
  <1>3. PICK e : e = softFilter(b, TRUE, r.auto)
    OBVIOUS
  <1>4. e \in Seq(AllCandidates) /\ Range(e) \subseteq Range(b)
        /\ (r.auto # {} /\ (\E c \in Range(b) : c.model \notin r.auto)
              => \A c \in Range(e) : c.model \notin r.auto)
    BY <1>2, <1>3, SoftFilterSound
  <1>5. PICK v : v = softFilter(e, r.images, imageLow)
    OBVIOUS
  <1>6. v \in Seq(AllCandidates) /\ Range(v) \subseteq Range(e)
    BY <1>0, <1>4, <1>5, SoftFilterSound
  <1>7. PICK w : w = softFilter(v, r.tools, toolLow)
    OBVIOUS
  <1>8. w \in Seq(AllCandidates) /\ Range(w) \subseteq Range(v)
    BY <1>0, <1>6, <1>7, SoftFilterSound
  <1>9. w = SoftFiltered(r)
    BY <1>1, <1>3, <1>5, <1>7 DEF SoftFiltered
  <1> DEFINE Same(c) == {i \in 1 .. Len(w) : w[i].arm = c.arm}
             ones == {c \in Range(w) : Cardinality(Same(c)) = 1}
  <1>10. DOMAIN w = 1 .. Len(w) /\ Len(w) \in Nat
    BY <1>8
  <1>11. Resolve(r) = Keep(w, ones)
    BY <1>9, <1>10 DEF Resolve
  <1>12. Resolve(r) \in Seq(AllCandidates) /\ Range(Resolve(r)) = Range(w) \cap ones
    BY <1>8, <1>11, KeepRange
  <1>13. \A c \in Range(Resolve(r)) : Offered(r, c)
    BY <1>2, <1>4, <1>6, <1>8, <1>12
  <1>14. ASSUME NEW c \in Range(Resolve(r)), NEW d \in Range(Resolve(r)), c.arm = d.arm
         PROVE  c = d
    <2>1. c \in Range(w) /\ d \in Range(w) /\ Cardinality(Same(c)) = 1
      BY <1>12
    <2>2. PICK i \in 1 .. Len(w) : c = w[i]
      BY <2>1, <1>10 DEF Range
    <2>3. PICK j \in 1 .. Len(w) : d = w[j]
      BY <2>1, <1>10 DEF Range
    <2>4. IsFiniteSet(1 .. Len(w))
      BY <1>10, FS_Interval
    <2>5. IsFiniteSet(Same(c))
      BY <2>4, FS_Subset
    <2>6. PICK x : Same(c) = {x}
      BY <2>1, <2>5, FS_Singleton
    <2>7. i \in Same(c) /\ j \in Same(c)
      BY <2>2, <2>3, <1>14
    <2> QED BY <2>2, <2>3, <2>6, <2>7
  <1>15. ASSUME NEW c \in Range(Resolve(r)), c.model \in r.auto, NEW m, Bound(r, m)
         PROVE  m \in r.auto
    <2>1. c \in Range(e)
      BY <1>6, <1>8, <1>12
    <2>2. ~(r.auto # {} /\ (\E d \in Range(b) : d.model \notin r.auto))
      BY <1>15, <2>1, <1>4
    <2> QED BY <1>2, <1>15, <2>2
  <1> QED BY <1>12, <1>13, <1>14, <1>15

-----------------------------------------------------------------------------
(* From an answer to a decision.                                            *)

\* A candidate is a permitted arm with a roster identifier.
LEMMA CandidateFields ==
  ASSUME NEW r \in Routed, NEW c \in Range(Resolve(r))
  PROVE  \E m \in Range(Deployed) \cap DOMAIN Catalog : \E p \in Range(Catalog[m].bindings) :
           /\ HardEligible(r, m) /\ p \in Usable(r) /\ Catalog[m].roster # None
           /\ c.model = m /\ c.provider = p /\ c.roster = Catalog[m].roster
           /\ c.arm = MakeArmID(m, p) /\ c = Candidate(m, p)
  <1>1. Offered(r, c)
    BY ResolveSound
  <1>2. PICK m \in Range(Deployed) : \E p \in Range(Catalog[m].bindings) :
          HardEligible(r, m) /\ p \in Usable(r) /\ c = Candidate(m, p)
    BY <1>1 DEF Offered
  <1>p. PICK p \in Range(Catalog[m].bindings) :
          HardEligible(r, m) /\ p \in Usable(r) /\ c = Candidate(m, p)
    BY <1>2
  <1>3. m \in DOMAIN Catalog /\ Catalog[m].roster # None
    BY <1>p DEF HardEligible
  <1>4. c.model = m /\ c.provider = p /\ c.roster = Catalog[m].roster /\ c.arm = MakeArmID(m, p)
    BY <1>p DEF Candidate
  <1> QED BY <1>p, <1>3, <1>4

\* One roster identifier, one model: two models under it could not be told apart.
LEMMA RosterNamesModel ==
  ASSUME NEW r \in Routed, NEW c \in Range(Resolve(r)), NEW d \in Range(Resolve(r)),
         c.roster = d.roster
  PROVE  c.model = d.model
  <1>1. PICK m \in DOMAIN Catalog : Catalog[m].roster # None /\ c.model = m
          /\ c.roster = Catalog[m].roster /\ \E p : c.arm = MakeArmID(m, p)
    BY CandidateFields
  <1>2. PICK n \in DOMAIN Catalog : d.model = n
          /\ d.roster = Catalog[n].roster /\ \E q : d.arm = MakeArmID(n, q)
    BY CandidateFields
  <1>3. CASE Enumerate
    BY <1>1, <1>2, <1>3, ResolverAssumption
  <1>4. CASE ~Enumerate
    <2>1. c.arm = d.arm
      BY <1>1, <1>2, <1>4 DEF MakeArmID
    <2>2. c = d
      BY <2>1, ResolveSound
    <2> QED BY <2>2
  <1> QED BY <1>3, <1>4

\* An arm identifier that is blank or belongs to a candidate of the identifier.
Agrees(r, arm, roster) ==
  arm = <<>> \/ \E c \in Range(Resolve(r)) : c.roster = roster /\ c.arm = arm

\* The arm found for an answer agrees with the answer's model and provider.
LEMMA ArmOfAgrees ==
  ASSUME NEW r \in Routed, NEW a
  PROVE  Agrees(r, ArmOf(Resolve(r), a), a.base)
  <1>0. PICK cs : cs = Resolve(r)
    OBVIOUS
  <1>1. cs \in Seq(AllCandidates)
    BY <1>0, ResolveSound
  <1>2. PICK named : named = Keep(cs, {c \in Range(cs) : c.roster = a.base})
    OBVIOUS
  <1>3. named \in Seq(AllCandidates)
        /\ Range(named) = Range(cs) \cap {c \in Range(cs) : c.roster = a.base}
    BY <1>1, <1>2, KeepRange
  <1>4. rosterToArm(cs, a.base) = IF named = <<>> THEN <<>> ELSE named[1].arm
    BY <1>2 DEF rosterToArm
  <1>5. named # <<>> => named[1] \in Range(named)
    BY <1>3, RangeOf
  <1>6. Agrees(r, rosterToArm(cs, a.base), a.base)
    BY <1>0, <1>3, <1>4, <1>5 DEF Agrees
  <1> QED BY <1>0, <1>6 DEF ArmOf, Agrees

\* What is bound is a candidate, and the one the selection names.
LEMMA BindingSound ==
  ASSUME NEW r \in Routed, NEW arm, NEW roster,
         NEW b \in BindingForSelection(Resolve(r), arm, roster)
  PROVE  /\ b \in Range(Resolve(r))
         /\ b.arm = arm \/ b.roster = roster
         /\ Agrees(r, arm, roster) => b.roster = roster
  <1>1. b \in Range(Resolve(r)) /\ ((arm # <<>> /\ b.arm = arm) \/ b.roster = roster)
    BY DEF BindingForSelection, ByArmID, ByRosterID
  <1>2. ASSUME Agrees(r, arm, roster), arm # <<>>, b.arm = arm
        PROVE  b.roster = roster
    <2>1. PICK c \in Range(Resolve(r)) : c.roster = roster /\ c.arm = arm
      BY <1>2 DEF Agrees
    <2>2. b = c
      BY <1>1, <1>2, <2>1, ResolveSound
    <2> QED BY <2>1, <2>2
  <1> QED BY <1>1, <1>2

\* A forced cluster with a per-key list names an arm of that list.
LEMMA ForcedSound ==
  ASSUME NEW r \in Routed, NEW fallback, r.force \in DOMAIN r.overrides,
         NEW out, out = ApplyClusterArmOverridesRequireMatch(r, fallback, Resolve(r)),
         out.applied
  PROVE  /\ out.constrained
         /\ \E c \in Range(Resolve(r)) :
              c.roster = out.arm.base /\ c.model \in Range(r.overrides[r.force])
  <1>0. PICK cs : cs = Resolve(r)
    OBVIOUS
  <1>1. PICK list : list = r.overrides[r.force]
    OBVIOUS
  <1>2. list \in Seq(STRING)
    BY <1>1, RoutedTypes
  <1>3. PICK named : named = Keep(list, {c.model : c \in Range(cs)})
    OBVIOUS
  <1>4. named \in Seq(STRING) /\ Range(named) = Range(list) \cap {c.model : c \in Range(cs)}
    BY <1>2, <1>3, KeepRange
  <1> DEFINE arms == [i \in DOMAIN named |->
               Bare((CHOOSE c \in Range(cs) : c.model = named[i]).roster)]
             groups == SelectSeq(fallback, LAMBDA g : g.label = r.force)
  <1>5. PICK o : o = OverrideOf(r, r.force)
    OBVIOUS
  <1>a. o = <<list>>
    BY <1>1, <1>5 DEF OverrideOf
  <1>b. o # <<>> /\ o[1] = list
    BY <1>a
  <1>c. ASSUME NEW g PROVE effectiveArms(g, o, cs) = arms
    <2>1. named = Keep(o[1], {c.model : c \in Range(cs)})
      BY <1>3, <1>b
    <2> QED BY <1>b, <2>1 DEF effectiveArms
  <1>6. effectiveArms(groups[1], o, cs) = arms
    BY <1>c
  <1>7. PICK all : all = IF groups = <<>> THEN <<>> ELSE arms
    OBVIOUS
  <1>8. out = IF all = <<>> THEN [applied |-> FALSE]
              ELSE [applied |-> TRUE, arm |-> all[1], constrained |-> TRUE]
    BY <1>0, <1>5, <1>6, <1>7, Zenon DEF ApplyClusterArmOverridesRequireMatch
  <1> HIDE DEF groups
  <1>9. all # <<>> /\ out.arm = all[1] /\ out.constrained
    BY <1>8
  <1>10. arms # <<>> /\ out.arm = arms[1]
    BY <1>7, <1>9
  <1>11. DOMAIN named = 1 .. Len(named) /\ Len(named) \in Nat
    BY <1>4
  <1>12. named # <<>>
    <2>1. ASSUME named = <<>> PROVE FALSE
      <3>1. DOMAIN named = {}
        BY <2>1
      <3>2. arms = <<>>
        BY <3>1
      <3> QED BY <1>10, <3>2
    <2> QED BY <2>1
  <1>13. 1 \in DOMAIN named /\ named[1] \in Range(named)
    BY <1>4, <1>11, <1>12, RangeOf
  <1>14. PICK c \in Range(cs) : c = (CHOOSE x \in Range(cs) : x.model = named[1])
                                /\ c.model = named[1]
    BY <1>4, <1>13
  <1>15. out.arm.base = c.roster
    BY <1>10, <1>13, <1>14 DEF Bare
  <1> QED BY <1>0, <1>1, <1>4, <1>9, <1>13, <1>14, <1>15

\* What is known of the selection that binding resolution gets.
SelectionOK(r, res, sel) ==
  /\ sel.ok \in BOOLEAN
  /\ ~sel.ok => sel.deadline = FALSE
  /\ sel.ok =>
       /\ Agrees(r, sel.arm, sel.roster) \/ (sel.arm = res.arm /\ sel.roster = res.model)
       /\ ~sel.own => sel.roster = res.model
       /\ r.force \in DOMAIN r.overrides =>
            /\ Agrees(r, sel.arm, sel.roster)
            /\ \E c \in Range(Resolve(r)) :
                 c.roster = sel.roster /\ c.model \in Range(r.overrides[r.force])

\* The router's own pick, or the sidecar's, before the lists.
LEMMA SelectionSound ==
  ASSUME NEW r \in Routed, NEW res, NEW s \in BOOLEAN,
         NEW sel, sel = Selection(res, Resolve(r), s)
  PROVE  /\ sel.ok \in BOOLEAN
         /\ ~sel.ok => sel.deadline = FALSE
         /\ sel.ok =>
              /\ sel = [ok |-> TRUE, arm |-> sel.arm, roster |-> sel.roster,
                        effort |-> sel.effort, own |-> sel.own]
              /\ sel.own \in BOOLEAN
              /\ Agrees(r, sel.arm, sel.roster) \/ (sel.arm = res.arm /\ sel.roster = res.model)
              /\ ~sel.own => sel.roster = res.model
  <1>1. CASE ~s
    BY <1>1 DEF Selection
  <1>2. CASE s
    <2>1. PICK pick : pick = SelectGroups(res.fallback, Resolve(r))
      OBVIOUS
    <2>2. sel = IF pick = <<>> THEN Fail("arm_selection")
                ELSE [ok |-> TRUE, roster |-> pick[1].base, effort |-> pick[1].effort,
                      own |-> TRUE, arm |-> ArmOf(Resolve(r), pick[1])]
      BY <1>2, <2>1 DEF Selection
    <2>3. CASE pick = <<>>
      BY <2>2, <2>3 DEF Fail
    <2>4. CASE pick # <<>>
      <3>1. PICK a : a = ArmOf(Resolve(r), pick[1])
        OBVIOUS
      <3>2. Agrees(r, a, pick[1].base)
        BY <3>1, ArmOfAgrees
      <3>3. sel = [ok |-> TRUE, roster |-> pick[1].base, effort |-> pick[1].effort,
                   own |-> TRUE, arm |-> a]
        BY <2>2, <2>4, <3>1
      <3> QED BY <3>2, <3>3
    <2> QED BY <2>3, <2>4
  <1> QED BY <1>1, <1>2

\* The selection after the forced cluster and the per-key lists.
LEMMA OverriddenSound ==
  ASSUME NEW r \in Routed, NEW res, NEW s \in BOOLEAN,
         NEW first, first = Selection(res, Resolve(r), s), first.ok,
         NEW sel, sel = Overridden(r, res, Resolve(r), s, first)
  PROVE  SelectionOK(r, res, sel)
  <1>0. /\ first = [ok |-> TRUE, arm |-> first.arm, roster |-> first.roster,
                    effort |-> first.effort, own |-> first.own]
        /\ first.own \in BOOLEAN
        /\ Agrees(r, first.arm, first.roster) \/ (first.arm = res.arm /\ first.roster = res.model)
        /\ ~first.own => first.roster = res.model
    BY SelectionSound, ZenonT(30)
  <1>a. None \notin DOMAIN r.overrides
    BY RoutedTypes
  <1>1. PICK out : out = IF r.force # None
             THEN ApplyClusterArmOverridesRequireMatch(r, res.fallback, Resolve(r))
             ELSE IF DOMAIN r.overrides = {} THEN [applied |-> FALSE]
             ELSE ApplyClusterArmOverrides(r, res.fallback, Resolve(r))
    OBVIOUS
  <1>b. r.force # None => out.applied \in BOOLEAN /\ (out.applied => out.constrained)
    BY <1>1 DEF ApplyClusterArmOverridesRequireMatch
  <1>2. PICK changed : changed = (out.arm # [base |-> first.roster, effort |-> first.effort])
    OBVIOUS
  <1>3. PICK a : a = ArmOf(Resolve(r), out.arm)
    OBVIOUS
  <1>4. Agrees(r, a, out.arm.base)
    BY <1>3, ArmOfAgrees
  <1>5. sel = CASE r.force # None /\ ~out.applied -> Fail("forced_cluster")
                [] out.applied /\ (out.constrained \/ ~s) ->
                     [first EXCEPT !.arm = a, !.roster = out.arm.base,
                                   !.effort = out.arm.effort, !.own = @ \/ changed]
                [] OTHER -> first
    BY <1>1, <1>2, <1>3 DEF Overridden
  <1>6. CASE r.force # None /\ ~out.applied
    <2>1. sel = Fail("forced_cluster")
      BY <1>5, <1>6, <1>b
    <2> QED BY <2>1 DEF SelectionOK, Fail
  <1>7. CASE out.applied /\ (out.constrained \/ ~s) /\ ~(r.force # None /\ ~out.applied)
    <2>1. sel = [first EXCEPT !.arm = a, !.roster = out.arm.base,
                              !.effort = out.arm.effort, !.own = @ \/ changed]
      BY <1>5, <1>7
    <2>2. sel = [ok |-> TRUE, arm |-> a, roster |-> out.arm.base, effort |-> out.arm.effort,
                 own |-> first.own \/ changed]
      BY <2>1, <1>0
    <2>3. sel.ok = TRUE /\ sel.arm = a /\ sel.roster = out.arm.base
          /\ sel.own = (first.own \/ changed)
      BY <2>2
    <2>4. ~sel.own => sel.roster = res.model
      <3> SUFFICES ASSUME ~sel.own PROVE sel.roster = res.model
        OBVIOUS
      <3>1. ~first.own /\ ~changed
        BY <2>3, Zenon
      <3>2. out.arm = [base |-> first.roster, effort |-> first.effort]
        BY <3>1, <1>2, Zenon
      <3>3. out.arm.base = first.roster
        BY <3>2
      <3> QED BY <2>3, <3>1, <3>3, <1>0
    <2>5. ASSUME r.force \in DOMAIN r.overrides
          PROVE  \E c \in Range(Resolve(r)) :
                   c.roster = sel.roster /\ c.model \in Range(r.overrides[r.force])
      <3>1. r.force # None
        BY <2>5, <1>a
      <3>2. out = ApplyClusterArmOverridesRequireMatch(r, res.fallback, Resolve(r)) /\ out.applied
        BY <3>1, <1>1, <1>7
      <3>3. \E c \in Range(Resolve(r)) :
              c.roster = out.arm.base /\ c.model \in Range(r.overrides[r.force])
        BY <2>5, <3>2, ForcedSound
      <3> QED BY <2>3, <3>3
    <2> QED BY <2>3, <2>4, <2>5, <1>4 DEF SelectionOK
  <1>8. CASE ~(r.force # None /\ ~out.applied) /\ ~(out.applied /\ (out.constrained \/ ~s))
    <2>1. sel = first
      BY <1>5, <1>8
    <2>2. r.force = None
      BY <1>8, <1>b
    <2>3. r.force \notin DOMAIN r.overrides
      BY <2>2, <1>a
    <2> QED BY <2>1, <2>3, <1>0 DEF SelectionOK
  <1> QED BY <1>6, <1>7, <1>8

\* What a decision made from an answer is: a candidate of the request, of the
\* forced cluster's list where there is one, with a marker for it or none.
ChoiceOK(r, out) ==
  /\ out.ok \in BOOLEAN
  /\ ~out.ok => out.deadline = FALSE
  /\ out.ok => \E b \in Range(Resolve(r)) :
       /\ out.model = b.model /\ out.provider = b.provider
       /\ r.force \in DOMAIN r.overrides => b.model \in Range(r.overrides[r.force])
       /\ out.marker # None => out.marker = b.model

\* Whatever the sidecar answers, an accepted choice is an eligible arm.
LEMMA ChooseSound ==
  ASSUME NEW r \in Routed, NEW res \in Answers, NEW s \in BOOLEAN
  PROVE  ChoiceOK(r, Choose(r, res, Resolve(r), s))
  <1>1. PICK first : first = Selection(res, Resolve(r), s)
    OBVIOUS
  <1>2. first.ok \in BOOLEAN /\ (~first.ok => first.deadline = FALSE)
    BY <1>1, SelectionSound
  <1>3. PICK sel : sel = IF first.ok THEN Overridden(r, res, Resolve(r), s, first) ELSE first
    OBVIOUS
  <1>4. SelectionOK(r, res, sel)
    <2>1. CASE first.ok
      BY <1>1, <1>3, <2>1, OverriddenSound
    <2>2. CASE ~first.ok
      BY <1>2, <1>3, <2>2 DEF SelectionOK
    <2> QED BY <1>2, <2>1, <2>2
  <1>5. PICK bound : bound = IF sel.ok THEN BindingForSelection(Resolve(r), sel.arm, sel.roster)
                             ELSE {}
    OBVIOUS
  <1>6. PICK b : b = (CHOOSE c \in bound : TRUE)
    OBVIOUS
  <1>7. PICK out : out = Choose(r, res, Resolve(r), s)
    OBVIOUS
  <1> DEFINE d == [ok |-> TRUE, model |-> b.model, provider |-> b.provider, arm |-> b.arm,
                   effort |-> sel.effort, marker |-> ServedMarker(res, sel.own),
                   own |-> sel.own]
  <1>8. out = IF s /\ res.schema # "v3" THEN Fail("unavailable")
              ELSE IF ~sel.ok THEN sel
              ELSE IF bound = {} THEN Fail("unavailable")
              ELSE IF res.provider # None /\ ~sel.own /\ res.provider # b.provider
                   THEN Fail("unavailable")
              ELSE d
    BY <1>1, <1>3, <1>5, <1>6, <1>7, Zenon DEF Choose
  <1>9. CASE out = Fail("unavailable")
    BY <1>7, <1>9 DEF ChoiceOK, Fail
  <1>10. CASE out = sel /\ ~sel.ok
    BY <1>4, <1>7, <1>10 DEF ChoiceOK, SelectionOK
  <1>11. CASE out = d /\ sel.ok /\ bound # {}
    <2>1. b \in BindingForSelection(Resolve(r), sel.arm, sel.roster)
      BY <1>5, <1>6, <1>11
    <2>2. b \in Range(Resolve(r)) /\ (b.arm = sel.arm \/ b.roster = sel.roster)
          /\ (Agrees(r, sel.arm, sel.roster) => b.roster = sel.roster)
      BY <2>1, BindingSound
    <2>3. ASSUME r.force \in DOMAIN r.overrides PROVE b.model \in Range(r.overrides[r.force])
      <3>1. Agrees(r, sel.arm, sel.roster)
        BY <2>3, <1>4, <1>11 DEF SelectionOK
      <3>2. PICK c \in Range(Resolve(r)) :
              c.roster = sel.roster /\ c.model \in Range(r.overrides[r.force])
        BY <2>3, <1>4, <1>11 DEF SelectionOK
      <3>3. b.model = c.model
        BY <2>2, <3>1, <3>2, RosterNamesModel
      <3> QED BY <3>2, <3>3
    <2>4. ASSUME ServedMarker(res, sel.own) # None PROVE ServedMarker(res, sel.own) = b.model
      <3>1. ~sel.own /\ ServedMarker(res, sel.own) = res.marker /\ res.marker # None
        BY <2>4 DEF ServedMarker
      <3>2. sel.roster = res.model
        BY <3>1, <1>4, <1>11 DEF SelectionOK
      <3>3. b.roster = res.model \/ b.arm = res.arm
        BY <2>2, <3>2, <1>4, <1>11 DEF SelectionOK
      <3>4. PICK m \in DOMAIN Catalog : \E p \in Range(Catalog[m].bindings) :
              Catalog[m].roster # None /\ b.model = m /\ b.roster = Catalog[m].roster
              /\ b.arm = MakeArmID(m, p)
        BY <2>2, CandidateFields
      <3>5. MarkerNames(res)
        BY PolicyAssumption
      <3>6. m = res.marker
        BY <3>1, <3>3, <3>4, <3>5 DEF MarkerNames
      <3> QED BY <3>1, <3>4, <3>6
    <2>5. out.ok = TRUE /\ out.model = b.model /\ out.provider = b.provider
          /\ out.marker = ServedMarker(res, sel.own)
      BY <1>11
    <2> QED BY <1>7, <2>2, <2>3, <2>4, <2>5 DEF ChoiceOK
  <1>12. sel.ok \in BOOLEAN
    BY <1>4 DEF SelectionOK
  <1> HIDE DEF d
  <1> QED BY <1>8, <1>9, <1>10, <1>11, <1>12

-----------------------------------------------------------------------------
(* The query.                                                               *)

\* A recursion from the end of a list to its beginning has a solution.
LEMMA DownDefined ==
  ASSUME NEW L \in Nat, NEW step \in [1 .. L -> [Nat -> Nat]]
  PROVE  \E f \in [1 .. L + 1 -> Nat] :
           f[L + 1] = 0 /\ \A i \in 1 .. L : f[i] = step[i][f[i + 1]]
  <1> DEFINE Solves(f, lo) == /\ f \in [lo .. L + 1 -> Nat] /\ f[L + 1] = 0
                              /\ \A i \in lo .. L : f[i] = step[i][f[i + 1]]
             T == { k \in 0 .. L : ~\E f : Solves(f, L + 1 - k) }
  <1>1. SUFFICES ASSUME T # {} PROVE FALSE
    <2>1. L \in 0 .. L /\ L + 1 - L = 1
      OBVIOUS
    <2>2. T = {} => \E f : Solves(f, 1)
      <3> HIDE DEF Solves
      <3>1. T = {} => \E f : Solves(f, L + 1 - L)
        BY <2>1, Zenon
      <3> QED BY <2>1, <3>1
    <2> QED BY <2>2
  <1>2. T \in SUBSET Nat
    OBVIOUS
  <1>3. PICK k \in T : \A m \in T : k <= m
    BY <1>1, <1>2, Least
  <1>4. k \in 0 .. L /\ ~\E f : Solves(f, L + 1 - k)
    BY <1>3
  <1>5. CASE k = 0
    <2> DEFINE f == [i \in L + 1 .. L + 1 |-> 0]
    <2>1. Solves(f, L + 1)
      OBVIOUS
    <2>2. L + 1 - k = L + 1
      BY <1>5
    <2> QED BY <1>4, <2>1, <2>2
  <1>6. CASE k # 0
    <2>a. k - 1 \in 0 .. L /\ ~(k <= k - 1) /\ L + 1 - (k - 1) = (L + 1 - k) + 1
      BY <1>4, <1>6
    <2>b. k - 1 \notin T
      BY <1>3, <2>a, Zenon
    <2>1. \E f : Solves(f, (L + 1 - k) + 1)
      BY <2>a, <2>b
    <2>2. PICK lo : lo = L + 1 - k
      OBVIOUS
    <2>3. lo \in 1 .. L
      BY <1>4, <1>6, <2>2
    <2>4. PICK f : Solves(f, lo + 1)
      BY <2>1, <2>2
    <2>5. f \in [lo + 1 .. L + 1 -> Nat] /\ f[L + 1] = 0
          /\ \A i \in lo + 1 .. L : f[i] = step[i][f[i + 1]]
      BY <2>4
    <2>6. lo + 1 \in lo + 1 .. L + 1 /\ f[lo + 1] \in Nat /\ step[lo][f[lo + 1]] \in Nat
      <3>1. lo + 1 \in lo + 1 .. L + 1
        BY <2>3
      <3>2. f[lo + 1] \in Nat
        BY <3>1, <2>5
      <3>3. step[lo] \in [Nat -> Nat]
        BY <2>3
      <3> QED BY <3>1, <3>2, <3>3
    <2> DEFINE g == [i \in lo .. L + 1 |-> IF i = lo THEN step[lo][f[lo + 1]] ELSE f[i]]
    <2>7. \A i \in lo .. L + 1 : i # lo => i \in lo + 1 .. L + 1
      BY <2>3
    <2>c. \A i \in lo .. L + 1 : g[i] \in Nat
      BY <2>5, <2>6, <2>7
    <2>d. L + 1 \in lo .. L + 1 /\ L + 1 # lo
      BY <2>3
    <2>8. g \in [lo .. L + 1 -> Nat] /\ g[L + 1] = 0
      BY <2>5, <2>c, <2>d
    <2>9. ASSUME NEW i \in lo .. L PROVE g[i] = step[i][g[i + 1]]
      <3>1. i + 1 \in lo .. L + 1 /\ i + 1 # lo /\ g[i + 1] = f[i + 1]
        BY <2>3
      <3>2. CASE i = lo
        BY <3>1, <3>2, <2>3
      <3>3. CASE i # lo
        <4>1. i \in lo + 1 .. L /\ g[i] = f[i]
          BY <3>3, <2>3
        <4> QED BY <3>1, <4>1, <2>5
      <3> QED BY <3>2, <3>3
    <2>10. Solves(g, lo)
      BY <2>8, <2>9
    <2> QED BY <1>4, <2>2, <2>10
  <1> QED BY <1>5, <1>6

\* The text of a message has a length.
LEMMA TextLengths ==
  ASSUME NEW c \in Seq(Messages)
  PROVE  Len(c) \in Nat /\ DOMAIN c = 1 .. Len(c) /\ \A i \in 1 .. Len(c) : c[i].text \in Nat
  <1>1. \A i \in 1 .. Len(c) : c[i] \in Messages
    OBVIOUS
  <1>2. \A m \in Messages : m.text \in Nat
    BY DEF Messages
  <1> QED BY <1>1, <1>2

Clip(n) == IF n > MaxText THEN MaxText ELSE n
Cap(n) == IF n > MaxTotal THEN MaxTotal ELSE n

\* KeptFrom adds up the clipped texts of known roles, newest first, up to the budget.
LEMMA KeptFromIs ==
  ASSUME NEW c \in Seq(Messages)
  PROVE  /\ KeptFrom(c)[Len(c) + 1] = 0
         /\ \A i \in 1 .. Len(c) : KeptFrom(c)[i] =
              IF ~KnownRole(c[i]) THEN KeptFrom(c)[i + 1]
              ELSE Cap(KeptFrom(c)[i + 1] + Clip(c[i].text))
  <1>0. MaxText \in Nat /\ MaxTotal \in Nat
    BY PolicyAssumption
  <1>1. Len(c) \in Nat /\ \A i \in 1 .. Len(c) : c[i].text \in Nat
    BY TextLengths
  <1> DEFINE E(f, i) == IF ~KnownRole(c[i]) THEN f[i + 1] ELSE Cap(f[i + 1] + Clip(c[i].text))
             Is(f) == f = [i \in 1 .. Len(c) + 1 |-> IF i > Len(c) THEN 0 ELSE E(f, i)]
  <1>2. PICK step : step = [i \in 1 .. Len(c) |->
          [n \in Nat |-> IF ~KnownRole(c[i]) THEN n ELSE Cap(n + Clip(c[i].text))]]
    OBVIOUS
  <1>3. step \in [1 .. Len(c) -> [Nat -> Nat]]
    <2>1. \A n \in Nat : Clip(n) \in Nat /\ Cap(n) \in Nat
      BY <1>0 DEF Cap, Clip
    <2>2. ASSUME NEW i \in 1 .. Len(c), NEW n \in Nat
          PROVE  (IF ~KnownRole(c[i]) THEN n ELSE Cap(n + Clip(c[i].text))) \in Nat
      <3>1. Clip(c[i].text) \in Nat
        BY <1>1, <2>1
      <3>2. n + Clip(c[i].text) \in Nat
        BY <3>1
      <3> QED BY <2>1, <3>2
    <2> HIDE DEF Cap, Clip
    <2> QED BY <1>2, <2>2
  <1>4. PICK f \in [1 .. Len(c) + 1 -> Nat] :
          f[Len(c) + 1] = 0 /\ \A i \in 1 .. Len(c) : f[i] = step[i][f[i + 1]]
    BY <1>1, <1>3, DownDefined
  <1>5. ASSUME NEW i \in 1 .. Len(c) PROVE f[i + 1] \in Nat /\ f[i] = E(f, i)
    <2>1. i + 1 \in 1 .. Len(c) + 1
      BY <1>1
    <2>2. f[i + 1] \in Nat /\ f[i] = step[i][f[i + 1]]
      BY <1>4, <2>1
    <2> QED BY <1>2, <2>2
  <1>6. \A i \in 1 .. Len(c) + 1 : f[i] = IF i > Len(c) THEN 0 ELSE E(f, i)
    BY <1>1, <1>4, <1>5
  <1>7. Is(f)
    BY <1>4, <1>6
  <1>8. PICK g : g = (CHOOSE h : Is(h))
    OBVIOUS
  <1>9. Is(g)
    BY <1>7, <1>8
  <1>10. KeptFrom(c) = g
    BY <1>8, Zenon DEF KeptFrom, Cap, Clip
  <1>11. g[Len(c) + 1] = 0
    BY <1>1, <1>9
  <1>12. \A i \in 1 .. Len(c) : g[i] = E(g, i)
    <2> TAKE i \in 1 .. Len(c)
    <2>1. i \in 1 .. Len(c) + 1 /\ ~(i > Len(c))
      BY <1>1
    <2> QED BY <1>9, <2>1
  <1> QED BY <1>10, <1>11, <1>12

\* TextFrom adds up all texts.
LEMMA TextFromIs ==
  ASSUME NEW c \in Seq(Messages)
  PROVE  /\ TextFrom(c)[Len(c) + 1] = 0
         /\ \A i \in 1 .. Len(c) : TextFrom(c)[i] = c[i].text + TextFrom(c)[i + 1]
  <1>1. Len(c) \in Nat /\ \A i \in 1 .. Len(c) : c[i].text \in Nat
    BY TextLengths
  <1> DEFINE Is(f) == f = [i \in 1 .. Len(c) + 1 |->
                             IF i > Len(c) THEN 0 ELSE c[i].text + f[i + 1]]
  <1>2. PICK step : step = [i \in 1 .. Len(c) |-> [n \in Nat |-> c[i].text + n]]
    OBVIOUS
  <1>3. step \in [1 .. Len(c) -> [Nat -> Nat]]
    BY <1>1, <1>2
  <1>4. PICK f \in [1 .. Len(c) + 1 -> Nat] :
          f[Len(c) + 1] = 0 /\ \A i \in 1 .. Len(c) : f[i] = step[i][f[i + 1]]
    BY <1>1, <1>3, DownDefined
  <1>5. ASSUME NEW i \in 1 .. Len(c) PROVE f[i + 1] \in Nat /\ f[i] = c[i].text + f[i + 1]
    <2>1. i + 1 \in 1 .. Len(c) + 1
      BY <1>1
    <2>2. f[i + 1] \in Nat /\ f[i] = step[i][f[i + 1]]
      BY <1>4, <2>1
    <2> QED BY <1>2, <2>2
  <1>6. \A i \in 1 .. Len(c) + 1 : f[i] = IF i > Len(c) THEN 0 ELSE c[i].text + f[i + 1]
    BY <1>1, <1>4, <1>5
  <1>7. Is(f)
    BY <1>4, <1>6
  <1>8. PICK g : g = (CHOOSE h : Is(h))
    OBVIOUS
  <1>9. Is(g)
    BY <1>7, <1>8
  <1>10. TextFrom(c) = g
    BY <1>8, Zenon DEF TextFrom
  <1>11. g[Len(c) + 1] = 0
    BY <1>1, <1>9
  <1>12. \A i \in 1 .. Len(c) : g[i] = c[i].text + g[i + 1]
    <2> TAKE i \in 1 .. Len(c)
    <2>1. i \in 1 .. Len(c) + 1 /\ ~(i > Len(c))
      BY <1>1
    <2> QED BY <1>9, <2>1
  <1> QED BY <1>10, <1>11, <1>12

\* Of a conversation within all limits, the text of every known role is kept whole.
LEMMA NothingClipped ==
  ASSUME NEW c \in Seq(Messages), ~routeMessagesTruncated(c)
  PROVE  \A i \in 1 .. Len(c) :
           KnownRole(c[i]) => KeptFrom(c)[i] - KeptFrom(c)[i + 1] = c[i].text
  <1>0. MaxText \in Nat /\ MaxTotal \in Nat
    BY PolicyAssumption
  <1>1. PICK K : K = KeptFrom(c)
    OBVIOUS
  <1>2. PICK X : X = TextFrom(c)
    OBVIOUS
  <1>3. PICK L : L = Len(c)
    OBVIOUS
  <1>4. L \in Nat /\ \A i \in 1 .. L : c[i].text \in Nat /\ c[i].text <= MaxText
    <2>1. Len(c) \in Nat /\ DOMAIN c = 1 .. Len(c) /\ \A i \in 1 .. Len(c) : c[i].text \in Nat
      BY TextLengths
    <2>2. \A i \in 1 .. Len(c) : ~(c[i].text > MaxText)
      BY <2>1 DEF routeMessagesTruncated
    <2> QED BY <1>0, <1>3, <2>1, <2>2
  <1>5. K[L + 1] = 0 /\ \A i \in 1 .. L : K[i] = IF ~KnownRole(c[i]) THEN K[i + 1]
                                                 ELSE Cap(K[i + 1] + c[i].text)
    <2>1. K[L + 1] = 0 /\ \A i \in 1 .. L : K[i] = IF ~KnownRole(c[i]) THEN K[i + 1]
                                                   ELSE Cap(K[i + 1] + Clip(c[i].text))
      BY <1>1, <1>3, KeptFromIs
    <2>2. \A i \in 1 .. L : Clip(c[i].text) = c[i].text
      BY <1>0, <1>4 DEF Clip
    <2> QED BY <2>1, <2>2
  <1>6. X[L + 1] = 0 /\ \A i \in 1 .. L : X[i] = c[i].text + X[i + 1]
    BY <1>2, <1>3, TextFromIs
  <1>7. X[1] <= MaxTotal \/ ~(X[1] \in Nat)
    BY <1>0, <1>2 DEF routeMessagesTruncated
  <1>8. \A i \in 1 .. L + 1 : X[i] \in Nat
    <2> DEFINE T == { k \in 0 .. L : X[L + 1 - k] \notin Nat }
    <2>1. T \in SUBSET Nat
      OBVIOUS
    <2>2. ASSUME T # {} PROVE FALSE
      <3>1. PICK k \in T : \A m \in T : k <= m
        BY <2>1, <2>2, Least
      <3>2. k \in 0 .. L /\ X[L + 1 - k] \notin Nat
        BY <3>1
      <3>3. k # 0
        BY <3>2, <1>4, <1>6
      <3>a. k - 1 \in 0 .. L /\ ~(k <= k - 1)
        BY <1>4, <3>2, <3>3
      <3>4. k - 1 \in 0 .. L /\ k - 1 \notin T
        BY <3>1, <3>a, Zenon
      <3>5. X[L + 1 - (k - 1)] \in Nat
        BY <3>4
      <3>b. PICK i : i = L + 1 - k
        OBVIOUS
      <3>6. i \in 1 .. L /\ L + 1 - (k - 1) = i + 1
        BY <1>4, <3>2, <3>3, <3>b
      <3>7. X[i + 1] \in Nat /\ X[i] = c[i].text + X[i + 1] /\ c[i].text \in Nat
        BY <1>4, <1>6, <3>5, <3>6
      <3>8. X[i] \in Nat
        BY <3>7
      <3> QED BY <3>2, <3>8, <3>b
    <2>3. ASSUME NEW i \in 1 .. L + 1 PROVE X[i] \in Nat
      <3>1. L + 1 - i \in 0 .. L /\ L + 1 - (L + 1 - i) = i
        BY <1>4
      <3>2. L + 1 - i \notin T
        BY <2>2
      <3> QED BY <3>1, <3>2
    <2> QED BY <2>3
  <1>9. \A i \in 1 .. L + 1 : X[i] <= MaxTotal
    <2> DEFINE T == { i \in 1 .. L + 1 : ~(X[i] <= MaxTotal) }
    <2>1. SUFFICES ASSUME T # {} PROVE FALSE
      OBVIOUS
    <2>2. T \in SUBSET Nat
      OBVIOUS
    <2>3. PICK n \in T : \A m \in T : n <= m
      BY <2>1, <2>2, Least
    <2>4. n \in 1 .. L + 1 /\ ~(X[n] <= MaxTotal)
      BY <2>3
    <2>5. n # 1
      BY <2>4, <1>7, <1>8
    <2>6. n - 1 \in 1 .. L /\ n - 1 \in 1 .. L + 1 /\ n - 1 \notin T /\ (n - 1) + 1 = n
      BY <1>4, <2>3, <2>4, <2>5
    <2>7. X[n - 1] <= MaxTotal /\ X[n - 1] = c[n - 1].text + X[n] /\ X[n] \in Nat
          /\ c[n - 1].text \in Nat
      BY <1>4, <1>6, <1>8, <2>4, <2>6
    <2> QED BY <1>0, <2>4, <2>7
  <1>10. \A i \in 1 .. L + 1 : K[i] \in Nat /\ K[i] <= X[i]
    <2> DEFINE T == { k \in 0 .. L : ~(K[L + 1 - k] \in Nat /\ K[L + 1 - k] <= X[L + 1 - k]) }
    <2>1. T \in SUBSET Nat
      OBVIOUS
    <2>2. ASSUME T # {} PROVE FALSE
      <3>1. PICK k \in T : \A m \in T : k <= m
        BY <2>1, <2>2, Least
      <3>2. k \in 0 .. L /\ ~(K[L + 1 - k] \in Nat /\ K[L + 1 - k] <= X[L + 1 - k])
        BY <3>1
      <3>3. k # 0
        BY <3>2, <1>4, <1>5, <1>6
      <3>a. k - 1 \in 0 .. L /\ ~(k <= k - 1)
        BY <1>4, <3>2, <3>3
      <3>4. k - 1 \in 0 .. L /\ k - 1 \notin T
        BY <3>1, <3>a, Zenon
      <3>5. PICK i : i = L + 1 - k
        OBVIOUS
      <3>6. i \in 1 .. L /\ i \in 1 .. L + 1 /\ i + 1 \in 1 .. L + 1 /\ L + 1 - (k - 1) = i + 1
        BY <1>4, <3>2, <3>3, <3>5
      <3>7. K[i + 1] \in Nat /\ K[i + 1] <= X[i + 1]
        BY <3>4, <3>6
      <3>8. X[i] = c[i].text + X[i + 1] /\ X[i + 1] \in Nat /\ c[i].text \in Nat /\ X[i] <= MaxTotal
        BY <1>4, <1>6, <1>8, <1>9, <3>6
      <3>9. K[i] = IF ~KnownRole(c[i]) THEN K[i + 1] ELSE Cap(K[i + 1] + c[i].text)
        BY <1>5, <3>6
      <3>10. K[i] \in Nat /\ K[i] <= X[i]
        BY <1>0, <3>7, <3>8, <3>9 DEF Cap
      <3> QED BY <3>2, <3>5, <3>10
    <2>3. ASSUME NEW i \in 1 .. L + 1 PROVE K[i] \in Nat /\ K[i] <= X[i]
      <3>1. L + 1 - i \in 0 .. L /\ L + 1 - (L + 1 - i) = i
        BY <1>4
      <3>2. L + 1 - i \notin T
        BY <2>2
      <3> QED BY <3>1, <3>2
    <2> QED BY <2>3
  <1>11. ASSUME NEW i \in 1 .. L, KnownRole(c[i]) PROVE K[i] - K[i + 1] = c[i].text
    <2>1. i \in 1 .. L + 1 /\ i + 1 \in 1 .. L + 1
      BY <1>4
    <2>2. K[i + 1] \in Nat /\ K[i + 1] <= X[i + 1] /\ X[i + 1] \in Nat /\ X[i] <= MaxTotal
          /\ X[i] = c[i].text + X[i + 1] /\ c[i].text \in Nat
      BY <1>4, <1>6, <1>8, <1>9, <1>10, <2>1
    <2>3. K[i] = Cap(K[i + 1] + c[i].text)
      BY <1>5, <1>11
    <2> QED BY <1>0, <2>2, <2>3 DEF Cap
  <1> QED BY <1>1, <1>3, <1>11

\* A query that does not say it was truncated carries the whole conversation.
LEMMA WholeConversation ==
  ASSUME NEW c \in Seq(Messages), ~routeMessagesTruncated(c)
  PROVE  convertRouteMessages(c) = Sendable(c)
  <1>1. Len(c) \in Nat /\ DOMAIN c = 1 .. Len(c) /\ \A i \in 1 .. Len(c) : c[i] \in Messages
    OBVIOUS
  <1>2. Tail96(c) = c
    BY DEF Tail96, routeMessagesTruncated
  <1>3. PICK sent : sent = [i \in DOMAIN c |->
                      [c[i] EXCEPT !.text = KeptFrom(c)[i] - KeptFrom(c)[i + 1]]]
    OBVIOUS
  <1>4. convertRouteMessages(c) = Sendable(sent)
    BY <1>2, <1>3, Zenon DEF convertRouteMessages
  <1> DEFINE P(m) == KnownRole(m) /\ (m.text > 0 \/ m.result > 0)
  <1>5. ASSUME NEW i \in 1 .. Len(c)
        PROVE  /\ sent[i] \in {m \in Range(sent) : P(m)} <=> c[i] \in {m \in Range(c) : P(m)}
               /\ sent[i] \in {m \in Range(sent) : P(m)} => sent[i] = c[i]
    <2>1. sent[i] = [c[i] EXCEPT !.text = KeptFrom(c)[i] - KeptFrom(c)[i + 1]]
          /\ sent[i] \in Range(sent) /\ c[i] \in Range(c) /\ c[i] \in Messages
      BY <1>1, <1>3 DEF Range
    <2>2. sent[i].role = c[i].role
      BY <2>1 DEF Messages
    <2>3. CASE ~KnownRole(c[i])
      BY <2>2, <2>3 DEF KnownRole
    <2>4. CASE KnownRole(c[i])
      <3>1. KeptFrom(c)[i] - KeptFrom(c)[i + 1] = c[i].text
        BY <2>4, NothingClipped
      <3>2. sent[i] = c[i]
        BY <2>1, <3>1 DEF Messages
      <3> QED BY <2>1, <3>2
    <2> QED BY <2>3, <2>4
  <1>6. DOMAIN sent = 1 .. Len(c) /\ Len(sent) = Len(c)
    BY <1>1, <1>3
  <1>7. Keep(sent, {m \in Range(sent) : P(m)}) = Keep(c, {m \in Range(c) : P(m)})
    BY <1>1, <1>5, <1>6, KeepSame
  <1> QED BY <1>4, <1>7 DEF Sendable

-----------------------------------------------------------------------------
(* The invariant.  Settings and request never change, so what is computed   *)
(* from them alone does not either.                                         *)

Queries == {None} \cup { <<marshalRouteRequest(p)>> : p \in Callers }
Picks(r) == { Choose(r, res, Resolve(r), conf.selects) : res \in Answers }
Outs == [ok : {FALSE}, why : {None, "unavailable"}, deadline : BOOLEAN]
        \cup Picks(req) \cup Picks(restrictToTier(req, conf.floor))
        \cup { [ok |-> TRUE, arms |-> res.arms] : res \in PreviewAnswers }
CallRecord ==
  [pc : {"idle", "start", "attempt", "backoff", "done"}, attempt : Nat,
   last : {None, "deadline", "transport", "status"}, status : BOOLEAN, expired : BOOLEAN,
   authoritative : BOOLEAN, query : Queries, out : Outs]

Named == DOMAIN Catalog \cup {None}
Over == STRING \cup {None} \cup { Catalog[m].bindings[1] : m \in DOMAIN Catalog }
Decision == [model : Named, provider : Over, marker : Named, meta : BOOLEAN]
TurnRecord ==
  [pc : {"none", "begin", "routing", "served", "failed", "reported"}, authoritative : BOOLEAN,
   decision : Decision, how : {None, "policy", "stay", "degraded"}, rescued : BOOLEAN,
   left : BOOLEAN, tier : BOOLEAN]

\* A decision the policy made for this request.
Chosen(r, out) ==
  \E b \in Range(Resolve(r)) :
    /\ out.model = b.model /\ out.provider = b.provider
    /\ r.force \in DOMAIN r.overrides => b.model \in Range(r.overrides[r.force])
    /\ out.marker # None => out.marker = b.model

\* A preview lists arms that are candidates.
Listed(r, out) == \A a \in Range(out.arms) : \E c \in Range(Resolve(r)) : c.roster = a.base

\* What a call returns, whoever makes it.
OutOK(p, out) ==
  /\ out.ok \in BOOLEAN
  /\ out.ok => IF p = "preview" THEN Listed(req, out) ELSE Chosen(RoutedReq(p), out)

\* A deadline in an error of the serving call is a real one, and a spent budget
\* always ends in such an error.
DeadlineOK(c) ==
  /\ ~c.out.ok /\ c.out.deadline => c.expired \/ c.last = "deadline"
  /\ c.expired => c.pc = "done" /\ ~c.out.ok /\ c.out.deadline
  /\ c.pc # "done" => ~c.out.ok /\ ~c.out.deadline

CallOK(p, c) ==
  /\ c \in CallRecord
  /\ c.query = None \/ c.query = <<marshalRouteRequest(p)>>
  /\ OutOK(p, c.out)
  /\ p = "serving" => DeadlineOK(c)

CallInv == call \in [Callers -> CallRecord] /\ \A p \in Callers : CallOK(p, call[p])

\* A peer of the policy's pool.
Sibling(d) ==
  /\ \E b \in Range(Resolve(RoutedReq("serving"))) : d.model = b.model
  /\ d.provider \in conf.keyed \cap Range(Catalog[d.model].bindings)
  /\ d.model \notin req.auto /\ d.marker = None /\ d.meta

\* Why the turn is served the way it is.
Served ==
  LET c == call["serving"]
  IN  \/ /\ turn.how = "policy" /\ c.out.ok
         /\ turn.rescued => Sibling(turn.decision)
         /\ ~turn.rescued => turn.decision = OfPolicy(c.out)
      \/ /\ turn.how = "stay" /\ c.out.ok /\ ~turn.rescued /\ turn.decision = Pinned
      \/ /\ turn.how = "degraded" /\ ~turn.rescued /\ turn.decision = Degraded
         /\ Degraded.model # None /\ (c.expired \/ c.last = "deadline")

TurnInv ==
  /\ turn \in TurnRecord
  /\ turn.pc \in {"none", "begin"} => call["serving"].pc = "idle"
  /\ turn.pc \in {"served", "reported", "failed"} => call["serving"].pc = "done"
  /\ turn.pc \in {"served", "reported"} => Served
  /\ turn.pc \notin {"served", "reported"} =>
       turn.how = None /\ turn.decision = Nobody /\ ~turn.rescued
  /\ turn.pc = "failed" /\ call["serving"].expired /\ conf.hmm /\ conf.degrade
       => Degraded.model = None \/ ~conf.store \/ (turn.tier /\ turn.authoritative)

\* What is reported is what was decided.
PostRecord ==
  [pc : {"pending", "lost", "delivered"}, selected : Named, served : Named, train : BOOLEAN]

PostInv ==
  post # NoPost =>
    /\ post \in PostRecord
    /\ turn.pc = "reported"
    /\ turn.how \in {"policy", "stay"} /\ call["serving"].out.ok
    /\ post.train => req.train
    /\ post.selected \in {c.model : c \in Range(Cands("serving"))}
    /\ ~turn.rescued => post.selected = call["serving"].out.model
    /\ (post.train /\ call["serving"].authoritative /\ ~turn.rescued)
         => post.served = call["serving"].out.model

InputInv == conf \in Settings /\ req \in Requests /\ caps \in Capabilities

PolicyInv == InputInv /\ CallInv /\ TurnInv /\ PostInv

-----------------------------------------------------------------------------
(* Initially.                                                               *)

\* The fields of the settings and of the request that the steps read.
LEMMA InputTypes ==
  ASSUME InputInv
  PROVE  /\ conf.selects \in BOOLEAN /\ conf.hmm \in BOOLEAN /\ conf.degrade \in BOOLEAN
         /\ conf.pin \in Named /\ conf.default \in Named /\ conf.caps \in Capabilities
         /\ conf.preview \in BOOLEAN /\ conf.shadow \in BOOLEAN /\ conf.store \in BOOLEAN
         /\ conf.floor \in STRING
         /\ caps.authoritative \in BOOLEAN /\ req.train \in BOOLEAN
  BY PolicyAssumption DEF InputInv, Named, Capabilities

\* What a caller routes is the turn's request, within a tier or not.
LEMMA RoutedReqIs ==
  ASSUME InputInv, NEW p
  PROVE  /\ RoutedReq(p) \in Routed
         /\ RoutedReq(p) \in {req, restrictToTier(req, conf.floor)}
  <1>1. req \in Requests /\ conf.floor \in STRING
    BY InputTypes DEF InputInv
  <1> QED BY <1>1 DEF RoutedReq, Routed

\* It changes only with the turn's tier.
LEMMA RoutedSame ==
  ASSUME UNCHANGED <<conf, req>>, turn'.tier = turn.tier
  PROVE  \A p : RoutedReq(p)' = RoutedReq(p)
  BY DEF RoutedReq, restrictToTier

\* A call that has sent nothing promises nothing.
LEMMA IdleOK ==
  ASSUME NEW p \in Callers, NEW c, c = Idle \/ c = [Idle EXCEPT !.pc = "start"]
  PROVE  CallOK(p, c)
  <1>1. Fail(None) \in Outs
    BY DEF Fail, Outs
  <1>2. None \in Queries
    BY DEF Queries
  <1> HIDE DEF Outs, Queries
  <1>a. PICK f : f = Fail(None)
    OBVIOUS
  <1>b. PICK at \in {"idle", "start"} :
          c = [pc |-> at, attempt |-> 0, last |-> None, status |-> FALSE, expired |-> FALSE,
               authoritative |-> FALSE, query |-> None, out |-> f]
    BY <1>a DEF Idle
  <1>3. c \in CallRecord /\ c.query = None /\ c.out = f /\ c.expired = FALSE
    BY <1>1, <1>2, <1>a, <1>b DEF CallRecord
  <1>4. c.out.ok = FALSE /\ c.out.deadline = FALSE
    BY <1>3, <1>a DEF Fail
  <1> HIDE DEF None
  <1> QED BY <1>3, <1>4 DEF CallOK, OutOK, DeadlineOK

\* The invariant holds initially.
LEMMA InitGood == Init => PolicyInv
  <1> SUFFICES ASSUME Init PROVE PolicyInv
    OBVIOUS
  <1>1. conf \in Settings /\ req \in Requests /\ caps \in {NoCaps, conf.caps}
    BY DEF Init
  <1>2. conf.caps \in Capabilities /\ conf.preview \in BOOLEAN
    BY <1>1, PolicyAssumption
  <1>3. InputInv
    <2>1. NoCaps \in Capabilities
      BY DEF NoCaps, Capabilities
    <2> QED BY <1>1, <1>2, <2>1 DEF InputInv
  <1>4. call = [p \in Callers |-> IF p = "preview" /\ conf.preview THEN [Idle EXCEPT !.pc = "start"]
                                  ELSE Idle]
    BY DEF Init
  <1>5. \A p \in Callers : CallOK(p, call[p])
    BY <1>4, IdleOK
  <1>6. \A p \in Callers : call[p] \in CallRecord
    BY <1>5 DEF CallOK
  <1>7. CallInv
    BY <1>4, <1>5, <1>6 DEF CallInv
  <1>8. call["serving"].pc = "idle"
    BY <1>4 DEF Callers, Idle
  <1>9. Nobody \in Decision
    BY DEF Nobody, Decision, Named, Over
  <1>10. turn = [pc |-> IF conf.preview THEN "none" ELSE "begin", authoritative |-> FALSE,
                 tier |-> FALSE, decision |-> Nobody, how |-> None, rescued |-> FALSE, left |-> FALSE]
    BY DEF Init
  <1>11. TurnInv
    BY <1>8, <1>9, <1>10 DEF TurnInv, TurnRecord
  <1>12. PostInv
    BY DEF Init, PostInv, NoPost
  <1> QED BY <1>3, <1>7, <1>11, <1>12 DEF PolicyInv

\* The parts that depend on settings and request alone.
LEMMA Fixed ==
  ASSUME UNCHANGED <<conf, req>>
  PROVE  /\ Queries' = Queries /\ Outs' = Outs /\ CallRecord' = CallRecord
         /\ Degraded' = Degraded /\ Pinned' = Pinned
         /\ \A p : marshalRouteRequest(p)' = marshalRouteRequest(p)
  <1>1. \A p : marshalRouteRequest(p)' = marshalRouteRequest(p)
    BY DEF marshalRouteRequest, trainsOn
  <1>2. Queries' = Queries
    BY <1>1 DEF Queries
  <1>3. Outs' = Outs
    BY DEF Outs, Picks, restrictToTier
  <1>4. CallRecord' = CallRecord
    BY <1>2, <1>3 DEF CallRecord
  <1>5. Pinned' = Pinned
    BY DEF Pinned
  <1>6. Degraded' = Degraded
    BY <1>5 DEF Degraded, policyDeadlineDefaultDecision
  <1> QED BY <1>1, <1>2, <1>3, <1>4, <1>5, <1>6

-----------------------------------------------------------------------------
(* Steps of a call.                                                         *)

\* Well-formed calls stay well formed while settings and request stay.
LEMMA CallsKept ==
  ASSUME UNCHANGED <<conf, req>>, call' \in [Callers -> CallRecord],
         \A c \in Callers : RoutedReq(c)' = RoutedReq(c) \/ ~call'[c].out.ok,
         \A c \in Callers : CallOK(c, call'[c])
  PROVE  CallInv'
  <1>1. \A c \in Callers : CallOK(c, call[c])'
    <2> TAKE c \in Callers
    <2>1. PICK r : r = call'[c]
      OBVIOUS
    <2>2. CallOK(c, r)
      BY <2>1
    <2>3. r \in CallRecord /\ (r.query = None \/ r.query = <<marshalRouteRequest(c)>>)
          /\ OutOK(c, r.out) /\ (c = "serving" => DeadlineOK(r))
      BY <2>2 DEF CallOK
    <2>4. marshalRouteRequest(c)' = marshalRouteRequest(c) /\ CallRecord' = CallRecord
      BY Fixed
    <2>5. /\ r.out.ok \in BOOLEAN
          /\ r.out.ok => IF c = "preview" THEN Listed(req', r.out) ELSE Chosen(RoutedReq(c)', r.out)
      BY <2>1, <2>3 DEF OutOK
    <2> QED BY <2>1, <2>3, <2>4, <2>5 DEF CallOK, OutOK, DeadlineOK
  <1>2. CallRecord' = CallRecord
    BY Fixed
  <1> QED BY <1>1, <1>2 DEF CallInv

\* A step of one call that leaves it well formed keeps the invariant: the turn
\* looks at its call only when the call is done.
LEMMA CallStep ==
  ASSUME PolicyInv, NEW p \in Callers, call[p].pc \in {"start", "attempt", "backoff"},
         NEW q, CallOK(p, q), call' = [call EXCEPT ![p] = q],
         UNCHANGED <<conf, req, caps, turn, post>>
  PROVE  PolicyInv'
  <1>1. InputInv /\ CallInv /\ TurnInv /\ PostInv
    BY DEF PolicyInv
  <1>2. InputInv'
    BY <1>1 DEF InputInv
  <1>3. q \in CallRecord /\ call \in [Callers -> CallRecord]
    BY <1>1 DEF CallOK, CallInv
  <1>4. CallInv'
    <2>1. call' \in [Callers -> CallRecord]
      BY <1>3
    <2>2. \A c \in Callers : call'[c] = IF c = p THEN q ELSE call[c]
      BY <1>3
    <2>3. \A c \in Callers : CallOK(c, call'[c])
      BY <1>1, <2>2 DEF CallInv
    <2> QED BY <2>1, <2>3, RoutedSame, CallsKept
  <1>5. Degraded' = Degraded /\ Pinned' = Pinned
    BY Fixed
  <1>6. CASE p = "serving"
    <2>1. turn.pc = "routing"
      BY <1>1, <1>6 DEF TurnInv, TurnRecord
    <2>2. TurnInv'
      BY <1>1, <2>1 DEF TurnInv
    <2>3. PostInv'
      BY <1>1, <2>1 DEF PostInv
    <2> QED BY <1>2, <1>4, <2>2, <2>3 DEF PolicyInv
  <1>7. CASE p # "serving"
    <2>1. call'["serving"] = call["serving"]
      BY <1>3, <1>7 DEF Callers
    <2>2. Served' = Served
      BY <1>5, <2>1, RoutedSame DEF Served, Sibling
    <2>3. TurnInv'
      BY <1>1, <1>5, <2>1, <2>2 DEF TurnInv
    <2>4. PostInv'
      BY <1>1, <2>1, RoutedSame DEF PostInv, Cands
    <2> QED BY <1>2, <1>4, <2>3, <2>4 DEF PolicyInv
  <1> QED BY <1>6, <1>7

\* An error without a deadline is a result any call may end with.
LEMMA FailOK ==
  ASSUME NEW p \in Callers, NEW c, CallOK(p, c), c.pc \in {"start", "attempt", "backoff"},
         NEW q, q = [c EXCEPT !.pc = "done", !.out = Fail("unavailable")]
  PROVE  CallOK(p, q)
  <1>1. PICK f : f = Fail("unavailable")
    OBVIOUS
  <1>2. f \in Outs /\ f.ok = FALSE /\ f.deadline = FALSE
    BY <1>1 DEF Fail, Outs
  <1>3. c \in CallRecord /\ (p = "serving" => ~c.expired)
    BY DEF CallOK, DeadlineOK
  <1> HIDE DEF Outs
  <1>4. q \in CallRecord /\ q.out = f /\ q.query = c.query /\ q.expired = c.expired
    BY <1>1, <1>2, <1>3 DEF CallRecord
  <1> QED BY <1>2, <1>3, <1>4 DEF CallOK, OutOK, DeadlineOK

\* A spent budget, or a ladder whose last attempt timed out, is a deadline.
LEMMA ExhaustedOut ==
  ASSUME NEW c, NEW done \in BOOLEAN, NEW f, f = exhaustedPolicyErr(c, done)
  PROVE  f \in Outs /\ f.ok = FALSE /\ f.deadline = (done \/ c.last = "deadline")
  <1>1. f = [ok |-> FALSE, why |-> "unavailable", deadline |-> done \/ c.last = "deadline"]
    BY DEF exhaustedPolicyErr
  <1> QED BY <1>1 DEF Outs

\* A call that ran out of attempts says whether a deadline was to blame.
LEMMA ExhaustedOK ==
  ASSUME NEW p \in Callers, NEW c, NEW done \in BOOLEAN, NEW q \in CallRecord,
         q.query = None \/ q.query = <<marshalRouteRequest(p)>>,
         q.pc = "done", q.last = c.last, q.out = exhaustedPolicyErr(c, done),
         p = "serving" => q.expired = done
  PROVE  CallOK(p, q)
  <1>1. q.out.ok = FALSE /\ q.out.deadline = (done \/ c.last = "deadline")
    BY ExhaustedOut
  <1>2. p = "serving" => DeadlineOK(q)
    BY <1>1 DEF DeadlineOK
  <1> QED BY <1>1, <1>2 DEF CallOK, OutOK

\* The invariant, for one call.
LEMMA CallsOK ==
  ASSUME PolicyInv, NEW p \in Callers
  PROVE  CallOK(p, call[p]) /\ call[p] \in CallRecord /\ call \in [Callers -> CallRecord]
  BY DEF PolicyInv, CallInv, CallOK

\* The call record of a spent budget.
LEMMA SpentOK ==
  ASSUME NEW p \in Callers, NEW c, CallOK(p, c),
         NEW f, f = exhaustedPolicyErr(c, TRUE),
         NEW q, q = [c EXCEPT !.pc = "done", !.expired = TRUE, !.out = f]
  PROVE  CallOK(p, q)
  <1>1. c \in CallRecord /\ (c.query = None \/ c.query = <<marshalRouteRequest(p)>>)
    BY DEF CallOK
  <1>t. TRUE \in BOOLEAN
    OBVIOUS
  <1>2. f \in Outs /\ f.ok = FALSE /\ f.deadline = TRUE
    BY <1>t, ExhaustedOut
  <1>3. q \in CallRecord /\ q.query = c.query /\ q.pc = "done" /\ q.last = c.last /\ q.out = f
        /\ q.expired = TRUE
    BY <1>1, <1>2 DEF CallRecord
  <1> QED BY <1>1, <1>2, <1>3 DEF CallOK, OutOK, DeadlineOK

\* A call builds its query and sends the first attempt.
LEMMA BeginKeeps ==
  ASSUME PolicyInv, NEW p \in Callers, Begin(p)
  PROVE  PolicyInv'
  <1>1. call[p].pc = "start" /\ CallOK(p, call[p]) /\ call[p] \in CallRecord
        /\ call \in [Callers -> CallRecord] /\ UNCHANGED <<conf, req, caps, turn, post>>
    BY CallsOK DEF Begin
  <1>2. CASE Finish(p, Fail("unavailable"))
    <2>1. PICK q : q = [call[p] EXCEPT !.pc = "done", !.out = Fail("unavailable")]
      OBVIOUS
    <2>2. call' = [call EXCEPT ![p] = q]
      BY <1>1, <1>2, <2>1 DEF Finish
    <2>3. CallOK(p, q)
      BY <1>1, <2>1, FailOK
    <2> QED BY <1>1, <2>2, <2>3, CallStep
  <1>3. CASE call' = [call EXCEPT ![p].pc = "attempt", ![p].attempt = 1,
                        ![p].authoritative = caps.authoritative,
                        ![p].query = <<marshalRouteRequest(p)>>]
    <2>1. PICK m : m = <<marshalRouteRequest(p)>>
      OBVIOUS
    <2>2. PICK q : q = [call[p] EXCEPT !.pc = "attempt", !.attempt = 1,
                          !.authoritative = caps.authoritative, !.query = m]
      OBVIOUS
    <2>3. call' = [call EXCEPT ![p] = q]
      BY <1>1, <1>3, <2>1, <2>2
    <2>4. m \in Queries /\ caps.authoritative \in BOOLEAN
      BY <2>1, InputTypes DEF Queries, PolicyInv
    <2>5. q \in CallRecord /\ q.out = call[p].out /\ q.query = m /\ q.expired = call[p].expired
          /\ q.last = call[p].last
      BY <1>1, <2>2, <2>4 DEF CallRecord
    <2>6. CallOK(p, q)
      BY <1>1, <2>1, <2>5 DEF CallOK, DeadlineOK
    <2> QED BY <1>1, <2>3, <2>6, CallStep
  <1>4. CASE call' = [call EXCEPT ![p].pc = "done", ![p].expired = TRUE,
                                  ![p].out = exhaustedPolicyErr(call[p], TRUE)]
    <2>1. PICK f : f = exhaustedPolicyErr(call[p], TRUE)
      OBVIOUS
    <2>2. PICK q : q = [call[p] EXCEPT !.pc = "done", !.expired = TRUE, !.out = f]
      OBVIOUS
    <2>3. call' = [call EXCEPT ![p].pc = "done", ![p].expired = TRUE, ![p].out = f]
      BY <1>4, <2>1
    <2>4. call' = [call EXCEPT ![p] = q]
      BY <1>1, <2>2, <2>3
    <2>5. CallOK(p, q)
      BY <1>1, <2>1, <2>2, SpentOK
    <2> QED BY <1>1, <2>4, <2>5, CallStep
  <1> QED BY <1>2, <1>3, <1>4 DEF Begin

\* An attempt fails.
LEMMA AttemptFailsKeeps ==
  ASSUME PolicyInv, NEW p \in Callers, NEW how \in {"deadline", "transport", "status"},
         AttemptFails(p, how)
  PROVE  PolicyInv'
  <1>1. call[p].pc = "attempt" /\ CallOK(p, call[p]) /\ call[p] \in CallRecord
        /\ call \in [Callers -> CallRecord] /\ UNCHANGED <<conf, req, caps, turn, post>>
    BY CallsOK DEF AttemptFails
  <1>2. PICK c : c = [call[p] EXCEPT !.last = how, !.status = @ \/ how = "status"]
    OBVIOUS
  <1>3. c \in CallRecord /\ c.query = call[p].query /\ c.out = call[p].out
        /\ c.expired = call[p].expired /\ c.last = how
    BY <1>1, <1>2 DEF CallRecord
  <1>4. PICK q : q = IF c.attempt = MaxAttempts
                     THEN [c EXCEPT !.pc = "done", !.out = exhaustedPolicyErr(c, FALSE)]
                     ELSE [c EXCEPT !.pc = "backoff"]
    OBVIOUS
  <1>5. call' = [call EXCEPT ![p] = q]
    BY <1>2, <1>4 DEF AttemptFails
  <1>6. p = "serving" => c.expired = FALSE
    BY <1>1, <1>3 DEF CallOK, DeadlineOK, CallRecord
  <1>7. CASE c.attempt = MaxAttempts
    <2>1. PICK f : f = exhaustedPolicyErr(c, FALSE)
      OBVIOUS
    <2>2. f \in Outs
      BY <2>1, ExhaustedOut
    <2>3. q = [c EXCEPT !.pc = "done", !.out = f]
      BY <1>4, <1>7, <2>1
    <2>4. q \in CallRecord /\ q.query = c.query /\ q.pc = "done" /\ q.last = c.last /\ q.out = f
          /\ q.expired = c.expired
      BY <1>3, <2>2, <2>3 DEF CallRecord
    <2>5. q.query = None \/ q.query = <<marshalRouteRequest(p)>>
      BY <1>1, <1>3, <2>4 DEF CallOK
    <2>6. CallOK(p, q)
      BY <1>6, <2>1, <2>4, <2>5, ExhaustedOK
    <2> QED BY <1>1, <1>5, <2>6, CallStep
  <1>8. CASE c.attempt # MaxAttempts
    <2>1. q = [c EXCEPT !.pc = "backoff"]
      BY <1>4, <1>8
    <2>2. q \in CallRecord /\ q.query = c.query /\ q.out = c.out /\ q.expired = c.expired
      BY <1>3, <2>1 DEF CallRecord
    <2>3. p = "serving" => DeadlineOK(q)
      <3>1. p = "serving" => ~call[p].out.ok /\ ~call[p].out.deadline
        BY <1>1 DEF CallOK, DeadlineOK
      <3> QED BY <1>3, <1>6, <2>2, <3>1 DEF DeadlineOK
    <2>4. CallOK(p, q)
      BY <1>1, <1>3, <2>2, <2>3 DEF CallOK
    <2> QED BY <1>1, <1>5, <2>4, CallStep
  <1> QED BY <1>7, <1>8

\* A call waits and tries again.
LEMMA BackoffKeeps ==
  ASSUME PolicyInv, NEW p \in Callers, Backoff(p)
  PROVE  PolicyInv'
  <1>1. call[p].pc = "backoff" /\ CallOK(p, call[p]) /\ call[p] \in CallRecord
        /\ call \in [Callers -> CallRecord] /\ UNCHANGED <<conf, req, caps, turn, post>>
    BY CallsOK DEF Backoff
  <1>a. PICK n : n = call[p].attempt + 1
    OBVIOUS
  <1>b. call[p].attempt \in Nat
    BY <1>1 DEF CallRecord
  <1>n. n \in Nat
    BY <1>a, <1>b
  <1>2. PICK q : q = [call[p] EXCEPT !.pc = "attempt", !.attempt = n]
    OBVIOUS
  <1>3. call' = [call EXCEPT ![p] = q]
    BY <1>1, <1>2, <1>a DEF Backoff
  <1>4. q \in CallRecord /\ q.query = call[p].query /\ q.out = call[p].out
        /\ q.expired = call[p].expired /\ q.last = call[p].last
    BY <1>1, <1>2, <1>n DEF CallRecord
  <1>5. CallOK(p, q)
    BY <1>1, <1>4 DEF CallOK, DeadlineOK
  <1> QED BY <1>1, <1>3, <1>5, CallStep

\* The budget of a call runs out.
LEMMA BudgetExpiresKeeps ==
  ASSUME PolicyInv, NEW p \in Callers, BudgetExpires(p)
  PROVE  PolicyInv'
  <1>1. call[p].pc \in {"attempt", "backoff"} /\ CallOK(p, call[p]) /\ call[p] \in CallRecord
        /\ call \in [Callers -> CallRecord] /\ UNCHANGED <<conf, req, caps, turn, post>>
    BY CallsOK DEF BudgetExpires
  <1>2. PICK f : f = exhaustedPolicyErr(call[p], TRUE)
    OBVIOUS
  <1>3. PICK q : q = [call[p] EXCEPT !.pc = "done", !.expired = TRUE, !.out = f]
    OBVIOUS
  <1>4. call' = [call EXCEPT ![p].pc = "done", ![p].expired = TRUE, ![p].out = f]
    BY <1>2 DEF BudgetExpires
  <1>5. call' = [call EXCEPT ![p] = q]
    BY <1>1, <1>3, <1>4
  <1>6. CallOK(p, q)
    BY <1>1, <1>2, <1>3, SpentOK
  <1> QED BY <1>1, <1>5, <1>6, CallStep

\* A call is refused.
LEMMA RefusedKeeps ==
  ASSUME PolicyInv, NEW p \in Callers, Refused(p)
  PROVE  PolicyInv'
  <1>1. call[p].pc = "attempt" /\ CallOK(p, call[p]) /\ call[p] \in CallRecord
        /\ call \in [Callers -> CallRecord] /\ UNCHANGED <<conf, req, caps, turn, post>>
        /\ Finish(p, Fail("unavailable"))
    BY CallsOK DEF Refused
  <1>2. PICK q : q = [call[p] EXCEPT !.pc = "done", !.out = Fail("unavailable")]
    OBVIOUS
  <1>3. call' = [call EXCEPT ![p] = q]
    BY <1>1, <1>2 DEF Finish
  <1>4. CallOK(p, q)
    BY <1>1, <1>2, FailOK
  <1> QED BY <1>1, <1>3, <1>4, CallStep

\* A call that ends with a result which is not a deadline.
LEMMA ResultOK ==
  ASSUME NEW p \in Callers, NEW c, CallOK(p, c), c.pc = "attempt",
         NEW out \in Outs, OutOK(p, out), p = "serving" /\ ~out.ok => ~out.deadline,
         NEW q, q = [c EXCEPT !.pc = "done", !.out = out]
  PROVE  CallOK(p, q)
  <1>1. c \in CallRecord /\ (p = "serving" => ~c.expired)
    BY DEF CallOK, DeadlineOK
  <1> HIDE DEF Outs
  <1>2. q \in CallRecord /\ q.out = out /\ q.query = c.query /\ q.expired = c.expired
        /\ q.pc = "done"
    BY <1>1 DEF CallRecord
  <1>3. p = "serving" => DeadlineOK(q)
    BY <1>1, <1>2 DEF DeadlineOK
  <1> QED BY <1>2, <1>3 DEF CallOK

\* An answer arrives and is checked.
LEMMA DecideKeeps ==
  ASSUME PolicyInv, NEW p \in Callers, NEW res \in Answers, Decide(p, res)
  PROVE  PolicyInv'
  <1>1. p # "preview" /\ call[p].pc = "attempt" /\ CallOK(p, call[p]) /\ call[p] \in CallRecord
        /\ call \in [Callers -> CallRecord] /\ UNCHANGED <<conf, req, caps, turn, post>>
    BY CallsOK DEF Decide
  <1>2. PICK out : out = IF Contract(res) THEN Choose(RoutedReq(p), res, Cands(p), conf.selects)
                                          ELSE Fail("unavailable")
    OBVIOUS
  <1>3. PICK q : q = [call[p] EXCEPT !.pc = "done", !.out = out]
    OBVIOUS
  <1>4. Finish(p, out)
    BY <1>2 DEF Decide
  <1>5. call' = [call EXCEPT ![p] = q]
    BY <1>1, <1>3, <1>4 DEF Finish
  <1>6. conf.selects \in BOOLEAN
    BY InputTypes DEF PolicyInv
  <1>r. PICK r : r = RoutedReq(p)
    OBVIOUS
  <1>s. r \in Routed /\ r \in {req, restrictToTier(req, conf.floor)}
    BY <1>r, RoutedReqIs DEF PolicyInv
  <1>7. out \in Outs /\ OutOK(p, out) /\ (~out.ok => ~out.deadline)
    <2>1. CASE Contract(res)
      <3>1. out = Choose(r, res, Resolve(r), conf.selects)
        BY <1>2, <1>r, <2>1 DEF Cands
      <3>2. ChoiceOK(r, out)
        BY <1>6, <1>s, <3>1, ChooseSound
      <3>3. out \in Outs
        <4>1. out \in Picks(r)
          BY <3>1 DEF Picks
        <4> QED BY <1>s, <4>1 DEF Outs
      <3> QED BY <1>1, <1>r, <3>2, <3>3 DEF ChoiceOK, OutOK, Chosen
    <2>2. CASE ~Contract(res)
      <3>1. out = [ok |-> FALSE, why |-> "unavailable", deadline |-> FALSE]
        BY <1>2, <2>2 DEF Fail
      <3> QED BY <3>1 DEF Outs, OutOK
    <2> QED BY <2>1, <2>2
  <1>8. CallOK(p, q)
    BY <1>1, <1>3, <1>7, ResultOK
  <1> QED BY <1>1, <1>5, <1>8, CallStep

\* An accepted preview lists candidates.
LEMMA PreviewListed ==
  ASSUME NEW r \in Routed, NEW res, PreviewAccepted(res, Resolve(r), SchemaVersion(conf.selects))
  PROVE  Listed(r, [ok |-> TRUE, arms |-> res.arms])
  <1> SUFFICES ASSUME NEW a \in Range(res.arms) PROVE \E c \in Range(Resolve(r)) : c.roster = a.base
    BY DEF Listed
  <1>1. PICK schema : schema = SchemaVersion(conf.selects)
    OBVIOUS
  <1>2. IF schema = "v2" THEN ByArmID(Resolve(r), <<a.base>>) # {}
                         ELSE ByRosterID(Resolve(r), a.base) # {}
    BY <1>1 DEF PreviewAccepted
  <1>3. CASE schema # "v2"
    BY <1>2, <1>3 DEF ByRosterID
  <1>4. CASE schema = "v2"
    <2>1. PICK c \in Range(Resolve(r)) : c.arm = <<a.base>>
      BY <1>2, <1>4 DEF ByArmID
    <2>2. PICK m \in DOMAIN Catalog : \E p : c.arm = MakeArmID(m, p)
            /\ c.roster = Catalog[m].roster
      BY CandidateFields
    <2>3. PICK p : c.arm = MakeArmID(m, p)
      BY <2>2
    <2>4. CASE Enumerate
      <3>1. <<m, p>> = <<a.base>>
        BY <2>1, <2>3, <2>4 DEF MakeArmID
      <3>2. Len(<<m, p>>) = 2 /\ Len(<<a.base>>) = 1
        OBVIOUS
      <3> QED BY <3>1, <3>2
    <2>5. CASE ~Enumerate
      <3>1. <<Catalog[m].roster>> = <<a.base>>
        BY <2>1, <2>3, <2>5 DEF MakeArmID
      <3> QED BY <2>2, <3>1
    <2> QED BY <2>4, <2>5
  <1> QED BY <1>3, <1>4

\* A preview's answer arrives and is checked.
LEMMA PreviewKeeps ==
  ASSUME PolicyInv, NEW res \in PreviewAnswers, Preview(res)
  PROVE  PolicyInv'
  <1>0. "preview" \in Callers
    BY DEF Callers
  <1>1. call["preview"].pc = "attempt" /\ CallOK("preview", call["preview"])
        /\ call["preview"] \in CallRecord
        /\ call \in [Callers -> CallRecord] /\ UNCHANGED <<conf, req, caps, turn, post>>
    BY <1>0, CallsOK DEF Preview
  <1>2. PICK out : out = IF PreviewAccepted(res, Cands("preview"), SchemaVersion(conf.selects))
                         THEN [ok |-> TRUE, arms |-> res.arms] ELSE Fail("unavailable")
    OBVIOUS
  <1>3. PICK q : q = [call["preview"] EXCEPT !.pc = "done", !.out = out]
    OBVIOUS
  <1>4. Finish("preview", out)
    BY <1>2 DEF Preview
  <1>5. call' = [call EXCEPT !["preview"] = q]
    BY <1>0, <1>1, <1>3, <1>4 DEF Finish
  <1>6. req \in Requests
    BY DEF PolicyInv, InputInv
  <1>7. out \in Outs /\ OutOK("preview", out)
    <2>1. CASE PreviewAccepted(res, Cands("preview"), SchemaVersion(conf.selects))
      <3>1. out = [ok |-> TRUE, arms |-> res.arms]
        BY <1>2, <2>1
      <3>2. Listed(req, out)
        BY <1>6, <2>1, <3>1, PreviewListed DEF Cands, RoutedReq, Routed
      <3>3. out \in Outs
        BY <3>1 DEF Outs
      <3>4. out.ok = TRUE
        BY <3>1
      <3> QED BY <3>2, <3>3, <3>4 DEF OutOK
    <2>2. CASE ~PreviewAccepted(res, Cands("preview"), SchemaVersion(conf.selects))
      <3>1. out = [ok |-> FALSE, why |-> "unavailable", deadline |-> FALSE]
        BY <1>2, <2>2 DEF Fail
      <3> QED BY <3>1 DEF Outs, OutOK
    <2> QED BY <2>1, <2>2
  <1>8. CallOK("preview", q)
    BY <1>0, <1>1, <1>3, <1>7, ResultOK
  <1> QED BY <1>0, <1>1, <1>5, <1>8, CallStep


-----------------------------------------------------------------------------
(* Steps of the turn.                                                       *)

\* Calls that are left alone stay well formed.
LEMMA CallsSame ==
  ASSUME PolicyInv, UNCHANGED <<conf, req, call>>, turn'.tier = turn.tier
  PROVE  CallInv'
  <1>1. call \in [Callers -> CallRecord] /\ \A c \in Callers : CallOK(c, call[c])
    BY DEF PolicyInv, CallInv
  <1>2. call' = call
    OBVIOUS
  <1>3. call' \in [Callers -> CallRecord] /\ \A c \in Callers : CallOK(c, call'[c])
    BY <1>1, <1>2
  <1> QED BY <1>3, RoutedSame, CallsKept

\* A turn that is left alone stays consistent with its serving call.
LEMMA TurnSame ==
  ASSUME TurnInv, UNCHANGED <<conf, req, turn>>, call'["serving"] = call["serving"]
  PROVE  TurnInv'
  <1>1. Degraded' = Degraded /\ Pinned' = Pinned
    BY Fixed
  <1>2. Served' = Served
    BY <1>1, RoutedSame DEF Served, Sibling
  <1> QED BY <1>1, <1>2 DEF TurnInv

\* A call that starts.
LEMMA StartOK ==
  ASSUME NEW p \in Callers, NEW c, CallOK(p, c), p = "serving" => c.pc = "idle",
         NEW q, q = [c EXCEPT !.pc = "start"]
  PROVE  CallOK(p, q)
  <1>1. c \in CallRecord
    BY DEF CallOK
  <1>2. q \in CallRecord /\ q.out = c.out /\ q.query = c.query /\ q.expired = c.expired
        /\ q.last = c.last
    BY <1>1 DEF CallRecord
  <1>3. p = "serving" => DeadlineOK(q)
    BY <1>2 DEF CallOK, DeadlineOK
  <1> QED BY <1>2, <1>3 DEF CallOK

\* A turn starts its serving call.
LEMMA StartTurnKeeps ==
  ASSUME PolicyInv, StartTurn
  PROVE  PolicyInv'
  <1>0. "serving" \in Callers
    BY DEF Callers
  <1>1. InputInv /\ CallInv /\ TurnInv /\ PostInv
    BY DEF PolicyInv
  <1>2. turn.pc = "begin" /\ UNCHANGED <<conf, req, caps, post>>
        /\ turn' = [turn EXCEPT !.pc = "routing", !.authoritative = caps.authoritative,
                                !.tier = TierApplies]
        /\ call' = [call EXCEPT !["serving"].pc = "start"]
    BY DEF StartTurn
  <1>3. call["serving"].pc = "idle" /\ turn.how = None /\ turn.decision = Nobody /\ ~turn.rescued
        /\ turn \in TurnRecord
    BY <1>1, <1>2 DEF TurnInv
  <1>4. PICK q : q = [call["serving"] EXCEPT !.pc = "start"]
    OBVIOUS
  <1>5. call' = [call EXCEPT !["serving"] = q]
    BY <1>2, <1>4
  <1>6. call \in [Callers -> CallRecord] /\ \A c \in Callers : CallOK(c, call[c])
    BY <1>1 DEF CallInv
  <1>7. CallOK("serving", q)
    BY <1>0, <1>3, <1>4, <1>6, StartOK
  <1>8. q \in CallRecord
    BY <1>7 DEF CallOK
  <1>9. CallInv'
    <2>1. call' \in [Callers -> CallRecord]
      BY <1>5, <1>6, <1>8
    <2>2. \A c \in Callers : call'[c] = IF c = "serving" THEN q ELSE call[c]
      BY <1>5, <1>6
    <2>3. \A c \in Callers : CallOK(c, call'[c])
      BY <1>6, <1>7, <2>2
    <2>4. ~call'["serving"].out.ok
      BY <1>0, <1>3, <1>4, <1>6, <1>8, <2>2 DEF CallOK, DeadlineOK, CallRecord
    <2>5. \A c \in Callers : RoutedReq(c)' = RoutedReq(c) \/ ~call'[c].out.ok
      BY <1>2, <2>4 DEF RoutedReq
    <2> QED BY <1>2, <2>1, <2>3, <2>5, CallsKept
  <1>10. caps.authoritative \in BOOLEAN /\ TierApplies \in BOOLEAN
    BY <1>1, InputTypes DEF TierApplies
  <1> HIDE DEF Decision
  <1>11. turn' \in TurnRecord /\ turn'.pc = "routing" /\ turn'.how = None
         /\ turn'.decision = Nobody /\ ~turn'.rescued
    BY <1>2, <1>3, <1>10 DEF TurnRecord
  <1>12. TurnInv'
    BY <1>11 DEF TurnInv, TurnRecord, Decision, Named, Over, Nobody
  <1>13. PostInv'
    BY <1>1, <1>2 DEF PostInv, NoPost
  <1>14. InputInv'
    BY <1>1, <1>2 DEF InputInv
  <1> QED BY <1>9, <1>12, <1>13, <1>14 DEF PolicyInv

\* Serving: the turn records why, and its shadow decision may start.
LEMMA ServeKeeps ==
  ASSUME PolicyInv, turn.pc = "routing", call["serving"].pc = "done",
         NEW d \in Decision, NEW how \in {"policy", "stay", "degraded"}, Serve(d, how),
         \/ how = "policy" /\ call["serving"].out.ok /\ d = OfPolicy(call["serving"].out)
         \/ how = "stay" /\ call["serving"].out.ok /\ d = Pinned
         \/ /\ how = "degraded" /\ d = Degraded /\ Degraded.model # None
            /\ call["serving"].expired \/ call["serving"].last = "deadline"
  PROVE  PolicyInv'
  <1>0. "serving" \in Callers /\ "shadow" \in Callers
    BY DEF Callers
  <1>1. InputInv /\ CallInv /\ TurnInv /\ PostInv
    BY DEF PolicyInv
  <1>2. UNCHANGED <<conf, req, caps, post>>
        /\ turn' = [turn EXCEPT !.pc = "served", !.decision = d, !.how = how]
        /\ call' = IF conf.shadow THEN [call EXCEPT !["shadow"].pc = "start"] ELSE call
    BY DEF Serve
  <1>3. call \in [Callers -> CallRecord] /\ \A c \in Callers : CallOK(c, call[c])
    BY <1>1 DEF CallInv
  <1>4. PICK q : q = IF conf.shadow THEN [call["shadow"] EXCEPT !.pc = "start"] ELSE call["shadow"]
    OBVIOUS
  <1>5. call' = [call EXCEPT !["shadow"] = q]
    <2>1. CASE conf.shadow
      BY <1>2, <1>4, <2>1
    <2>2. CASE ~conf.shadow
      BY <1>0, <1>2, <1>3, <1>4, <2>2
    <2> QED BY <2>1, <2>2
  <1>6. CallOK("shadow", q)
    <2>1. CASE conf.shadow
      <3>1. q = [call["shadow"] EXCEPT !.pc = "start"]
        BY <1>4, <2>1
      <3> QED BY <1>0, <1>3, <3>1, StartOK
    <2>2. CASE ~conf.shadow
      BY <1>0, <1>3, <1>4, <2>2
    <2> QED BY <2>1, <2>2
  <1>7. q \in CallRecord
    BY <1>6 DEF CallOK
  <1>8. \A c \in Callers : call'[c] = IF c = "shadow" THEN q ELSE call[c]
    BY <1>3, <1>5
  <1>9. CallInv'
    <2>1. call' \in [Callers -> CallRecord]
      BY <1>3, <1>5, <1>7
    <2>2. \A c \in Callers : CallOK(c, call'[c])
      BY <1>3, <1>6, <1>8
    <2>3. turn'.tier = turn.tier
      BY <1>1, <1>2 DEF TurnInv, TurnRecord
    <2> QED BY <1>2, <2>1, <2>2, <2>3, RoutedSame, CallsKept
  <1>10. call'["serving"] = call["serving"]
    BY <1>0, <1>8
  <1>11. Degraded' = Degraded /\ Pinned' = Pinned
    BY <1>2, Fixed
  <1>12. turn \in TurnRecord /\ ~turn.rescued
    BY <1>1 DEF TurnInv
  <1> HIDE DEF Decision
  <1>13. turn' \in TurnRecord /\ turn'.pc = "served" /\ turn'.how = how
         /\ turn'.decision = d /\ ~turn'.rescued
    BY <1>2, <1>12 DEF TurnRecord
  <1>14. Served'
    BY <1>10, <1>11, <1>13 DEF Served, OfPolicy
  <1>15. TurnInv'
    <2>1. Decision' = Decision /\ TurnRecord' = TurnRecord
      BY DEF TurnRecord, Decision, Named, Over
    <2> QED BY <1>10, <1>13, <1>14, <2>1 DEF TurnInv
  <1>16. PostInv'
    BY <1>1, <1>2 DEF PostInv, NoPost
  <1>17. InputInv'
    BY <1>1, <1>2 DEF InputInv
  <1> QED BY <1>9, <1>15, <1>16, <1>17 DEF PolicyInv

\* What the policy chose, the pin and the default are decisions.
LEMMA OfPolicyTyped ==
  ASSUME NEW r \in Routed, NEW out, Chosen(r, out)
  PROVE  OfPolicy(out) \in Decision
  <1>1. PICK b \in Range(Resolve(r)) :
          /\ out.model = b.model /\ out.provider = b.provider
          /\ out.marker # None => out.marker = b.model
    BY DEF Chosen
  <1>2. PICK m \in DOMAIN Catalog : \E p \in Range(Catalog[m].bindings) :
          b.model = m /\ b.provider = p
    BY CandidateFields
  <1>3. PICK p \in Range(Catalog[m].bindings) : b.model = m /\ b.provider = p
    BY <1>2
  <1>4. Catalog[m].bindings \in Seq(STRING)
    BY ResolverAssumption
  <1>5. p \in STRING
    BY <1>4, RangeOf
  <1> QED BY <1>1, <1>3, <1>5 DEF OfPolicy, Decision, Named, Over

\* The pin as a decision.
LEMMA PinnedTyped ==
  ASSUME InputInv, conf.pin # None
  PROVE  Pinned \in Decision /\ Pinned.meta = FALSE
  <1>1. conf.pin \in DOMAIN Catalog
    BY InputTypes DEF Named
  <1>2. PICK o : o = Catalog[conf.pin].bindings[1]
    OBVIOUS
  <1>3. o \in Over
    BY <1>1, <1>2 DEF Over
  <1>4. PICK n : n = conf.pin
    OBVIOUS
  <1>5. Pinned = [Nobody EXCEPT !.model = n, !.provider = o]
    BY <1>2, <1>4 DEF Pinned
  <1>6. Pinned = [model |-> n, provider |-> o, marker |-> None, meta |-> FALSE]
    BY <1>5 DEF Nobody
  <1> HIDE DEF Over
  <1> QED BY <1>1, <1>3, <1>4, <1>6 DEF Decision, Named

\* The degraded decision; without a pin the request permits it.
LEMMA DegradedTyped ==
  ASSUME InputInv
  PROVE  /\ Degraded \in Decision /\ Degraded.meta = FALSE
         /\ conf.pin = None /\ Degraded.model # None =>
              Degraded.model \notin req.excluded \cup req.safety /\ Degraded.provider \in ProviderSet(req)
  <1>1. CASE conf.pin # None
    BY <1>1, PinnedTyped DEF Degraded
  <1>2. CASE conf.pin = None
    <2>1. Degraded = policyDeadlineDefaultDecision
      BY <1>2 DEF Degraded
    <2>2. PICK provs : provs = ProviderSet(req) \cap Available
      OBVIOUS
    <2>3. PICK bound : bound = IF conf.default = None THEN <<>>
                               ELSE EnumerateBindings(conf.default, provs)
      OBVIOUS
    <2>4. CASE conf.default = None \/ conf.default \in req.excluded \cup req.safety \/ bound = <<>>
      <3>1. Degraded = Nobody
        BY <2>1, <2>2, <2>3, <2>4 DEF policyDeadlineDefaultDecision
      <3> QED BY <3>1 DEF Nobody, Decision, Named, Over
    <2>5. CASE ~(conf.default = None \/ conf.default \in req.excluded \cup req.safety \/ bound = <<>>)
      <3>1. conf.default \in DOMAIN Catalog
        BY <2>5, InputTypes DEF Named
      <3>2. bound = EnumerateBindings(conf.default, provs)
        BY <2>3, <2>5
      <3>3. bound \in Seq(STRING) /\ Range(bound) = Range(Catalog[conf.default].bindings) \cap provs
        BY <3>1, <3>2, BindingsSound
      <3>4. bound[1] \in Range(bound) /\ Range(bound) \subseteq STRING
        BY <2>5, <3>3, RangeOf
      <3>5. PICK o : o = bound[1]
        OBVIOUS
      <3>6. o \in STRING /\ o \in ProviderSet(req)
        BY <2>2, <3>3, <3>4, <3>5
      <3>7. Degraded = [model |-> conf.default, provider |-> o, marker |-> None, meta |-> FALSE]
        BY <2>1, <2>2, <2>3, <2>5, <3>5 DEF policyDeadlineDefaultDecision, Nobody
      <3> QED BY <2>5, <3>1, <3>6, <3>7 DEF Decision, Named, Over
    <2> QED BY <2>4, <2>5
  <1> QED BY <1>1, <1>2

\* A successful serving call holds a choice that was checked.
LEMMA ServingChoice ==
  ASSUME PolicyInv, call["serving"].out.ok
  PROVE  /\ Chosen(RoutedReq("serving"), call["serving"].out)
         /\ RoutedReq("serving") \in Routed
  <1>0. "serving" \in Callers /\ "serving" # "preview"
    BY DEF Callers
  <1>1. CallOK("serving", call["serving"])
    BY <1>0, CallsOK
  <1>2. OutOK("serving", call["serving"].out)
    BY <1>1 DEF CallOK
  <1>3. RoutedReq("serving") \in Routed
    BY RoutedReqIs DEF PolicyInv
  <1> QED BY <1>0, <1>2, <1>3 DEF OutOK

\* The turn follows the policy's choice.
LEMMA FollowPolicyKeeps ==
  ASSUME PolicyInv, FollowPolicy
  PROVE  PolicyInv'
  <1>1. turn.pc = "routing" /\ call["serving"].pc = "done" /\ call["serving"].out.ok
        /\ Serve(OfPolicy(call["serving"].out), "policy")
    BY DEF FollowPolicy
  <1>2. OfPolicy(call["serving"].out) \in Decision
    BY <1>1, ServingChoice, OfPolicyTyped
  <1>3. PICK d : d = OfPolicy(call["serving"].out)
    OBVIOUS
  <1> QED BY <1>1, <1>2, <1>3, ServeKeeps

\* The turn stays on its pin.
LEMMA StayOnPinKeeps ==
  ASSUME PolicyInv, StayOnPin
  PROVE  PolicyInv'
  <1>1. turn.pc = "routing" /\ call["serving"].pc = "done" /\ call["serving"].out.ok
        /\ conf.pin # None /\ Serve(Pinned, "stay")
    BY DEF StayOnPin
  <1>2. Pinned \in Decision
    BY <1>1, PinnedTyped DEF PolicyInv
  <1> QED BY <1>1, <1>2, ServeKeeps

\* The turn falls back after a missed deadline.
LEMMA DegradeKeeps ==
  ASSUME PolicyInv, Degrade
  PROVE  PolicyInv'
  <1>1. turn.pc = "routing" /\ call["serving"].pc = "done" /\ Degraded.model # None
        /\ ~call["serving"].out.ok /\ call["serving"].out.deadline /\ Serve(Degraded, "degraded")
    BY DEF Degrade, isPolicyDeadlineErr
  <1>2. Degraded \in Decision
    BY DegradedTyped DEF PolicyInv
  <1>3. DeadlineOK(call["serving"])
    BY CallsOK DEF CallOK, Callers
  <1>4. call["serving"].expired \/ call["serving"].last = "deadline"
    BY <1>1, <1>3 DEF DeadlineOK
  <1> QED BY <1>1, <1>2, <1>4, ServeKeeps

\* The turn fails.
LEMMA TurnFailsKeeps ==
  ASSUME PolicyInv, TurnFails
  PROVE  PolicyInv'
  <1>1. InputInv /\ CallInv /\ TurnInv /\ PostInv
    BY DEF PolicyInv
  <1>2. turn.pc = "routing" /\ call["serving"].pc = "done" /\ ~call["serving"].out.ok
        /\ ~(/\ conf.degrade /\ conf.store /\ ~turn.tier
             /\ conf.hmm /\ call["serving"].out.deadline /\ Degraded.model # None)
        /\ (turn.tier => turn.authoritative)
        /\ turn' = [turn EXCEPT !.pc = "failed"] /\ UNCHANGED <<conf, req, caps, call, post>>
    BY DEF TurnFails, isPolicyDeadlineErr, CanDegrade
  <1>3. DeadlineOK(call["serving"])
    BY CallsOK DEF CallOK, Callers
  <1>4. call["serving"].expired /\ conf.hmm /\ conf.degrade =>
          Degraded.model = None \/ ~conf.store \/ (turn.tier /\ turn.authoritative)
    BY <1>2, <1>3 DEF DeadlineOK
  <1>5. turn \in TurnRecord /\ turn.how = None /\ turn.decision = Nobody /\ ~turn.rescued
    BY <1>1, <1>2 DEF TurnInv
  <1>6. Degraded' = Degraded
    BY <1>2, Fixed
  <1> HIDE DEF Decision
  <1>8. turn' \in TurnRecord /\ turn'.pc = "failed" /\ turn'.how = None
        /\ turn'.decision = Nobody /\ ~turn'.rescued /\ turn'.tier = turn.tier
        /\ turn'.authoritative = turn.authoritative
    BY <1>2, <1>5 DEF TurnRecord
  <1>7. CallInv'
    BY <1>2, <1>8, CallsSame
  <1>9. TurnRecord' = TurnRecord /\ Nobody' = Nobody
    BY DEF TurnRecord, Decision, Named, Over, Nobody
  <1>10. TurnInv'
    BY <1>2, <1>4, <1>6, <1>8, <1>9 DEF TurnInv
  <1>11. PostInv'
    BY <1>1, <1>2 DEF PostInv, NoPost
  <1>12. InputInv'
    BY <1>1, <1>2 DEF InputInv
  <1> QED BY <1>7, <1>10, <1>11, <1>12 DEF PolicyInv

\* The turn is routed again, without the tier.
LEMMA RouteUnconstrainedKeeps ==
  ASSUME PolicyInv, RouteUnconstrained
  PROVE  PolicyInv'
  <1>0. "serving" \in Callers
    BY DEF Callers
  <1>1. InputInv /\ CallInv /\ TurnInv /\ PostInv
    BY DEF PolicyInv
  <1>2. PICK q : q = [Idle EXCEPT !.pc = "start"]
    OBVIOUS
  <1>3. turn.pc = "routing" /\ turn' = [turn EXCEPT !.tier = FALSE]
        /\ call' = [call EXCEPT !["serving"] = q] /\ UNCHANGED <<conf, req, caps, post>>
    BY <1>2 DEF RouteUnconstrained
  <1>4. CallOK("serving", q)
    BY <1>0, <1>2, IdleOK
  <1>5. q \in CallRecord /\ ~q.out.ok
    BY <1>2, <1>4 DEF CallOK, DeadlineOK, Idle
  <1>6. call \in [Callers -> CallRecord] /\ \A c \in Callers : CallOK(c, call[c])
    BY <1>1 DEF CallInv
  <1>7. \A c \in Callers : call'[c] = IF c = "serving" THEN q ELSE call[c]
    BY <1>3, <1>6
  <1>8. CallInv'
    <2>1. call' \in [Callers -> CallRecord]
      BY <1>3, <1>5, <1>6
    <2>2. \A c \in Callers : CallOK(c, call'[c])
      BY <1>4, <1>6, <1>7
    <2>3. ~call'["serving"].out.ok
      BY <1>0, <1>5, <1>7
    <2>4. \A c \in Callers : RoutedReq(c)' = RoutedReq(c) \/ ~call'[c].out.ok
      BY <1>3, <2>3 DEF RoutedReq
    <2> QED BY <1>3, <2>1, <2>2, <2>4, CallsKept
  <1>9. turn \in TurnRecord /\ turn.how = None /\ turn.decision = Nobody /\ ~turn.rescued
    BY <1>1, <1>3 DEF TurnInv
  <1> HIDE DEF Decision
  <1>10. turn' \in TurnRecord /\ turn'.pc = "routing" /\ turn'.how = None
         /\ turn'.decision = Nobody /\ ~turn'.rescued
    BY <1>3, <1>9 DEF TurnRecord
  <1>11. TurnRecord' = TurnRecord /\ Nobody' = Nobody
    BY DEF TurnRecord, Decision, Named, Over, Nobody
  <1>12. TurnInv'
    BY <1>10, <1>11 DEF TurnInv
  <1>13. PostInv'
    BY <1>1, <1>3 DEF PostInv, NoPost
  <1>14. InputInv'
    BY <1>1, <1>3 DEF InputInv
  <1> QED BY <1>8, <1>12, <1>13, <1>14 DEF PolicyInv

\* A decision with the policy's metadata comes from the policy.
LEMMA MetaIsPolicy ==
  ASSUME PolicyInv, turn.decision.meta
  PROVE  /\ turn.pc \in {"served", "reported"} /\ turn.how = "policy" /\ call["serving"].out.ok
         /\ turn.rescued => Sibling(turn.decision)
         /\ ~turn.rescued => turn.decision = OfPolicy(call["serving"].out)
  <1>1. InputInv /\ TurnInv
    BY DEF PolicyInv
  <1>2. turn.pc \in {"served", "reported"}
    BY <1>1 DEF TurnInv, Nobody
  <1>3. Served
    BY <1>1, <1>2 DEF TurnInv
  <1>4. Degraded.meta = FALSE
    BY <1>1, DegradedTyped
  <1>5. turn.decision = Pinned => ~turn.decision.meta
    BY DEF Pinned, Nobody
  <1> QED BY <1>2, <1>3, <1>4, <1>5 DEF Served

\* A peer serves in place of the decision.
LEMMA SiblingRescueKeeps ==
  ASSUME PolicyInv, NEW m \in DOMAIN Catalog, SiblingRescue(m)
  PROVE  PolicyInv'
  <1>1. InputInv /\ CallInv /\ TurnInv /\ PostInv
    BY DEF PolicyInv
  <1>2. turn.pc = "served" /\ turn.decision.meta /\ m \in siblingCandidates(turn.decision)
        /\ siblingProvider(m) # <<>> /\ UNCHANGED <<conf, req, caps, call, post>>
    BY DEF SiblingRescue
  <1>3. PICK c : c = Keep(Cands("serving"), {b \in Range(Cands("serving")) : b.model = m})[1]
    OBVIOUS
  <1>4. m \notin req.auto /\ \E b \in Range(Cands("serving")) : b.model = m
    BY <1>2 DEF siblingCandidates
  <1>5. c \in Range(Resolve(RoutedReq("serving"))) /\ c.model = m
    <2>1. PICK r : r = Resolve(RoutedReq("serving"))
      OBVIOUS
    <2>2. PICK own : own = {b \in Range(r) : b.model = m}
      OBVIOUS
    <2>3. r \in Seq(AllCandidates) /\ (\E k \in 1 .. Len(r) : r[k] \in own)
      <3>1. r \in Seq(AllCandidates)
        BY <1>1, <2>1, RoutedReqIs, ResolveSound
      <3>2. Range(r) = {r[k] : k \in 1 .. Len(r)}
        BY <3>1, RangeOf
      <3> QED BY <1>4, <2>1, <2>2, <3>1, <3>2 DEF Cands
    <2>4. PICK ks : ks = Keep(r, own)
      OBVIOUS
    <2>5. ks \in Seq(AllCandidates) /\ Len(ks) \in Nat
          /\ (\A j \in 1 .. Len(ks) : ks[j] \in own) /\ (\E j \in 1 .. Len(ks) : TRUE)
      BY <2>3, <2>4, KeepMembers
    <2>6. ks[1] \in own
      BY <2>5
    <2> QED BY <1>3, <2>1, <2>2, <2>4, <2>6 DEF Cands
  <1>6. PICK o : o = siblingProvider(m)[1]
    OBVIOUS
  <1>7. turn' = [turn EXCEPT !.rescued = TRUE, !.decision.marker = None, !.decision.model = m,
                             !.decision.provider = o]
    BY <1>6 DEF SiblingRescue
  <1>8. RoutedReq("serving") \in Routed
    BY <1>1, RoutedReqIs
  <1>9. o \in STRING /\ o \in conf.keyed \cap Range(Catalog[m].bindings)
    <2>1. siblingProvider(m) = IF c.provider \in conf.keyed THEN <<c.provider>>
                               ELSE EnumerateBindings(m, conf.keyed)
      BY <1>3 DEF siblingProvider, CandidateProviders
    <2>2. Catalog[m].bindings \in Seq(STRING)
      BY ResolverAssumption
    <2>3. o \in conf.keyed \cap Range(Catalog[m].bindings)
      <3>1. CASE c.provider \in conf.keyed
        <4>1. o = c.provider
          BY <1>6, <2>1, <3>1
        <4>2. c.provider \in Range(Catalog[m].bindings)
          BY <1>5, <1>8, CandidateFields
        <4> QED BY <3>1, <4>1, <4>2
      <3>2. CASE c.provider \notin conf.keyed
        <4>1. PICK e : e = EnumerateBindings(m, conf.keyed)
          OBVIOUS
        <4>2. e \in Seq(STRING) /\ Range(e) = Range(Catalog[m].bindings) \cap conf.keyed
          BY <4>1, BindingsSound
        <4>3. siblingProvider(m) = e /\ e # <<>> /\ o = e[1]
          BY <1>2, <1>6, <2>1, <3>2, <4>1
        <4>4. e[1] \in Range(e)
          BY <4>2, <4>3, RangeOf
        <4> QED BY <4>2, <4>3, <4>4
      <3> QED BY <3>1, <3>2
    <2> QED BY <2>2, <2>3, RangeOf
  <1>10. PICK d : d = [turn.decision EXCEPT !.marker = None, !.model = m, !.provider = o]
    OBVIOUS
  <1>11. turn \in TurnRecord /\ turn.decision \in Decision
    BY <1>1 DEF TurnInv, TurnRecord
  <1>12. turn' = [turn EXCEPT !.rescued = TRUE, !.decision = d]
    BY <1>7, <1>10, <1>11 DEF TurnRecord
  <1>13. d \in Decision /\ d.model = m /\ d.provider = o /\ d.marker = None /\ d.meta
    BY <1>2, <1>9, <1>10, <1>11 DEF Decision, Named, Over
  <1> HIDE DEF Decision
  <1>14. turn' \in TurnRecord /\ turn'.pc = "served" /\ turn'.how = turn.how
         /\ turn'.decision = d /\ turn'.rescued /\ turn'.tier = turn.tier
    BY <1>2, <1>11, <1>12, <1>13 DEF TurnRecord
  <1>15. turn.how = "policy" /\ call["serving"].out.ok
    BY <1>2, MetaIsPolicy
  <1>16. Sibling(d)
    BY <1>4, <1>5, <1>9, <1>13 DEF Sibling
  <1>17. Sibling(turn.decision)'
    BY <1>2, <1>14, <1>16, RoutedSame DEF Sibling
  <1>18. Served'
    BY <1>2, <1>14, <1>15, <1>17 DEF Served
  <1>19. TurnRecord' = TurnRecord
    BY DEF TurnRecord, Decision, Named, Over
  <1>20. TurnInv'
    BY <1>1, <1>2, <1>14, <1>18, <1>19 DEF TurnInv
  <1>21. CallInv'
    BY <1>2, <1>14, CallsSame
  <1>22. PostInv'
    BY <1>1, <1>2 DEF PostInv, NoPost
  <1>23. InputInv'
    BY <1>1, <1>2 DEF InputInv
  <1> QED BY <1>20, <1>21, <1>22, <1>23 DEF PolicyInv

\* The report of a turn that credits a route.
LEMMA ReportBuilt ==
  ASSUME PolicyInv, turn.pc = "served", policyOutcomeRoute # <<>>,
         NEW sel, sel = policyOutcomeRoute[1].model,
         NEW train, train = outcomeTrains(policyOutcomeRoute[1])
  PROVE  /\ turn.how \in {"policy", "stay"} /\ call["serving"].out.ok
         /\ sel \in Named /\ train \in BOOLEAN /\ (train => req.train)
         /\ sel \in {c.model : c \in Range(Cands("serving"))}
         /\ ~turn.rescued => sel = call["serving"].out.model
         /\ (train /\ call["serving"].authoritative /\ ~turn.rescued)
              => turn.decision.model = call["serving"].out.model
  <1>1. InputInv /\ TurnInv
    BY DEF PolicyInv
  <1>2. req.train \in BOOLEAN
    BY <1>1, InputTypes
  <1>3. turn.decision \in Decision
    BY <1>1 DEF TurnInv, TurnRecord
  <1>4. turn.decision.model \in Named /\ turn.decision.meta \in BOOLEAN
    BY <1>3 DEF Decision
  <1>5. PICK route : route = policyOutcomeRoute[1]
    OBVIOUS
  <1>6. sel = route.model /\ train = (req.train /\ ~(call["serving"].authoritative
                                                     /\ route.model # turn.decision.model))
    BY <1>5 DEF outcomeTrains
  <1>7. CASE turn.decision.meta
    <2>1. turn.how = "policy" /\ call["serving"].out.ok
          /\ (~turn.rescued => turn.decision = OfPolicy(call["serving"].out))
          /\ (turn.rescued => Sibling(turn.decision))
      BY <1>7, MetaIsPolicy
    <2>2. route = turn.decision
      BY <1>5, <1>7 DEF policyOutcomeRoute
    <2>3. ~turn.rescued => turn.decision.model = call["serving"].out.model
      BY <2>1 DEF OfPolicy
    <2>4. turn.decision.model \in {c.model : c \in Range(Cands("serving"))}
      <3>1. CASE turn.rescued
        BY <2>1, <3>1 DEF Sibling, Cands
      <3>2. CASE ~turn.rescued
        BY <2>1, <2>3, <3>2, ServingChoice DEF Chosen, Cands
      <3> QED BY <3>1, <3>2
    <2> QED BY <1>2, <1>4, <1>6, <2>1, <2>2, <2>3, <2>4
  <1>8. CASE ~turn.decision.meta
    <2>1. turn.how = "stay"
      BY <1>8 DEF policyOutcomeRoute
    <2>2. route = OfPolicy(call["serving"].out)
      BY <1>5, <1>8, <2>1 DEF policyOutcomeRoute
    <2>3. Served
      BY <1>1 DEF TurnInv
    <2>4. call["serving"].out.ok
      BY <2>1, <2>3 DEF Served
    <2>5. OfPolicy(call["serving"].out) \in Decision
      BY <2>4, ServingChoice, OfPolicyTyped
    <2>6. route.model \in Named /\ route.model = call["serving"].out.model
      BY <2>2, <2>5 DEF Decision, OfPolicy
    <2>7. route.model \in {c.model : c \in Range(Cands("serving"))}
      BY <2>4, <2>6, ServingChoice DEF Chosen, Cands
    <2> QED BY <1>2, <1>6, <2>1, <2>4, <2>6, <2>7
  <1> QED BY <1>4, <1>7, <1>8

\* What the report says of the turn is true.
LEMMA reportPolicyOutcomeKeeps ==
  ASSUME PolicyInv, reportPolicyOutcome
  PROVE  PolicyInv'
  <1>1. InputInv /\ CallInv /\ TurnInv /\ PostInv
    BY DEF PolicyInv
  <1>2. turn.pc = "served" /\ turn' = [turn EXCEPT !.pc = "reported"]
        /\ UNCHANGED <<conf, req, caps, call>>
    BY DEF reportPolicyOutcome
  <1>3. turn \in TurnRecord /\ Served
    BY <1>1, <1>2 DEF TurnInv
  <1> HIDE DEF Decision
  <1>4. turn' \in TurnRecord /\ turn'.pc = "reported" /\ turn'.how = turn.how
        /\ turn'.decision = turn.decision /\ turn'.rescued = turn.rescued /\ turn'.tier = turn.tier
    BY <1>2, <1>3 DEF TurnRecord
  <1>5. Degraded' = Degraded /\ Pinned' = Pinned
    BY <1>2, Fixed
  <1>6. Served'
    BY <1>2, <1>3, <1>4, <1>5, RoutedSame DEF Served, Sibling, OfPolicy
  <1>7. TurnRecord' = TurnRecord
    BY DEF TurnRecord, Decision, Named, Over
  <1>8. TurnInv'
    BY <1>1, <1>2, <1>4, <1>6, <1>7 DEF TurnInv
  <1>9. CallInv'
    BY <1>2, <1>4, CallsSame
  <1>10. InputInv'
    BY <1>1, <1>2 DEF InputInv
  <1>11. CASE policyOutcomeRoute = <<>> \/ turn.left
    <2>1. post' = NoPost
      BY <1>11 DEF reportPolicyOutcome
    <2> QED BY <1>8, <1>9, <1>10, <2>1 DEF PolicyInv, PostInv, NoPost
  <1>12. CASE ~(policyOutcomeRoute = <<>> \/ turn.left)
    <2>1. PICK sel : sel = policyOutcomeRoute[1].model
      OBVIOUS
    <2>2. PICK train : train = outcomeTrains(policyOutcomeRoute[1])
      OBVIOUS
    <2>3. /\ turn.how \in {"policy", "stay"} /\ call["serving"].out.ok
          /\ sel \in Named /\ train \in BOOLEAN /\ (train => req.train)
          /\ sel \in {c.model : c \in Range(Cands("serving"))}
          /\ ~turn.rescued => sel = call["serving"].out.model
          /\ (train /\ call["serving"].authoritative /\ ~turn.rescued)
               => turn.decision.model = call["serving"].out.model
      BY <1>2, <1>12, <2>1, <2>2, ReportBuilt
    <2>4. PICK served : served = turn.decision.model
      OBVIOUS
    <2>5. served \in Named
      BY <1>3, <2>4 DEF TurnRecord, Decision
    <2>6. post' = [pc |-> "pending", selected |-> sel, served |-> served, train |-> train]
      BY <1>12, <2>1, <2>2, <2>4 DEF reportPolicyOutcome
    <2>7. post' \in PostRecord /\ post'.selected = sel /\ post'.served = served
          /\ post'.train = train
      BY <2>3, <2>5, <2>6 DEF PostRecord
    <2>8. PostRecord' = PostRecord
      BY DEF PostRecord, Named
    <2>c. Cands("serving")' = Cands("serving")
      BY <1>2, <1>4, RoutedSame DEF Cands
    <2>9. PostInv'
      BY <1>2, <1>4, <2>3, <2>4, <2>7, <2>8, <2>c DEF PostInv
    <2> QED BY <1>8, <1>9, <1>10, <2>9 DEF PolicyInv
  <1> QED BY <1>11, <1>12

\* The report is delivered or lost.
LEMMA ReportOutcomeKeeps ==
  ASSUME PolicyInv, ReportOutcome
  PROVE  PolicyInv'
  <1>1. InputInv /\ CallInv /\ TurnInv /\ PostInv
    BY DEF PolicyInv
  <1>2. post.pc = "pending" /\ UNCHANGED <<conf, req, caps, call, turn>>
    BY DEF ReportOutcome
  <1>3. PICK to \in {"lost", "delivered"} : post' = [post EXCEPT !.pc = to]
    BY DEF ReportOutcome
  <1>4. post # NoPost
    BY <1>2 DEF NoPost
  <1>5. post \in PostRecord
    BY <1>1, <1>4 DEF PostInv
  <1>6. post' \in PostRecord /\ post'.selected = post.selected /\ post'.served = post.served
        /\ post'.train = post.train
    BY <1>3, <1>5 DEF PostRecord
  <1>7. PostRecord' = PostRecord
    BY DEF PostRecord, Named
  <1>8. PostInv'
    BY <1>1, <1>2, <1>4, <1>6, <1>7, RoutedSame DEF PostInv, Cands
  <1>9. TurnInv'
    BY <1>1, <1>2, TurnSame
  <1>10. CallInv'
    BY <1>2, CallsSame
  <1>11. InputInv'
    BY <1>1, <1>2 DEF InputInv
  <1> QED BY <1>8, <1>9, <1>10, <1>11 DEF PolicyInv

\* The capabilities are fetched again.
LEMMA RefreshKeeps ==
  ASSUME PolicyInv, RefreshCapabilities
  PROVE  PolicyInv'
  <1>1. InputInv /\ CallInv /\ TurnInv /\ PostInv
    BY DEF PolicyInv
  <1>2. caps' = conf.caps /\ UNCHANGED <<conf, req, call, turn, post>>
    BY DEF RefreshCapabilities
  <1>3. conf.caps \in Capabilities
    BY <1>1, InputTypes
  <1>4. InputInv'
    BY <1>1, <1>2, <1>3 DEF InputInv
  <1>5. TurnInv'
    BY <1>1, <1>2, TurnSame
  <1>6. CallInv'
    BY <1>2, CallsSame
  <1>7. PostInv'
    BY <1>1, <1>2, RoutedSame DEF PostInv, NoPost, PostRecord, Named, Cands
  <1> QED BY <1>4, <1>5, <1>6, <1>7 DEF PolicyInv

\* A step that changes nothing.
LEMMA StutterKeeps ==
  ASSUME PolicyInv, UNCHANGED vars
  PROVE  PolicyInv'
  <1>1. InputInv /\ CallInv /\ TurnInv /\ PostInv
    BY DEF PolicyInv
  <1>2. UNCHANGED <<conf, req, caps, call, turn, post>>
    BY DEF vars
  <1>3. InputInv'
    BY <1>1, <1>2 DEF InputInv
  <1>4. TurnInv'
    BY <1>1, <1>2, TurnSame
  <1>5. CallInv'
    BY <1>2, CallsSame
  <1>6. PostInv'
    BY <1>1, <1>2, RoutedSame DEF PostInv, NoPost, PostRecord, Named, Cands
  <1> QED BY <1>3, <1>4, <1>5, <1>6 DEF PolicyInv

\* The client leaves.
LEMMA ClientLeavesKeeps ==
  ASSUME PolicyInv, ClientLeaves
  PROVE  PolicyInv'
  <1>0. "serving" \in Callers
    BY DEF Callers
  <1>1. InputInv /\ CallInv /\ TurnInv /\ PostInv
    BY DEF PolicyInv
  <1>2. turn.pc \in {"routing", "served"} /\ turn' = [turn EXCEPT !.left = TRUE]
        /\ UNCHANGED <<conf, req, caps, post>>
    BY DEF ClientLeaves
  <1>3. turn \in TurnRecord
    BY <1>1 DEF TurnInv
  <1> HIDE DEF Decision
  <1>4. turn' \in TurnRecord /\ turn'.pc = turn.pc /\ turn'.how = turn.how
        /\ turn'.decision = turn.decision /\ turn'.rescued = turn.rescued /\ turn'.tier = turn.tier
    BY <1>2, <1>3 DEF TurnRecord
  <1>5. TurnRecord' = TurnRecord
    BY DEF TurnRecord, Decision, Named, Over
  <1>6. InputInv'
    BY <1>1, <1>2 DEF InputInv
  <1>7. PostInv'
    BY <1>1, <1>2 DEF PostInv, NoPost
  <1>8. CASE call["serving"].pc \in {"attempt", "backoff"}
    <2>1. turn.pc = "routing"
      BY <1>1, <1>2, <1>8 DEF TurnInv
    <2>2. PICK f : f = exhaustedPolicyErr(call["serving"], TRUE)
      OBVIOUS
    <2>3. PICK q : q = [call["serving"] EXCEPT !.pc = "done", !.expired = TRUE, !.out = f]
      OBVIOUS
    <2>4. call \in [Callers -> CallRecord] /\ \A c \in Callers : CallOK(c, call[c])
      BY <1>1 DEF CallInv
    <2>5. call' = [call EXCEPT !["serving"].pc = "done", !["serving"].expired = TRUE,
                               !["serving"].out = f]
      BY <1>8, <2>2 DEF ClientLeaves
    <2>6. call' = [call EXCEPT !["serving"] = q]
      BY <1>0, <2>3, <2>4, <2>5
    <2>7. CallOK("serving", q)
      BY <1>0, <2>2, <2>3, <2>4, SpentOK
    <2>8. q \in CallRecord
      BY <2>7 DEF CallOK
    <2>9. \A c \in Callers : call'[c] = IF c = "serving" THEN q ELSE call[c]
      BY <2>4, <2>6
    <2>10. call' \in [Callers -> CallRecord]
      BY <2>4, <2>6, <2>8
    <2>11. \A c \in Callers : CallOK(c, call'[c])
      BY <2>4, <2>7, <2>9
    <2>12. CallInv'
      BY <1>2, <1>4, <2>10, <2>11, RoutedSame, CallsKept
    <2>13. turn.how = None /\ turn.decision = Nobody /\ ~turn.rescued
      BY <1>1, <2>1 DEF TurnInv
    <2>14. TurnInv'
      BY <1>4, <1>5, <2>1, <2>13 DEF TurnInv, Nobody
    <2> QED BY <1>6, <1>7, <2>12, <2>14 DEF PolicyInv
  <1>9. CASE call["serving"].pc \notin {"attempt", "backoff"}
    <2>1. call' = call
      BY <1>9 DEF ClientLeaves
    <2>2. CallInv'
      BY <1>2, <1>4, <2>1, CallsSame
    <2>3. Degraded' = Degraded /\ Pinned' = Pinned
      BY <1>2, Fixed
    <2>4. Served' = Served
      BY <1>2, <1>4, <2>1, <2>3, RoutedSame DEF Served, Sibling, OfPolicy
    <2>5. TurnInv'
      BY <1>1, <1>2, <1>4, <1>5, <2>1, <2>3, <2>4 DEF TurnInv, Nobody
    <2> QED BY <1>6, <1>7, <2>2, <2>5 DEF PolicyInv
  <1> QED BY <1>8, <1>9

-----------------------------------------------------------------------------
(* The theorems.                                                            *)

\* Every step keeps the invariant.
LEMMA NextGood == PolicyInv /\ [Next]_vars => PolicyInv'
  <1> SUFFICES ASSUME PolicyInv, [Next]_vars PROVE PolicyInv'
    OBVIOUS
  <1>1. CASE StartTurn
    BY <1>1, StartTurnKeeps
  <1>2. CASE FollowPolicy
    BY <1>2, FollowPolicyKeeps
  <1>3. CASE StayOnPin
    BY <1>3, StayOnPinKeeps
  <1>4. CASE Degrade
    BY <1>4, DegradeKeeps
  <1>5. CASE TurnFails
    BY <1>5, TurnFailsKeeps
  <1>6. CASE \E m \in DOMAIN Catalog : SiblingRescue(m)
    BY <1>6, SiblingRescueKeeps
  <1>7. CASE reportPolicyOutcome
    BY <1>7, reportPolicyOutcomeKeeps
  <1>8. CASE ReportOutcome
    BY <1>8, ReportOutcomeKeeps
  <1>9. CASE RefreshCapabilities
    BY <1>9, RefreshKeeps
  <1>10. CASE ClientLeaves
    BY <1>10, ClientLeavesKeeps
  <1>11. ASSUME NEW p \in Callers, Begin(p) PROVE PolicyInv'
    BY <1>11, BeginKeeps
  <1>12. ASSUME NEW p \in Callers, Backoff(p) PROVE PolicyInv'
    BY <1>12, BackoffKeeps
  <1>13. ASSUME NEW p \in Callers, BudgetExpires(p) PROVE PolicyInv'
    BY <1>13, BudgetExpiresKeeps
  <1>14. ASSUME NEW p \in Callers, Refused(p) PROVE PolicyInv'
    BY <1>14, RefusedKeeps
  <1>15. ASSUME NEW p \in Callers, NEW how \in {"deadline", "transport", "status"},
                AttemptFails(p, how)
         PROVE  PolicyInv'
    BY <1>15, AttemptFailsKeeps
  <1>16. ASSUME NEW p \in Callers, NEW res \in Answers, Decide(p, res) PROVE PolicyInv'
    BY <1>16, DecideKeeps
  <1>17. CASE \E res \in PreviewAnswers : Preview(res)
    BY <1>17, PreviewKeeps
  <1>18. CASE UNCHANGED vars
    BY <1>18, StutterKeeps
  <1>19. CASE RouteUnconstrained
    BY <1>19, RouteUnconstrainedKeeps
  <1> QED
    BY <1>1, <1>2, <1>3, <1>4, <1>5, <1>6, <1>7, <1>8, <1>9, <1>10, <1>11, <1>12, <1>13,
       <1>14, <1>15, <1>16, <1>17, <1>18, <1>19 DEF Next

(* The inductive invariant of a policy-routed turn holds throughout: every   *)
(* call of the client carries its own query and a result the candidates      *)
(* justify, and the turn is served for a reason its call gives.              *)
THEOREM Inductive == Spec => []PolicyInv
  BY InitGood, NextGood, PTL DEF Spec

(* A turn is degraded only by a real deadline, and a deadline fails a turn   *)
(* that has a pin or a permitted default only if there is no pin store or    *)
(* an authoritative turn was confined to a dropped force's tier, the two     *)
(* early returns of runTurnLoop (isPolicyDeadlineErr, exhaustedPolicyErr),   *)
(* for any number of attempts and any settings.                              *)
THEOREM DeadlineDecides == Spec => []DegradesOnlyOnDeadline
  <1>1. PolicyInv => DegradesOnlyOnDeadline
    <2> SUFFICES ASSUME PolicyInv PROVE DegradesOnlyOnDeadline
      OBVIOUS
    <2>1. TurnInv
      BY DEF PolicyInv
    <2>2. turn.how = "degraded" => turn.pc \in {"served", "reported"}
      BY <2>1 DEF TurnInv, None
    <2>3. turn.how = "degraded" => Served
      BY <2>1, <2>2 DEF TurnInv
    <2> QED BY <2>1, <2>3 DEF TurnInv, Served, DegradesOnlyOnDeadline
  <1> QED BY <1>1, Inductive, PTL

\* What a call sent.
LEMMA QueryTruth ==
  ASSUME InputInv, NEW p \in Callers, NEW q, q = marshalRouteRequest(p)
  PROVE  /\ (q.train \/ q.results \/ q.delta # <<>>) => p = "serving" /\ req.train
         /\ (p # "preview" /\ ~q.truncated) => q.messages = Sendable(req.conv)
  <1>1. PICK messages : messages = convertRouteMessages(req.conv)
    OBVIOUS
  <1>2. PICK cut : cut = (p # "preview" /\ routeMessagesTruncated(req.conv))
    OBVIOUS
  <1>3. PICK d : d = trainingRouteMessageDelta(req.conv)
    OBVIOUS
  <1>t. PICK t : t = trainsOn(p)
    OBVIOUS
  <1>r. PICK s : s = (conf.hmm /\ t)
    OBVIOUS
  <1>e. PICK e : e = IF s THEN d ELSE <<>>
    OBVIOUS
  <1>4. q = [train |-> t, messages |-> messages, truncated |-> cut, delta |-> e, results |-> s]
    BY <1>1, <1>2, <1>3, <1>t, <1>r, <1>e DEF marshalRouteRequest
  <1>5. (q.train \/ q.results \/ q.delta # <<>>) => trainsOn(p)
    <2>1. q.train = t /\ q.results = s /\ q.delta = e
      BY <1>4
    <2>2. q.train => trainsOn(p)
      BY <1>t, <2>1
    <2>3. q.results => trainsOn(p)
      BY <1>t, <1>r, <2>1
    <2>4. q.delta # <<>> => trainsOn(p)
      BY <1>t, <1>r, <1>e, <2>1
    <2> QED BY <2>2, <2>3, <2>4
  <1>6. ASSUME p # "preview", ~q.truncated PROVE q.messages = Sendable(req.conv)
    <2>1. q.truncated = cut /\ q.messages = messages
      BY <1>4
    <2>2. ~routeMessagesTruncated(req.conv)
      BY <1>2, <1>6, <2>1
    <2>3. req.conv \in Seq(Messages)
      BY PolicyAssumption DEF InputInv
    <2>4. convertRouteMessages(req.conv) = Sendable(req.conv)
      BY <2>2, <2>3, WholeConversation
    <2> QED BY <1>1, <2>1, <2>4
  <1> QED BY <1>5, <1>6 DEF trainsOn

(* What leaves the router for learning is consented and complete:            *)
(* only a training turn's serving call carries training data, a query that   *)
(* does not say it dropped history dropped none (convertRouteMessages and    *)
(* routeMessagesTruncated agree on every conversation and every bound), and  *)
(* the outcome report names a model the sidecar was offered, its own         *)
(* selection unless a sibling rescued the turn (policyOutcomeRoute credits   *)
(* the stand-in then).                                                       *)
THEOREM ToldTruth == Spec => []SidecarToldTruth
  <1>1. PolicyInv => SidecarToldTruth
    <2> SUFFICES ASSUME PolicyInv PROVE SidecarToldTruth
      OBVIOUS
    <2>1. InputInv /\ CallInv /\ PostInv
      BY DEF PolicyInv
    <2>2. ASSUME NEW p \in Callers, call[p].query # None
          PROVE  LET q == call[p].query[1]
                 IN  /\ (q.train \/ q.results \/ q.delta # <<>>) => p = "serving" /\ req.train
                     /\ (p # "preview" /\ ~q.truncated) => q.messages = Sendable(req.conv)
      <3>1. PICK q : q = marshalRouteRequest(p)
        OBVIOUS
      <3>2. call[p].query = <<marshalRouteRequest(p)>>
        BY <2>1, <2>2 DEF CallInv, CallOK
      <3>3. call[p].query[1] = q
        BY <3>1, <3>2
      <3>4. /\ (q.train \/ q.results \/ q.delta # <<>>) => p = "serving" /\ req.train
            /\ (p # "preview" /\ ~q.truncated) => q.messages = Sendable(req.conv)
        BY <2>1, <3>1, QueryTruth
      <3> QED BY <3>3, <3>4
    <2>3. post.pc # "none" => post # NoPost
      BY DEF NoPost
    <2>4. post.pc # "none" =>
            /\ turn.how \in {"policy", "stay"} /\ call["serving"].out.ok
            /\ post.train => req.train
            /\ post.selected \in {c.model : c \in Range(Cands("serving"))}
            /\ ~turn.rescued => post.selected = call["serving"].out.model
            /\ (post.train /\ call["serving"].authoritative /\ ~turn.rescued)
                 => post.served = call["serving"].out.model
      BY <2>1, <2>3 DEF PostInv
    <2> QED BY <2>2, <2>4 DEF SidecarToldTruth
  <1> QED BY <1>1, Inductive, PTL

\* A candidate is permitted, and withdrawn from automatic routing only when nothing else is left.
LEMMA CandidatePermitted ==
  ASSUME InputInv, turn.tier \in BOOLEAN, NEW b \in Range(Resolve(RoutedReq("serving")))
  PROVE  /\ Permitted(b.model)
         /\ b.provider \in (ProviderSet(req) \ Denied) \cap Range(Catalog[b.model].bindings)
         /\ turn.tier => Catalog[b.model].tier = conf.floor
         /\ b.model \in req.auto => ~Better
  <1>0. PICK r : r = RoutedReq("serving")
    OBVIOUS
  <1>1. r \in Routed
    BY <1>0, RoutedReqIs
  <1>2. PICK m \in Range(Deployed) \cap DOMAIN Catalog : \E p \in Range(Catalog[m].bindings) :
          HardEligible(r, m) /\ p \in Usable(r) /\ b.model = m /\ b.provider = p
    BY <1>0, <1>1, CandidateFields
  <1>3. r.auto = req.auto /\ r.enabled = req.enabled
        /\ (turn.tier => r.excluded = req.excluded \cup OutOfTier(conf.floor))
    <2>1. DOMAIN req = RequestFields
      BY PolicyAssumption DEF InputInv
    <2> QED BY <1>0, <2>1 DEF RoutedReq, restrictToTier, RequestFields
  <1>4. Usable(r) = ProviderSet(req) \ Denied
    BY <1>3 DEF Usable, ProviderSet
  <1>5. turn.tier => Catalog[m].tier = conf.floor
    BY <1>2, <1>3 DEF HardEligible, OutOfTier
  <1>6. ASSUME b.model \in req.auto, Better PROVE FALSE
    <2>1. PICK n \in Range(Deployed) \ req.auto :
            Permitted(n) /\ EnumerateBindings(n, ProviderSet(req) \ Denied) # <<>>
      BY <1>6 DEF Better
    <2>2. Bound(r, n)
      BY <1>0, <1>4, <2>1 DEF Bound, Permitted
    <2>3. n \in r.auto
      BY <1>0, <1>1, <1>3, <1>6, <2>2, ResolveSound
    <2> QED BY <1>3, <2>1, <2>3
  <1> QED BY <1>0, <1>2, <1>4, <1>5, <1>6 DEF Permitted

(* Whatever chose the arm of a turn, it is permitted by the request and the  *)
(* deployment, for every catalog, roster, request and sidecar answer:        *)
(* Resolve offers permitted arms only, and Choose (the router's selection,   *)
(* per-key lists, forced clusters) and the sibling rescue stay among them,   *)
(* the latter over a provider the deployment holds a key for.                *)
THEOREM ChoiceEligible == Spec => []PolicyChoiceEligible
  <1>1. PolicyInv => PolicyChoiceEligible
    <2> SUFFICES ASSUME PolicyInv PROVE PolicyChoiceEligible
      OBVIOUS
    <2>1. InputInv /\ CallInv /\ TurnInv /\ req \in Requests
      BY DEF PolicyInv, InputInv
    <2>t. turn.tier \in BOOLEAN
      BY <2>1 DEF TurnInv, TurnRecord
    <2>2. ASSUME turn.decision.meta
          PROVE  LET d == turn.decision
                 IN  /\ Permitted(d.model)
                     /\ d.provider \in PermittedOver \cap Range(Catalog[d.model].bindings)
                     /\ turn.tier => Catalog[d.model].tier = conf.floor
                     /\ d.model \in req.auto => ~Better
                     /\ (req.force \in DOMAIN req.overrides /\ ~turn.rescued)
                          => d.model \in Range(req.overrides[req.force])
                     /\ d.marker # None => d.marker = d.model
      <3>1. PICK d : d = turn.decision
        OBVIOUS
      <3>2. call["serving"].out.ok /\ (turn.rescued => Sibling(d))
            /\ (~turn.rescued => d = OfPolicy(call["serving"].out))
        BY <2>2, <3>1, MetaIsPolicy
      <3>3. CASE turn.rescued
        <4>1. PICK b \in Range(Resolve(RoutedReq("serving"))) : d.model = b.model
          BY <3>2, <3>3 DEF Sibling
        <4>2. Permitted(b.model) /\ (turn.tier => Catalog[b.model].tier = conf.floor)
              /\ (b.model \in req.auto => ~Better)
          BY <2>1, <2>t, CandidatePermitted
        <4>3. d.marker = None /\ d.provider \in conf.keyed \cap Range(Catalog[d.model].bindings)
          BY <3>2, <3>3 DEF Sibling
        <4>4. PermittedOver = conf.keyed
          BY <3>3 DEF PermittedOver
        <4> QED BY <3>1, <3>3, <4>1, <4>2, <4>3, <4>4
      <3>4. CASE ~turn.rescued
        <4>1. PICK out : out = call["serving"].out
          OBVIOUS
        <4>2. Chosen(RoutedReq("serving"), out) /\ d = OfPolicy(out)
          BY <3>2, <3>4, <4>1, ServingChoice
        <4>r. PICK r : r = RoutedReq("serving")
          OBVIOUS
        <4>3. PICK b \in Range(Resolve(r)) :
                /\ out.model = b.model /\ out.provider = b.provider
                /\ r.force \in DOMAIN r.overrides => b.model \in Range(r.overrides[r.force])
                /\ out.marker # None => out.marker = b.model
          BY <4>2, <4>r DEF Chosen
        <4>f. r.force = req.force /\ r.overrides = req.overrides
          <5>1. DOMAIN req = RequestFields
            BY <2>1, PolicyAssumption
          <5> QED BY <4>r, <5>1 DEF RoutedReq, restrictToTier, RequestFields
        <4>4. /\ Permitted(b.model)
              /\ b.provider \in (ProviderSet(req) \ Denied) \cap Range(Catalog[b.model].bindings)
              /\ turn.tier => Catalog[b.model].tier = conf.floor
              /\ b.model \in req.auto => ~Better
          BY <2>1, <2>t, <4>r, CandidatePermitted
        <4>5. d.model = out.model /\ d.provider = out.provider /\ d.marker = out.marker
          BY <4>2 DEF OfPolicy
        <4>6. PermittedOver = ProviderSet(req) \ Denied
          BY <3>4 DEF PermittedOver
        <4> QED BY <3>1, <4>3, <4>f, <4>4, <4>5, <4>6
      <3> QED BY <3>3, <3>4
    <2>3. ASSUME turn.how = "degraded", conf.pin = None
          PROVE  /\ turn.decision.model \notin req.excluded \cup req.safety
                 /\ turn.decision.provider \in ProviderSet(req)
      <3>1. turn.pc \in {"served", "reported"}
        BY <2>1, <2>3 DEF TurnInv, None
      <3>2. turn.decision = Degraded /\ Degraded.model # None
        BY <2>1, <2>3, <3>1 DEF TurnInv, Served
      <3> QED BY <2>1, <2>3, <3>2, DegradedTyped
    <2>4. ASSUME call["preview"].out.ok, NEW a \in Range(call["preview"].out.arms)
          PROVE  \E m \in Range(Deployed) : HardEligible(req, m) /\ Catalog[m].roster = a.base
      <3>1. OutOK("preview", call["preview"].out)
        BY CallsOK DEF CallOK, Callers
      <3>2. Listed(req, call["preview"].out)
        BY <2>4, <3>1 DEF OutOK
      <3>3. PICK c \in Range(Resolve(req)) : c.roster = a.base
        BY <2>4, <3>2 DEF Listed
      <3>4. req \in Routed
        BY <2>1 DEF Routed
      <3> QED BY <3>3, <3>4, CandidateFields
    <2> QED BY <2>2, <2>3, <2>4 DEF PolicyChoiceEligible
  <1> QED BY <1>1, Inductive, PTL
=============================================================================
