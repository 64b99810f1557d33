----------------------------- MODULE LoopProofs -----------------------------
(***************************************************************************)
(* What Keep computes, for every list: the lemmas that the proofs of the   *)
(* components share.                                                       *)
(***************************************************************************)
EXTENDS Loops, WellFoundedInduction, TLAPS

-----------------------------------------------------------------------------
(* The least-number principle for sets: the form of induction used below.   *)

Below == { p \in Nat \X Nat : p[1] < p[2] }

\* Every non-empty set of numbers has a least element.
LEMMA Least ==
  ASSUME NEW T \in SUBSET Nat, T # {}
  PROVE  \E n \in T : \A m \in T : n <= m
  <1>1. OpToRel(<, Nat) = Below
    BY Zenon DEF OpToRel, Below
  <1>2. IsWellFoundedOn(Below, Nat)
    BY <1>1, NatLessThanWellFounded
  <1>3. PICK n \in T : \A m \in T : ~(<<m, n>> \in Below)
    BY <1>2, WFMin, Zenon
  <1>4. ASSUME NEW m \in T
        PROVE  n <= m
    <2>1. <<m, n>> \in Nat \X Nat /\ ~(<<m, n>> \in Below)
      BY <1>3
    <2>2. ~(m < n)
      BY <2>1 DEF Below
    <2> QED BY <2>2
  <1> QED BY <1>4

-----------------------------------------------------------------------------
(* Keep.                                                                    *)

\* The value of the loop after n + 1 elements, from its value f after n.
KeepStep(s, set, f, n) ==
    IF n = 0 THEN <<>>
    ELSE IF s[n] \in set THEN Append(f[n - 1], s[n]) ELSE f[n - 1]

IsKept(s, set, f, len) == f = [n \in 0 .. len |-> KeepStep(s, set, f, n)]

\* The recursive definition in Keep has a solution.
LEMMA KeepDefined ==
  ASSUME NEW s, NEW set, NEW len \in Nat
  PROVE  \E f : IsKept(s, set, f, len)
  <1> DEFINE T == { n \in Nat : ~\E f : IsKept(s, set, f, n) }
  <1>1. SUFFICES ASSUME T # {} PROVE FALSE
    OBVIOUS
  <1>2. PICK n \in T : \A m \in T : n <= m
    BY <1>1, Least
  <1>3. CASE n = 0
    <2> DEFINE f == [k \in 0 .. 0 |-> <<>>]
    <2>1. IsKept(s, set, f, 0)
      BY DEF IsKept, KeepStep
    <2> QED BY <1>2, <1>3, <2>1
  <1>4. CASE n # 0
    <2>1. n - 1 \in Nat /\ n - 1 \notin T
      BY <1>2, <1>4
    <2>2. PICK f : IsKept(s, set, f, n - 1)
      BY <2>1
    <2> DEFINE g == [k \in 0 .. n |-> IF k = n THEN KeepStep(s, set, f, n) ELSE f[k]]
    <2>3. ASSUME NEW k \in 0 .. n
          PROVE  g[k] = KeepStep(s, set, g, k)
      <3>1. CASE k = n
        BY <3>1, <1>4 DEF KeepStep
      <3>2. CASE k # n
        <4>1. k \in 0 .. n - 1 /\ g[k] = f[k]
          BY <3>2
        <4>2. f[k] = KeepStep(s, set, f, k)
          BY <4>1, <2>2 DEF IsKept
        <4>3. k # 0 => g[k - 1] = f[k - 1]
          BY <4>1
        <4> QED BY <4>1, <4>2, <4>3 DEF KeepStep
      <3> QED BY <3>1, <3>2
    <2>4. IsKept(s, set, g, n)
      BY <2>3 DEF IsKept
    <2> QED BY <1>2, <2>4
  <1> QED BY <1>3, <1>4

\* An element of a list over S is in S.
LEMMA ElementOf ==
  ASSUME NEW S, NEW s \in Seq(S), NEW n \in 1 .. Len(s)
  PROVE  s[n] \in S
  OBVIOUS

\* A list without repetitions.
Distinct(s) == \A j, k \in 1 .. Len(s) : s[j] = s[k] => j = k

\* What Keep returns: elements of s that are in set, each as often as in s.
LEMMA KeepSound ==
  ASSUME NEW E, NEW s \in Seq(E), NEW set, Distinct(s)
  PROVE  /\ Keep(s, set) \in Seq(E)
         /\ \A j \in 1 .. Len(Keep(s, set)) :
               Keep(s, set)[j] \in set /\ \E k \in 1 .. Len(s) : Keep(s, set)[j] = s[k]
         /\ Distinct(Keep(s, set))
  <1> DEFINE f == CHOOSE g : IsKept(s, set, g, Len(s))
  <1>1. Len(s) \in Nat
    OBVIOUS
  <1>2. IsKept(s, set, f, Len(s))
    BY <1>1, KeepDefined
  <1>3. Keep(s, set) = f[Len(s)]
    BY DEF Keep, IsKept, KeepStep
  <1>4. \A n \in 0 .. Len(s) : f[n] = KeepStep(s, set, f, n)
    BY <1>2 DEF IsKept
  <1> HIDE DEF f
  <1> DEFINE Good(n) ==
        /\ f[n] \in Seq(E)
        /\ \A j \in 1 .. Len(f[n]) : f[n][j] \in set /\ \E k \in 1 .. n : f[n][j] = s[k]
        /\ Distinct(f[n])
      T == { n \in 0 .. Len(s) : ~Good(n) }
  <1>5. SUFFICES ASSUME T # {} PROVE FALSE
    <2>1. Len(s) \in 0 .. Len(s)
      BY <1>1
    <2> QED BY <1>3, <2>1
  <1>6. T \in SUBSET Nat
    OBVIOUS
  <1>7. PICK n \in T : \A m \in T : n <= m
    BY <1>5, <1>6, Least
  <1>8. CASE n = 0
    <2>1. f[0] = <<>>
      BY <1>4, <1>1 DEF KeepStep
    <2>2. Good(0)
      BY <2>1 DEF Distinct
    <2> QED BY <1>7, <1>8, <2>2
  <1>9. CASE n # 0
    <2>1. n - 1 \in 0 .. Len(s) /\ n \in 1 .. Len(s)
      BY <1>7, <1>9
    <2>2. Good(n - 1)
      BY <1>7, <2>1
    <2>a. n \in 0 .. Len(s) /\ ~Good(n)
      BY <1>7
    <2> HIDE DEF Good, T
    <2>3. CASE s[n] \notin set
      <3>1. f[n] = f[n - 1]
        BY <1>4, <1>9, <2>a, <2>3 DEF KeepStep
      <3>2. \A j \in 1 .. Len(f[n - 1]) :
              f[n - 1][j] \in set /\ \E k \in 1 .. n - 1 : f[n - 1][j] = s[k]
        BY <2>2 DEF Good
      <3>3. \A k \in 1 .. n - 1 : k \in 1 .. n
        BY <2>1
      <3>4. \A j \in 1 .. Len(f[n - 1]) :
              f[n - 1][j] \in set /\ \E k \in 1 .. n : f[n - 1][j] = s[k]
        BY <3>2, <3>3
      <3>5. f[n - 1] \in Seq(E) /\ Distinct(f[n - 1])
        BY <2>2 DEF Good
      <3>6. Good(n)
        BY <3>1, <3>4, <3>5 DEF Good
      <3> QED BY <2>a, <3>6
    <2>4. CASE s[n] \in set
      <3>1. f[n] = Append(f[n - 1], s[n])
        BY <1>4, <1>9, <2>a, <2>4 DEF KeepStep
      <3>2. f[n - 1] \in Seq(E) /\ s[n] \in E
        BY <2>1, <2>2 DEF Good
      <3>3. f[n] \in Seq(E) /\ Len(f[n]) = Len(f[n - 1]) + 1
            /\ f[n][Len(f[n])] = s[n]
            /\ \A j \in 1 .. Len(f[n - 1]) : f[n][j] = f[n - 1][j]
        BY <3>1, <3>2
      <3>4. \A j \in 1 .. Len(f[n]) : f[n][j] \in set /\ \E k \in 1 .. n : f[n][j] = s[k]
        <4> TAKE j \in 1 .. Len(f[n])
        <4>1. CASE j = Len(f[n])
          BY <4>1, <3>3, <2>1, <2>4
        <4>2. CASE j # Len(f[n])
          <5>1. j \in 1 .. Len(f[n - 1])
            BY <4>2, <3>2, <3>3
          <5>2. f[n - 1][j] \in set /\ \E k \in 1 .. n - 1 : f[n - 1][j] = s[k]
            BY <5>1, <2>2 DEF Good
          <5> QED BY <5>1, <5>2, <3>3, <2>1
        <4> QED BY <4>1, <4>2
      <3>5. \A j \in 1 .. Len(f[n - 1]) : f[n - 1][j] # s[n]
        BY <2>1, <2>2 DEF Good, Distinct
      <3>6. Distinct(f[n])
        <4> SUFFICES ASSUME NEW j \in 1 .. Len(f[n]), NEW k \in 1 .. Len(f[n]),
                            f[n][j] = f[n][k]
                     PROVE  j = k
          BY DEF Distinct
        <4>1. Distinct(f[n - 1])
          BY <2>2 DEF Good
        <4>2. j \in 1 .. Len(f[n - 1]) \/ j = Len(f[n])
          BY <3>2, <3>3
        <4>3. k \in 1 .. Len(f[n - 1]) \/ k = Len(f[n])
          BY <3>2, <3>3
        <4>4. CASE j \in 1 .. Len(f[n - 1]) /\ k \in 1 .. Len(f[n - 1])
          BY <4>1, <4>4, <3>3 DEF Distinct
        <4>5. CASE j \in 1 .. Len(f[n - 1]) /\ k = Len(f[n])
          BY <4>5, <3>3, <3>5
        <4>6. CASE j = Len(f[n]) /\ k \in 1 .. Len(f[n - 1])
          BY <4>6, <3>3, <3>5
        <4> QED BY <4>2, <4>3, <4>4, <4>5, <4>6
      <3>7. Good(n)
        BY <3>3, <3>4, <3>6 DEF Good
      <3> QED BY <2>a, <3>7
    <2> QED BY <2>3, <2>4
  <1> QED BY <1>8, <1>9

\* Keep returns a list over the same set, with exactly the elements of s in set.
LEMMA KeepMembers ==
  ASSUME NEW E, NEW s \in Seq(E), NEW set
  PROVE  /\ Keep(s, set) \in Seq(E)
         /\ \A j \in 1 .. Len(Keep(s, set)) :
               Keep(s, set)[j] \in set /\ \E k \in 1 .. Len(s) : Keep(s, set)[j] = s[k]
         /\ \A k \in 1 .. Len(s) :
               s[k] \in set => \E j \in 1 .. Len(Keep(s, set)) : Keep(s, set)[j] = s[k]
  <1> DEFINE f == CHOOSE g : IsKept(s, set, g, Len(s))
  <1>1. Len(s) \in Nat
    OBVIOUS
  <1>2. IsKept(s, set, f, Len(s))
    BY <1>1, KeepDefined
  <1>3. Keep(s, set) = f[Len(s)]
    BY DEF Keep, IsKept, KeepStep
  <1>4. \A n \in 0 .. Len(s) : f[n] = KeepStep(s, set, f, n)
    BY <1>2 DEF IsKept
  <1> HIDE DEF f
  <1> DEFINE Good(n) ==
        /\ f[n] \in Seq(E)
        /\ \A j \in 1 .. Len(f[n]) : f[n][j] \in set /\ \E k \in 1 .. n : f[n][j] = s[k]
        /\ \A k \in 1 .. n : s[k] \in set => \E j \in 1 .. Len(f[n]) : f[n][j] = s[k]
      T == { n \in 0 .. Len(s) : ~Good(n) }
  <1>5. SUFFICES ASSUME T # {} PROVE FALSE
    <2>1. Len(s) \in 0 .. Len(s)
      BY <1>1
    <2> QED BY <1>3, <2>1
  <1>6. T \in SUBSET Nat
    OBVIOUS
  <1>7. PICK n \in T : \A m \in T : n <= m
    BY <1>5, <1>6, Least
  <1>8. CASE n = 0
    <2>1. f[0] = <<>>
      BY <1>4, <1>1 DEF KeepStep
    <2>2. Good(0)
      BY <2>1
    <2> QED BY <1>7, <1>8, <2>2
  <1>9. CASE n # 0
    <2>1. n - 1 \in 0 .. Len(s) /\ n \in 1 .. Len(s)
      BY <1>7, <1>9
    <2>2. Good(n - 1)
      BY <1>7, <2>1
    <2>a. n \in 0 .. Len(s) /\ ~Good(n)
      BY <1>7
    <2> HIDE DEF T
    <2>p. PICK q : q = f[n - 1]
      OBVIOUS
    <2>b. /\ q \in Seq(E)
          /\ \A j \in 1 .. Len(q) : q[j] \in set /\ \E k \in 1 .. n - 1 : q[j] = s[k]
          /\ \A k \in 1 .. n - 1 : s[k] \in set => \E j \in 1 .. Len(q) : q[j] = s[k]
      BY <2>2, <2>p
    <2>c. \A k \in 1 .. n : k = n \/ k \in 1 .. n - 1
      BY <2>1
    <2>d. \A k \in 1 .. n - 1 : k \in 1 .. n
      BY <2>1
    <2>3. CASE s[n] \notin set
      <3>1. f[n] = q
        BY <1>4, <1>9, <2>a, <2>3, <2>p DEF KeepStep
      <3>2. \A k \in 1 .. n : s[k] \in set => \E j \in 1 .. Len(q) : q[j] = s[k]
        BY <2>b, <2>c, <2>3
      <3>3. \A j \in 1 .. Len(q) : q[j] \in set /\ \E k \in 1 .. n : q[j] = s[k]
        BY <2>b, <2>d
      <3>6. Good(n)
        BY <3>1, <3>2, <3>3, <2>b
      <3> QED BY <2>a, <3>6
    <2>4. CASE s[n] \in set
      <3>1. f[n] = Append(q, s[n])
        BY <1>4, <1>9, <2>a, <2>4, <2>p DEF KeepStep
      <3>2. q \in Seq(E) /\ s[n] \in E
        BY <2>1, <2>b
      <3> DEFINE r == Append(q, s[n])
      <3>3. r \in Seq(E) /\ Len(r) = Len(q) + 1 /\ r[Len(r)] = s[n]
            /\ \A j \in 1 .. Len(q) : j \in 1 .. Len(r) /\ r[j] = q[j]
        BY <3>2
      <3>0. Len(r) \in 1 .. Len(r) /\ \A j \in 1 .. Len(r) : j = Len(r) \/ j \in 1 .. Len(q)
        BY <3>2, <3>3
      <3> HIDE DEF r
      <3>4. \A j \in 1 .. Len(r) : r[j] \in set /\ \E k \in 1 .. n : r[j] = s[k]
        <4> TAKE j \in 1 .. Len(r)
        <4>1. n \in 1 .. n
          BY <2>1
        <4>2. CASE j = Len(r)
          BY <4>1, <4>2, <3>3, <2>4
        <4>3. CASE j \in 1 .. Len(q)
          <5>1. r[j] = q[j]
            BY <4>3, <3>3
          <5>2. q[j] \in set /\ \E k \in 1 .. n - 1 : q[j] = s[k]
            BY <4>3, <2>b
          <5> QED BY <5>1, <5>2, <2>d
        <4> QED BY <3>0, <4>2, <4>3
      <3>5. \A k \in 1 .. n : s[k] \in set => \E j \in 1 .. Len(r) : r[j] = s[k]
        BY <3>0, <3>3, <2>b, <2>c
      <3>7. f[n] = r
        BY <3>1 DEF r
      <3>8. Good(n)
        BY <3>3, <3>4, <3>5, <3>7
      <3> QED BY <2>a, <3>8
    <2> QED BY <2>3, <2>4
  <1> QED BY <1>8, <1>9

\* What is kept keeps any order that holds along the list.
LEMMA KeepOrder ==
  ASSUME NEW E, NEW s \in Seq(E), NEW set, NEW lt,
         \A a, b \in 1 .. Len(s) : a < b /\ s[a] \in set /\ s[b] \in set => <<s[a], s[b]>> \in lt
  PROVE  \A j, k \in 1 .. Len(Keep(s, set)) : j < k => <<Keep(s, set)[j], Keep(s, set)[k]>> \in lt
  <1> DEFINE f == CHOOSE g : IsKept(s, set, g, Len(s))
  <1>1. Len(s) \in Nat
    OBVIOUS
  <1>2. IsKept(s, set, f, Len(s))
    BY <1>1, KeepDefined
  <1>3. Keep(s, set) = f[Len(s)]
    BY DEF Keep, IsKept, KeepStep
  <1>4. \A n \in 0 .. Len(s) : f[n] = KeepStep(s, set, f, n)
    BY <1>2 DEF IsKept
  <1> HIDE DEF f
  <1> DEFINE Good(n) ==
        /\ f[n] \in Seq(E)
        /\ \A j \in 1 .. Len(f[n]) : f[n][j] \in set /\ \E k \in 1 .. n : f[n][j] = s[k]
        /\ \A j, k \in 1 .. Len(f[n]) : j < k => <<f[n][j], f[n][k]>> \in lt
      T == { n \in 0 .. Len(s) : ~Good(n) }
  <1>5. SUFFICES ASSUME T # {} PROVE FALSE
    <2>1. Len(s) \in 0 .. Len(s)
      BY <1>1
    <2> QED BY <1>3, <2>1
  <1>6. T \in SUBSET Nat
    OBVIOUS
  <1>7. PICK n \in T : \A m \in T : n <= m
    BY <1>5, <1>6, Least
  <1>8. CASE n = 0
    <2>1. f[0] = <<>>
      BY <1>4, <1>1 DEF KeepStep
    <2>2. Good(0)
      BY <2>1
    <2> QED BY <1>7, <1>8, <2>2
  <1>9. CASE n # 0
    <2>1. n - 1 \in 0 .. Len(s) /\ n \in 1 .. Len(s)
      BY <1>7, <1>9
    <2>2. Good(n - 1)
      BY <1>7, <2>1
    <2>a. n \in 0 .. Len(s) /\ ~Good(n)
      BY <1>7
    <2> HIDE DEF T
    <2>p. PICK q : q = f[n - 1]
      OBVIOUS
    <2>b. /\ q \in Seq(E)
          /\ \A j \in 1 .. Len(q) : q[j] \in set /\ \E k \in 1 .. n - 1 : q[j] = s[k]
          /\ \A j, k \in 1 .. Len(q) : j < k => <<q[j], q[k]>> \in lt
      BY <2>2, <2>p
    <2>d. \A k \in 1 .. n - 1 : k \in 1 .. n /\ k \in 1 .. Len(s) /\ k < n
      BY <2>1
    <2>3. CASE s[n] \notin set
      <3>1. f[n] = q
        BY <1>4, <1>9, <2>a, <2>3, <2>p DEF KeepStep
      <3>3. \A j \in 1 .. Len(q) : q[j] \in set /\ \E k \in 1 .. n : q[j] = s[k]
        BY <2>b, <2>d
      <3>6. Good(n)
        BY <3>1, <3>3, <2>b
      <3> QED BY <2>a, <3>6
    <2>4. CASE s[n] \in set
      <3>1. f[n] = Append(q, s[n])
        BY <1>4, <1>9, <2>a, <2>4, <2>p DEF KeepStep
      <3>2. q \in Seq(E) /\ s[n] \in E
        BY <2>1, <2>b
      <3> DEFINE r == Append(q, s[n])
      <3>3. r \in Seq(E) /\ Len(r) = Len(q) + 1 /\ r[Len(r)] = s[n]
            /\ \A j \in 1 .. Len(q) : j \in 1 .. Len(r) /\ r[j] = q[j]
        BY <3>2
      <3>0. Len(r) \in 1 .. Len(r) /\ \A j \in 1 .. Len(r) : j = Len(r) \/ j \in 1 .. Len(q)
        BY <3>2, <3>3
      <3> HIDE DEF r
      <3>4. \A j \in 1 .. Len(r) : r[j] \in set /\ \E k \in 1 .. n : r[j] = s[k]
        <4> TAKE j \in 1 .. Len(r)
        <4>1. n \in 1 .. n
          BY <2>1
        <4>2. CASE j = Len(r)
          BY <4>1, <4>2, <3>3, <2>4
        <4>3. CASE j \in 1 .. Len(q)
          <5>1. r[j] = q[j]
            BY <4>3, <3>3
          <5>2. q[j] \in set /\ \E k \in 1 .. n - 1 : q[j] = s[k]
            BY <4>3, <2>b
          <5> QED BY <5>1, <5>2, <2>d
        <4> QED BY <3>0, <4>2, <4>3
      <3>5. ASSUME NEW j \in 1 .. Len(r), NEW k \in 1 .. Len(r), j < k
            PROVE  <<r[j], r[k]>> \in lt
        <4>1. j \in 1 .. Len(q) /\ r[j] = q[j]
          BY <3>2, <3>3, <3>5
        <4>2. CASE k = Len(r)
          <5>1. q[j] \in set /\ \E h \in 1 .. n - 1 : q[j] = s[h]
            BY <4>1, <2>b
          <5>2. PICK h \in 1 .. n - 1 : q[j] = s[h]
            BY <5>1
          <5>3. <<s[h], s[n]>> \in lt
            BY <5>1, <5>2, <2>1, <2>d, <2>4
          <5> QED BY <4>1, <4>2, <5>2, <5>3, <3>3
        <4>3. CASE k \in 1 .. Len(q)
          <5>1. r[k] = q[k]
            BY <4>3, <3>3
          <5> QED BY <4>1, <4>3, <5>1, <3>5, <2>b
        <4> QED BY <3>0, <4>2, <4>3
      <3>7. f[n] = r
        BY <3>1 DEF r
      <3>8. Good(n)
        BY <3>3, <3>4, <3>5, <3>7
      <3> QED BY <2>a, <3>8
    <2> QED BY <2>3, <2>4
  <1> QED BY <1>8, <1>9

\* Two lists that agree on what is kept of them are kept alike.
LEMMA KeepSame ==
  ASSUME NEW s, NEW t, NEW S, NEW T, Len(s) \in Nat, Len(s) = Len(t),
         \A n \in 1 .. Len(s) : (s[n] \in S <=> t[n] \in T) /\ (s[n] \in S => s[n] = t[n])
  PROVE  Keep(s, S) = Keep(t, T)
  <1> DEFINE f == CHOOSE h : IsKept(s, S, h, Len(s))
             g == CHOOSE h : IsKept(t, T, h, Len(t))
  <1>1. IsKept(s, S, f, Len(s))
    BY KeepDefined
  <1>2. IsKept(t, T, g, Len(t))
    BY KeepDefined
  <1>3. Keep(s, S) = f[Len(s)]
    BY DEF Keep, IsKept, KeepStep
  <1>4. Keep(t, T) = g[Len(t)]
    BY DEF Keep, IsKept, KeepStep
  <1>5. \A n \in 0 .. Len(s) : f[n] = KeepStep(s, S, f, n)
    BY <1>1 DEF IsKept
  <1>6. \A n \in 0 .. Len(s) : g[n] = KeepStep(t, T, g, n)
    BY <1>2 DEF IsKept
  <1> HIDE DEF f, g
  <1> DEFINE U == { n \in 0 .. Len(s) : f[n] # g[n] }
  <1>7. SUFFICES ASSUME U # {} PROVE FALSE
    <2>1. Len(s) \in 0 .. Len(s)
      OBVIOUS
    <2> QED BY <1>3, <1>4, <2>1
  <1>8. U \in SUBSET Nat
    OBVIOUS
  <1>9. PICK n \in U : \A m \in U : n <= m
    BY <1>7, <1>8, Least
  <1>10. n \in 0 .. Len(s) /\ f[n] # g[n]
    BY <1>9
  <1>11. n # 0
    BY <1>10, <1>5, <1>6 DEF KeepStep
  <1>12. n \in 1 .. Len(s) /\ n - 1 \in 0 .. Len(s) /\ n - 1 \notin U
    BY <1>9, <1>10, <1>11
  <1>13. f[n - 1] = g[n - 1]
    BY <1>12
  <1> QED BY <1>5, <1>6, <1>10, <1>11, <1>12, <1>13 DEF KeepStep
=============================================================================
