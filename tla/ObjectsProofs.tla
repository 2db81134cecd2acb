--------------------------- MODULE ObjectsProofs ---------------------------
(***************************************************************************)
(* What Objects guarantees for any number of addresses, functions, objects *)
(* and steps.                                                              *)
(*                                                                         *)
(* Lives says which maps may know an address: it is there that an object   *)
(* which holds another is itself attached, so a release never goes on to a *)
(* second object, and a free address is known to nobody.  RefsBalanced     *)
(* needs to know besides whose slots nobody empties any more (Orphans),    *)
(* and what the property tells needs the last signal in the queue          *)
(* (Current).                                                              *)
(***************************************************************************)
EXTENDS Objects, FiniteSetTheorems, SequenceTheorems, WellFoundedInduction, TLAPS

-----------------------------------------------------------------------------
(* Induction over a bounded set of numbers. *)

\* A nonempty set of naturals has a least element.
LEMMA Least ==
  ASSUME NEW T, T \subseteq Nat, T # {}
  PROVE  \E x \in T : \A y \in T : x <= y
<1>1. IsWellFoundedOn(OpToRel(<, Nat), Nat)
  BY NatLessThanWellFounded
<1> DEFINE R == OpToRel(<, Nat)
<1>2. \A x, y \in Nat : <<y, x>> \in R <=> y < x
  BY DEF OpToRel
<1> HIDE DEF R
<1>3. PICK x \in T : \A y \in T : ~(<<y, x>> \in R)
  BY <1>1, WFMin DEF R
<1>4. ASSUME NEW y \in T PROVE x <= y
  <2>1. x \in Nat /\ y \in Nat
    OBVIOUS
  <2>2. ~(<<y, x>> \in R)
    BY <1>3
  <2>3. ~(y < x)
    BY <1>2, <2>1, <2>2
  <2> QED
    BY <2>1, <2>3
<1> QED
  BY <1>4

\* A set of the numbers up to n that has 0 and goes on has them all.
LEMMA Induction ==
  ASSUME NEW n \in Nat, NEW P \in SUBSET (0..n), 0 \in P, \A i \in 1..n : i - 1 \in P => i \in P
  PROVE  P = 0..n
<1> DEFINE T == (0..n) \ P
<1> SUFFICES ASSUME T # {} PROVE FALSE
  OBVIOUS
<1>0. T \subseteq Nat
  OBVIOUS
<1> HIDE DEF T
<1>1. PICK x \in T : \A y \in T : x <= y
  BY <1>0, Least
<1>2. x \in 1..n /\ x - 1 \in 0..n /\ x \notin P
  BY DEF T
<1>3. x - 1 \notin T
  BY <1>1, <1>2
<1> QED
  BY <1>2, <1>3 DEF T

-----------------------------------------------------------------------------
(* What is left of a sequence. *)

Rest(s, K, f, i) ==
    IF i = 0 THEN <<>> ELSE IF s[i] \in K THEN Append(f[i - 1], s[i]) ELSE f[i - 1]

\* The recursive function of Among exists.
LEMMA AmongDef ==
  ASSUME NEW S, NEW s \in Seq(S), NEW K
  PROVE  \E f : f = [i \in 0..Len(s) |-> Rest(s, K, f, i)] /\ Among(s, K) = f[Len(s)]
<1> DEFINE n == Len(s)
           P == {m \in 0..n : \E f : f = [i \in 0..m |-> Rest(s, K, f, i)]}
<1>0. n \in Nat
  OBVIOUS
<1>1. 0 \in P
  <2> DEFINE f == [i \in 0..0 |-> <<>>]
  <2>1. f = [i \in 0..0 |-> Rest(s, K, f, i)]
    BY DEF Rest
  <2> QED
    BY <1>0, <2>1
<1>2. ASSUME NEW m \in 1..n, m - 1 \in P PROVE m \in P
  <2>1. PICK f : f = [i \in 0..(m - 1) |-> Rest(s, K, f, i)]
    BY <1>2
  <2> DEFINE g == [i \in 0..m |-> IF i = m THEN Rest(s, K, f, m) ELSE f[i]]
  <2>2. g = [i \in 0..m |-> Rest(s, K, g, i)]
    <3> SUFFICES ASSUME NEW i \in 0..m PROVE g[i] = Rest(s, K, g, i)
      OBVIOUS
    <3>1. CASE i = m
      <4>1. g[m - 1] = f[m - 1]
        BY <1>0
      <4> QED
        BY <1>0, <3>1, <4>1 DEF Rest
    <3>2. CASE i # m
      <4>1. i \in 0..(m - 1) /\ g[i] = f[i]
        BY <1>0, <3>2
      <4>2. i # 0 => i - 1 \in 0..m /\ i - 1 # m /\ g[i - 1] = f[i - 1]
        BY <1>0, <4>1
      <4>3. f[i] = Rest(s, K, f, i)
        BY <2>1, <4>1
      <4> QED
        BY <4>1, <4>2, <4>3 DEF Rest
    <3> QED
      BY <3>1, <3>2
  <2> HIDE DEF g
  <2> QED
    BY <2>2
<1> HIDE DEF P
<1>3. P \in SUBSET (0..n)
  BY DEF P
<1>4. P = 0..n
  BY <1>0, <1>1, <1>2, <1>3, Induction
<1>5. \E f : f = [i \in 0..n |-> Rest(s, K, f, i)]
  BY <1>0, <1>4 DEF P
<1> QED
  BY <1>5 DEF Among, Rest

\* The elements come from the places of s that have one of K, in their order.
Picks(t, h, s, m, K) ==
    /\ h \in [1..Len(t) -> 1..m]
    /\ \A i \in 1..Len(t) : t[i] = s[h[i]] /\ s[h[i]] \in K
    /\ \A i, j \in 1..Len(t) : i < j => h[i] < h[j]
    /\ \A k \in 1..m : s[k] \in K => \E i \in 1..Len(t) : h[i] = k

LEMMA AmongPicks ==
  ASSUME NEW S, NEW s \in Seq(S), NEW K
  PROVE  Among(s, K) \in Seq(S) /\ \E h : Picks(Among(s, K), h, s, Len(s), K)
<1> DEFINE n == Len(s)
<1>1. PICK f : f = [i \in 0..n |-> Rest(s, K, f, i)] /\ Among(s, K) = f[n]
  BY AmongDef
<1> DEFINE P == {m \in 0..n : f[m] \in Seq(S) /\ \E h : Picks(f[m], h, s, m, K)}
<1>2. n \in Nat
  OBVIOUS
<1>3. 0 \in P
  <2>1. f[0] = <<>>
    BY <1>1, <1>2 DEF Rest
  <2> DEFINE h == [i \in 1..0 |-> 0]
  <2>2. Picks(<<>>, h, s, 0, K)
    BY DEF Picks
  <2>3. \E g : Picks(<<>>, g, s, 0, K)
    BY <2>2
  <2>4. f[0] \in Seq(S) /\ 0 \in 0..n
    BY <1>2, <2>1
  <2>5. \E g : Picks(f[0], g, s, 0, K)
    BY <2>1, <2>3
  <2> HIDE DEF h, n
  <2> QED
    BY <2>4, <2>5
<1>4. ASSUME NEW m \in 1..n, m - 1 \in P PROVE m \in P
  <2> DEFINE t == f[m - 1]
  <2>1. t \in Seq(S) /\ m \in 0..n /\ m - 1 \in Nat /\ s[m] \in S
    BY <1>2, <1>4
  <2>2. PICK h : Picks(t, h, s, m - 1, K)
    BY <1>4
  <2>3. f[m] = IF s[m] \in K THEN Append(t, s[m]) ELSE t
    <3>1. f[m] = Rest(s, K, f, m)
      BY <1>1, <1>2, <2>1
    <3>2. m # 0
      BY <2>1
    <3> QED
      BY <3>1, <3>2 DEF Rest
  <2> HIDE DEF t
  <2>4. Len(t) \in Nat
    BY <2>1
  <2>5. CASE s[m] \notin K
    <3>1. \A k \in 1..(m - 1) : k \in 1..m
      BY <2>1
    <3>2. \A k \in 1..m : k # m => k \in 1..(m - 1)
      BY <2>1
    <3>3. h \in [1..Len(t) -> 1..m]
      <4>1. h \in [1..Len(t) -> 1..(m - 1)]
        BY <2>2 DEF Picks
      <4> QED
        BY <3>1, <4>1
    <3>4. \A k \in 1..m : s[k] \in K => \E i \in 1..Len(t) : h[i] = k
      BY <2>2, <2>5, <3>2 DEF Picks
    <3>5. Picks(t, h, s, m, K)
      BY <2>2, <3>3, <3>4 DEF Picks
    <3> QED
      BY <2>1, <2>3, <2>5, <3>5
  <2>6. CASE s[m] \in K
    <3> DEFINE l == Len(t) + 1
               u == Append(t, s[m])
               g == [i \in 1..l |-> IF i = l THEN m ELSE h[i]]
    <3>1. u \in Seq(S) /\ Len(u) = l /\ u[l] = s[m] /\ \A i \in 1..Len(t) : u[i] = t[i]
      BY <2>1, AppendProperties
    <3>2. /\ \A i \in 1..l : i # l => i \in 1..Len(t)
          /\ \A i \in 1..Len(t) : i \in 1..l /\ i # l
          /\ l \in 1..l
      BY <2>4
    <3>3. /\ \A i \in 1..Len(t) : g[i] = h[i] /\ h[i] \in 1..(m - 1)
          /\ g[l] = m
      BY <2>2, <3>2 DEF Picks
    <3> HIDE DEF g, u
    <3>4. g \in [1..l -> 1..m]
      <4>1. \A i \in 1..l : g[i] \in 1..m
        BY <2>1, <3>2, <3>3
      <4> QED
        BY <4>1 DEF g
    <3>5. \A i \in 1..l : u[i] = s[g[i]] /\ s[g[i]] \in K
      <4> SUFFICES ASSUME NEW i \in 1..l PROVE u[i] = s[g[i]] /\ s[g[i]] \in K
        OBVIOUS
      <4>1. CASE i = l
        BY <2>6, <3>1, <3>3, <4>1
      <4>2. CASE i # l
        <5>1. i \in 1..Len(t)
          BY <3>2, <4>2
        <5> QED
          BY <2>2, <3>1, <3>3, <5>1 DEF Picks
      <4> QED
        BY <4>1, <4>2
    <3>6. ASSUME NEW i \in 1..l, NEW j \in 1..l, i < j PROVE g[i] < g[j]
      <4>1. i \in 1..Len(t)
        BY <2>4, <3>6
      <4>2. CASE j = l
        BY <2>1, <3>3, <4>1, <4>2
      <4>3. CASE j # l
        <5>1. j \in 1..Len(t)
          BY <3>2, <4>3
        <5> QED
          BY <2>2, <3>3, <3>6, <4>1, <5>1 DEF Picks
      <4> QED
        BY <4>2, <4>3
    <3>7. ASSUME NEW k \in 1..m, s[k] \in K PROVE \E i \in 1..l : g[i] = k
      <4>1. CASE k = m
        BY <3>2, <3>3, <4>1
      <4>2. CASE k # m
        <5>1. k \in 1..(m - 1)
          BY <2>1, <4>2
        <5>2. PICK i \in 1..Len(t) : h[i] = k
          BY <2>2, <3>7, <5>1 DEF Picks
        <5> QED
          BY <3>2, <3>3, <5>2
      <4> QED
        BY <4>1, <4>2
    <3>8. Picks(u, g, s, m, K)
      BY <3>1, <3>4, <3>5, <3>6, <3>7 DEF Picks
    <3> QED
      BY <2>1, <2>3, <2>6, <3>1, <3>8 DEF u
  <2> QED
    BY <2>5, <2>6
<1> HIDE DEF P
<1>5. P \in SUBSET (0..n)
  BY DEF P
<1>6. P = 0..n
  BY <1>2, <1>3, <1>4, <1>5, Induction
<1> QED
  BY <1>1, <1>2, <1>6 DEF P

-----------------------------------------------------------------------------
(* The signals in the queue. *)

IsSignalOf(t, a) == t.kind = "signal" /\ t.object = a

NoSignal(s, a) == \A i \in DOMAIN s : ~IsSignalOf(s[i], a)

\* The last signal of the property of a in the queue has the value v.
LastSignal(s, a, v) ==
    \E i \in DOMAIN s :
        /\ IsSignalOf(s[i], a) /\ s[i].value = v
        /\ \A j \in DOMAIN s : i < j => ~IsSignalOf(s[j], a)

\* What is left is of the sequence, and it keeps the order of the signals.
LEMMA AmongLeaves ==
  ASSUME NEW S, NEW s \in Seq(S), NEW K, NEW t, t = Among(s, K)
  PROVE  /\ t \in Seq(S)
         /\ \A i \in DOMAIN t : \E j \in DOMAIN s : t[i] = s[j] /\ s[j] \in K
         /\ \A a : NoSignal(s, a) => NoSignal(t, a)
         /\ \A a, v : /\ \A j \in DOMAIN s : IsSignalOf(s[j], a) => s[j] \in K
                      /\ LastSignal(s, a, v)
                      => LastSignal(t, a, v)
<1>1. t \in Seq(S)
  BY AmongPicks
<1>2. PICK h : Picks(t, h, s, Len(s), K)
  BY AmongPicks
<1>3. DOMAIN t = 1..Len(t) /\ DOMAIN s = 1..Len(s) /\ Len(t) \in Nat /\ Len(s) \in Nat
  BY <1>1
<1>4. \A i \in DOMAIN t : h[i] \in DOMAIN s /\ t[i] = s[h[i]] /\ s[h[i]] \in K
  BY <1>2, <1>3 DEF Picks
<1>5. \A a : NoSignal(s, a) => NoSignal(t, a)
  BY <1>4 DEF NoSignal
<1>6. ASSUME NEW a, NEW v, \A j \in DOMAIN s : IsSignalOf(s[j], a) => s[j] \in K,
             LastSignal(s, a, v)
      PROVE  LastSignal(t, a, v)
  <2>1. PICK k \in DOMAIN s : /\ IsSignalOf(s[k], a) /\ s[k].value = v
                              /\ \A j \in DOMAIN s : k < j => ~IsSignalOf(s[j], a)
    BY <1>6 DEF LastSignal
  <2>2. PICK i \in DOMAIN t : h[i] = k
    BY <1>2, <1>3, <1>6, <2>1 DEF Picks
  <2>3. IsSignalOf(t[i], a) /\ t[i].value = v
    BY <1>4, <2>1, <2>2
  <2>4. ASSUME NEW j \in DOMAIN t, i < j PROVE ~IsSignalOf(t[j], a)
    <3>1. h[i] < h[j]
      BY <1>2, <1>3, <2>4 DEF Picks
    <3> QED
      BY <1>4, <2>1, <2>2, <3>1
  <2> QED
    BY <2>3, <2>4 DEF LastSignal
<1> QED
  BY <1>1, <1>4, <1>5, <1>6

\* A task behind the others, or the first one away.
LEMMA Behind ==
  ASSUME NEW S, NEW s \in Seq(S), NEW x \in S, NEW a
  PROVE  /\ Append(s, x) \in Seq(S)
         /\ DOMAIN Append(s, x) = DOMAIN s \cup {Len(s) + 1}
         /\ \A i \in DOMAIN s : Append(s, x)[i] = s[i]
         /\ Append(s, x)[Len(s) + 1] = x
         /\ IsSignalOf(x, a) => LastSignal(Append(s, x), a, x.value)
         /\ ~IsSignalOf(x, a) =>
              /\ NoSignal(s, a) => NoSignal(Append(s, x), a)
              /\ \A v : LastSignal(s, a, v) => LastSignal(Append(s, x), a, v)
<1> DEFINE t == Append(s, x)
           l == Len(s) + 1
<1>1. t \in Seq(S) /\ Len(t) = l /\ t[l] = x /\ \A i \in 1..Len(s) : t[i] = s[i]
  BY AppendProperties
<1>2. /\ Len(s) \in Nat /\ DOMAIN s = 1..Len(s) /\ DOMAIN t = 1..l
      /\ \A i \in DOMAIN t : i \in DOMAIN s \/ i = l
      /\ \A i \in DOMAIN s : i \in DOMAIN t /\ ~(l < i)
      /\ l \in DOMAIN t /\ ~(l < l)
  BY <1>1
<1> HIDE DEF t, l
<1>3. IsSignalOf(x, a) => LastSignal(t, a, x.value)
  BY <1>1, <1>2 DEF LastSignal
<1>4. ~IsSignalOf(x, a) /\ NoSignal(s, a) => NoSignal(t, a)
  BY <1>1, <1>2 DEF NoSignal
<1>5. ASSUME ~IsSignalOf(x, a), NEW v, LastSignal(s, a, v) PROVE LastSignal(t, a, v)
  BY <1>1, <1>2, <1>5 DEF LastSignal
<1>6. DOMAIN t = DOMAIN s \cup {l}
  BY <1>2
<1>7. \A i \in DOMAIN s : t[i] = s[i]
  BY <1>1, <1>2
<1> QED
  BY <1>1, <1>3, <1>4, <1>5, <1>6, <1>7 DEF t, l

LEMMA Before ==
  ASSUME NEW S, NEW s \in Seq(S), s # <<>>, NEW a
  PROVE  /\ Tail(s) \in Seq(S) /\ Head(s) \in S /\ Head(s) = s[1] /\ 1 \in DOMAIN s
         /\ \A i \in DOMAIN Tail(s) : i + 1 \in DOMAIN s /\ Tail(s)[i] = s[i + 1]
         /\ NoSignal(s, a) => NoSignal(Tail(s), a)
         /\ \A v : LastSignal(s, a, v) =>
              \/ LastSignal(Tail(s), a, v)
              \/ NoSignal(Tail(s), a) /\ IsSignalOf(Head(s), a) /\ Head(s).value = v
<1> DEFINE t == Tail(s)
<1>1. t \in Seq(S) /\ Head(s) \in S /\ Len(t) = Len(s) - 1 /\ \A i \in 1..Len(t) : t[i] = s[i + 1]
  BY HeadTailProperties
<1>2. Len(s) \in Nat /\ DOMAIN s = 1..Len(s) /\ DOMAIN t = 1..Len(t) /\ Len(t) \in Nat /\ Head(s) = s[1]
  BY <1>1
<1>3. 1 \in DOMAIN s
  BY <1>1, <1>2
<1> HIDE DEF t
<1>4. \A i \in DOMAIN t : i + 1 \in DOMAIN s /\ t[i] = s[i + 1]
  BY <1>1, <1>2
<1>5. NoSignal(s, a) => NoSignal(t, a)
  BY <1>4 DEF NoSignal
<1>6. ASSUME NEW v, LastSignal(s, a, v)
      PROVE  \/ LastSignal(t, a, v)
             \/ NoSignal(t, a) /\ IsSignalOf(Head(s), a) /\ Head(s).value = v
  <2>1. PICK k \in DOMAIN s : /\ IsSignalOf(s[k], a) /\ s[k].value = v
                              /\ \A j \in DOMAIN s : k < j => ~IsSignalOf(s[j], a)
    BY <1>6 DEF LastSignal
  <2>2. CASE k = 1
    <3>1. \A i \in DOMAIN t : k < i + 1
      BY <1>2, <2>2
    <3>2. NoSignal(t, a)
      BY <1>4, <2>1, <3>1 DEF NoSignal
    <3> QED
      BY <1>2, <2>1, <2>2, <3>2
  <2>3. CASE k # 1
    <3>1. k - 1 \in DOMAIN t /\ (k - 1) + 1 = k
      BY <1>1, <1>2, <2>3
    <3>2. \A j \in DOMAIN t : k - 1 < j => k < j + 1
      BY <1>2
    <3>3. IsSignalOf(t[k - 1], a) /\ t[k - 1].value = v
      BY <1>4, <2>1, <3>1
    <3>4. \A j \in DOMAIN t : k - 1 < j => ~IsSignalOf(t[j], a)
      BY <1>4, <2>1, <3>2
    <3> QED
      BY <3>1, <3>3, <3>4 DEF LastSignal
  <2> QED
    BY <2>2, <2>3
<1> QED
  BY <1>1, <1>2, <1>3, <1>4, <1>5, <1>6 DEF t

-----------------------------------------------------------------------------
(* Counting functions in sequences. *)

LEMMA PlacesFinite ==
  ASSUME NEW S, NEW s \in Seq(S), NEW f
  PROVE  IsFiniteSet(Places(f, s)) /\ Times(f, s) \in Nat
<1>1. Places(f, s) \in SUBSET (1..Len(s)) /\ Len(s) \in Nat
  BY DEF Places
<1>2. IsFiniteSet(1..Len(s))
  BY <1>1, FS_Interval
<1>3. IsFiniteSet(Places(f, s))
  BY <1>1, <1>2, FS_Subset
<1> QED
  BY <1>3, FS_CardinalityType DEF Times

LEMMA TimesShort ==
  ASSUME NEW f, NEW g
  PROVE  /\ Times(f, <<>>) = 0
         /\ Times(f, <<g>>) = IF f = g THEN 1 ELSE 0
<1>1. Places(f, <<>>) = {} /\ Places(f, <<g>>) = IF f = g THEN {1} ELSE {}
  BY DEF Places
<1> QED
  BY <1>1, FS_EmptySet, FS_Singleton DEF Times

LEMMA TimesConcat ==
  ASSUME NEW S, NEW s \in Seq(S), NEW t \in Seq(S), NEW f
  PROVE  Times(f, s \o t) = Times(f, s) + Times(f, t)
<1> DEFINE u == s \o t
           A == Places(f, s)
           B == Places(f, t)
           n == Len(s)
           C == {i \in 1..(n + Len(t)) : i > n /\ i - n \in B}
<1>1. u \in Seq(S) /\ Len(u) = n + Len(t)
      /\ \A i \in 1..(n + Len(t)) : u[i] = IF i <= n THEN s[i] ELSE t[i - n]
  BY ConcatProperties
<1>2. /\ n \in Nat /\ Len(t) \in Nat /\ DOMAIN s = 1..n /\ DOMAIN t = 1..Len(t)
      /\ DOMAIN u = 1..(n + Len(t))
  BY <1>1
<1>3. IsFiniteSet(A) /\ IsFiniteSet(B) /\ Cardinality(A) \in Nat /\ Cardinality(B) \in Nat
  BY PlacesFinite, FS_CardinalityType
<1>4. Places(f, u) = A \cup C
  BY <1>1, <1>2 DEF Places
<1>5. A \cap C = {}
  BY <1>2 DEF Places
<1>6. ExistsBijection(B, C)
  <2> DEFINE h == [i \in B |-> i + n]
  <2>0. B \subseteq 1..Len(t)
    BY <1>2 DEF Places
  <2>1. \A i \in B : i + n \in C
    BY <1>2, <2>0
  <2>2. \A i, j \in B : i + n = j + n => i = j
    BY <1>2, <2>0
  <2>3. \A k \in C : \E i \in B : i + n = k
    BY <1>2, <2>0
  <2> HIDE DEF C, B
  <2>4. h \in [B -> C] /\ \A i \in B : h[i] = i + n
    BY <2>1
  <2>5. h \in Injection(B, C)
    BY <2>2, <2>4 DEF Injection, IsInjective
  <2>6. h \in Surjection(B, C)
    BY <2>3, <2>4 DEF Surjection
  <2> QED
    BY <2>5, <2>6 DEF ExistsBijection, Bijection
<1>7. IsFiniteSet(C) /\ Cardinality(C) = Cardinality(B)
  BY <1>3, <1>6, FS_Bijection
<1> HIDE DEF A, B, C, u
<1>8. Cardinality(A \cup C) = Cardinality(A) + Cardinality(C)
  <2>1. Cardinality(A \cup C) = Cardinality(A) + Cardinality(C) - Cardinality(A \cap C)
    BY <1>3, <1>7, FS_Union
  <2>2. Cardinality(A \cap C) = 0
    BY <1>5, FS_EmptySet
  <2> QED
    BY <1>3, <1>7, <2>1, <2>2
<1> QED
  BY <1>4, <1>7, <1>8 DEF Times, A, B, u

LEMMA TimesAppend ==
  ASSUME NEW S, NEW s \in Seq(S), NEW g \in S, NEW f
  PROVE  Times(f, Append(s, g)) = Times(f, s) + Times(f, <<g>>)
<1>1. Append(s, g) = s \o <<g>> /\ <<g>> \in Seq(S)
  BY AppendIsConcat
<1> QED
  BY <1>1, TimesConcat

\* One that is taken out was there once more.
LEMMA TimesErased ==
  ASSUME NEW S, NEW s \in Seq(S), NEW i \in DOMAIN s, NEW f
  PROVE  /\ Erased(s, i) \in Seq(S)
         /\ Times(f, s) = Times(f, Erased(s, i)) + Times(f, <<s[i]>>)
<1>1. Len(s) \in Nat /\ i \in 1..Len(s) /\ s[i] \in S /\ \A j \in 1..Len(s) : s[j] \in S
  OBVIOUS
<1> DEFINE u == SubSeq(s, 1, i - 1)
           v == SubSeq(s, i + 1, Len(s))
<1>2. u \in Seq(S)
  <2>1. \A j \in 1..(i - 1) : s[j] \in S
    BY <1>1
  <2> QED
    BY <1>1, <2>1, SubSeqProperties
<1>3. v \in Seq(S)
  <2>1. \A j \in (i + 1)..Len(s) : s[j] \in S
    BY <1>1
  <2> QED
    BY <1>1, <2>1, SubSeqProperties
<1>4. SubSeq(s, 1, i) = u \o <<s[i]>>
  <2>1. 1 \in 1..Len(s) /\ i \in 1..Len(s)
    BY <1>1
  <2> QED
    BY <1>1, <2>1, SubSeqRecursiveSecond
<1>5. SubSeq(s, 1, i) \o v = s
  <2>1. 1 \in 1..(Len(s) + 1) /\ i \in (1 - 1)..Len(s) /\ Len(s) \in i..Len(s)
    BY <1>1
  <2>2. SubSeq(s, 1, i) \o SubSeq(s, i + 1, Len(s)) = SubSeq(s, 1, Len(s))
    BY <2>1, ConcatAdjacentSubSeq
  <2> QED
    BY <2>2, SubSeqFull
<1> HIDE DEF u, v
<1>6. <<s[i]>> \in Seq(S) /\ u \o <<s[i]>> \in Seq(S)
  BY <1>1, <1>2, ConcatProperties
<1>7. Times(f, s) = (Times(f, u) + Times(f, <<s[i]>>)) + Times(f, v)
  <2>1. s = (u \o <<s[i]>>) \o v
    BY <1>4, <1>5
  <2>2. Times(f, (u \o <<s[i]>>) \o v) = Times(f, u \o <<s[i]>>) + Times(f, v)
    BY <1>3, <1>6, TimesConcat
  <2>3. Times(f, u \o <<s[i]>>) = Times(f, u) + Times(f, <<s[i]>>)
    BY <1>2, <1>6, TimesConcat
  <2> QED
    BY <2>1, <2>2, <2>3
<1>8. Erased(s, i) = u \o v
  BY DEF Erased, RemoveAt, u, v
<1>9. u \o v \in Seq(S)
  BY <1>2, <1>3, ConcatProperties
<1>10. Times(f, u \o v) = Times(f, u) + Times(f, v)
  BY <1>2, <1>3, TimesConcat
<1>11. Times(f, u) \in Nat /\ Times(f, v) \in Nat /\ Times(f, <<s[i]>>) \in Nat
  BY <1>2, <1>3, <1>6, PlacesFinite
<1> QED
  BY <1>7, <1>8, <1>9, <1>10, <1>11

LEMMA ErasedTyped ==
  ASSUME NEW S, NEW s \in Seq(S), NEW i \in DOMAIN s
  PROVE  Erased(s, i) \in Seq(S) /\ <<s[i]>> \in Seq(S)
<1>1. \A f : Erased(s, i) \in Seq(S)
  BY TimesErased
<1>2. s[i] \in S
  OBVIOUS
<1> QED
  BY <1>1, <1>2

\* The first listener that is f, if one is.
LEMMA FirstIs ==
  ASSUME NEW S, NEW s \in Seq(S), NEW f, First(s, f) # 0
  PROVE  First(s, f) \in DOMAIN s /\ s[First(s, f)] = f
<1> DEFINE I == {i \in 1..Len(s) : s[i] = f}
<1>1. First(s, f) = IF I # {} THEN Min(I) ELSE 0
  BY DEF First, SelectInSeq
<1>2. I # {} /\ First(s, f) = Min(I)
  BY <1>1
<1>3. I \subseteq Nat /\ DOMAIN s = 1..Len(s)
  OBVIOUS
<1> HIDE DEF I
<1>4. Min(I) \in I
  BY <1>2, <1>3, Least DEF Min
<1> QED
  BY <1>2, <1>3, <1>4 DEF I

\* What is in a sequence is there at least once.
LEMMA TimesPositive ==
  ASSUME NEW S, NEW s \in Seq(S), NEW f
  PROVE  f \in Range(s) <=> Times(f, s) # 0
<1>1. f \in Range(s) <=> Places(f, s) # {}
  BY DEF Range, Places
<1> QED
  BY <1>1, PlacesFinite, FS_EmptySet DEF Times

-----------------------------------------------------------------------------
(* Counting a function over the slots of all objects. *)

\* Where f is in the sequences s.
Spots(f, s) == UNION {{a} \X Places(f, s[a]) : a \in Addresses}

Spread(f, s) == Cardinality(Spots(f, s))

Lists == [Addresses -> Seq(Functions)]

LEMMA SpotsAre ==
  ASSUME NEW s \in Lists, NEW f
  PROVE  /\ IsFiniteSet(Spots(f, s)) /\ Spread(f, s) \in Nat
         /\ \A a, i : <<a, i>> \in Spots(f, s) <=> a \in Addresses /\ i \in Places(f, s[a])
         /\ \A p \in Spots(f, s) : p = <<p[1], p[2]>>
<1> DEFINE P(a) == {a} \X Places(f, s[a])
           U == {P(a) : a \in Addresses}
<1>1. \A a \in Addresses : s[a] \in Seq(Functions)
  BY DEF Lists
<1>2. \A a \in Addresses : IsFiniteSet(P(a))
  <2> SUFFICES ASSUME NEW a \in Addresses PROVE IsFiniteSet(P(a))
    OBVIOUS
  <2>1. IsFiniteSet(Places(f, s[a])) /\ IsFiniteSet({a})
    BY <1>1, PlacesFinite, FS_Singleton
  <2> QED
    BY <2>1, FS_Product
<1>3. IsFiniteSet(U)
  <2> DEFINE h == [a \in Addresses |-> P(a)]
  <2>1. h \in Surjection(Addresses, U)
    BY DEF Surjection
  <2>2. IsFiniteSet(Addresses)
    BY ObjectsAssumption
  <2> HIDE DEF h, U
  <2> QED
    BY <2>1, <2>2, FS_Surjection
<1>4. IsFiniteSet(UNION U)
  <2>1. \A p \in U : IsFiniteSet(p)
    BY <1>2
  <2> HIDE DEF U
  <2> QED
    BY <1>3, <2>1, FS_UNION
<1>5. Spots(f, s) = UNION U
  BY DEF Spots
<1>6. \A a, i : <<a, i>> \in Spots(f, s) <=> a \in Addresses /\ i \in Places(f, s[a])
  BY DEF Spots
<1>7. \A p \in Spots(f, s) : p = <<p[1], p[2]>>
  BY DEF Spots
<1> QED
  BY <1>4, <1>5, <1>6, <1>7, FS_CardinalityType DEF Spread

\* Fewer places, fewer functions.
LEMMA SpreadLess ==
  ASSUME NEW s \in Lists, NEW t \in Lists, NEW f,
         \A a \in Addresses : Places(f, t[a]) \subseteq Places(f, s[a])
  PROVE  Spread(f, t) <= Spread(f, s)
<1>1. \A p \in Spots(f, t) : p \in Spots(f, s)
  <2> SUFFICES ASSUME NEW p \in Spots(f, t) PROVE p \in Spots(f, s)
    OBVIOUS
  <2>1. p = <<p[1], p[2]>> /\ p[1] \in Addresses /\ p[2] \in Places(f, t[p[1]])
    BY SpotsAre
  <2> QED
    BY <2>1, SpotsAre
<1> QED
  BY <1>1, SpotsAre, FS_Subset DEF Spread

LEMMA SpreadSame ==
  ASSUME NEW s \in Lists, NEW t \in Lists, NEW f,
         \A a \in Addresses : Places(f, t[a]) = Places(f, s[a])
  PROVE  Spread(f, t) = Spread(f, s)
<1>1. Spread(f, t) <= Spread(f, s) /\ Spread(f, s) <= Spread(f, t)
  BY SpreadLess
<1> QED
  BY <1>1, SpotsAre

LEMMA SpreadEmpty ==
  ASSUME NEW s \in Lists, NEW f, \A a \in Addresses : s[a] = <<>>
  PROVE  Spread(f, s) = 0
<1>1. \A a \in Addresses : Places(f, s[a]) = {}
  BY DEF Places
<1>2. Spots(f, s) = {}
  BY <1>1 DEF Spots
<1> QED
  BY <1>2, FS_EmptySet DEF Spread

\* One sequence for another.
LEMMA SpreadExcept ==
  ASSUME NEW s \in Lists, NEW a \in Addresses, NEW x \in Seq(Functions), NEW f
  PROVE  /\ [s EXCEPT ![a] = x] \in Lists
         /\ Spread(f, [s EXCEPT ![a] = x]) + Times(f, s[a]) = Spread(f, s) + Times(f, x)
<1> DEFINE One(y) == {a} \X Places(f, y)
           t == [s EXCEPT ![a] = x]
           R == {p \in Spots(f, s) : p[1] # a}
<1>1. t \in Lists /\ t[a] = x /\ \A b \in Addresses : b # a => t[b] = s[b]
  BY DEF Lists
<1>2. s[a] \in Seq(Functions)
  BY DEF Lists
<1>3. ASSUME NEW y \in Seq(Functions)
      PROVE  IsFiniteSet(One(y)) /\ Cardinality(One(y)) = Times(f, y)
  <2>1. IsFiniteSet(Places(f, y)) /\ IsFiniteSet({a}) /\ Cardinality({a}) = 1
    BY PlacesFinite, FS_Singleton
  <2>2. IsFiniteSet(One(y)) /\ Cardinality(One(y)) = Cardinality({a}) * Cardinality(Places(f, y))
    BY <2>1, FS_Product
  <2>3. Cardinality(Places(f, y)) \in Nat
    BY <2>1, FS_CardinalityType
  <2> QED
    BY <2>1, <2>2, <2>3 DEF Times
<1>4. IsFiniteSet(R)
  <2>1. R \in SUBSET Spots(f, s)
    OBVIOUS
  <2> QED
    BY <2>1, SpotsAre, FS_Subset
<1>5. ASSUME NEW y \in Seq(Functions)
      PROVE  One(y) \cap R = {}
  OBVIOUS
<1>6. Spots(f, s) = One(s[a]) \cup R
  <2>1. \A p \in Spots(f, s) : p \in One(s[a]) \cup R
    <3> SUFFICES ASSUME NEW p \in Spots(f, s), p[1] = a PROVE p \in One(s[a])
      OBVIOUS
    <3>1. p = <<p[1], p[2]>> /\ p[2] \in Places(f, s[p[1]])
      BY SpotsAre
    <3> QED
      BY <3>1
  <2>2. \A p \in One(s[a]) : p \in Spots(f, s)
    BY SpotsAre
  <2> QED
    BY <2>1, <2>2
<1> HIDE DEF t
<1>7. Spots(f, t) = One(x) \cup R
  <2>1. ASSUME NEW p \in Spots(f, t) PROVE p \in One(x) \cup R
    <3>1. p = <<p[1], p[2]>> /\ p[1] \in Addresses /\ p[2] \in Places(f, t[p[1]])
      BY <1>1, SpotsAre
    <3>2. CASE p[1] = a
      BY <1>1, <3>1, <3>2
    <3>3. CASE p[1] # a
      <4>1. p \in Spots(f, s)
        BY <1>1, <3>1, <3>3, SpotsAre
      <4> QED
        BY <3>3, <4>1
    <3> QED
      BY <3>2, <3>3
  <2>2. ASSUME NEW p \in One(x) PROVE p \in Spots(f, t)
    BY <1>1, SpotsAre
  <2>3. ASSUME NEW p \in R PROVE p \in Spots(f, t)
    <3>1. p = <<p[1], p[2]>> /\ p[1] \in Addresses /\ p[2] \in Places(f, s[p[1]]) /\ p[1] # a
      BY SpotsAre
    <3> QED
      BY <1>1, <3>1, SpotsAre
  <2> QED
    BY <2>1, <2>2, <2>3
<1>8. ASSUME NEW y \in Seq(Functions)
      PROVE  Cardinality(One(y) \cup R) = Times(f, y) + Cardinality(R)
  <2>0. IsFiniteSet(One(y)) /\ Cardinality(One(y)) = Times(f, y) /\ One(y) \cap R = {}
    BY <1>3, <1>5
  <2> HIDE DEF One, R
  <2>1. Cardinality(One(y) \cup R) = Cardinality(One(y)) + Cardinality(R) - Cardinality(One(y) \cap R)
    BY <1>4, <2>0, FS_Union
  <2>2. Cardinality(One(y) \cap R) = 0
    BY <2>0, FS_EmptySet
  <2>3. Times(f, y) \in Nat /\ Cardinality(R) \in Nat
    BY <1>4, PlacesFinite, FS_CardinalityType
  <2> QED
    BY <2>0, <2>1, <2>2, <2>3
<1>9. Times(f, x) \in Nat /\ Times(f, s[a]) \in Nat /\ Cardinality(R) \in Nat
  BY <1>2, <1>4, PlacesFinite, FS_CardinalityType
<1> HIDE DEF One, R
<1>10. Spread(f, t) = Times(f, x) + Cardinality(R) /\ Spread(f, s) = Times(f, s[a]) + Cardinality(R)
  BY <1>2, <1>6, <1>7, <1>8 DEF Spread
<1> QED
  BY <1>1, <1>9, <1>10 DEF t

-----------------------------------------------------------------------------
(* The invariant. *)

Holders == {"value", "methods", "worker", "task"} \cup Addresses

TaskTypes == [kind : {"signal", "topic"}, object : Addresses, value : 0..MaxActs]

SlotTypes ==
    /\ topics \in [Addresses -> Seq(Functions)]
    /\ \A a \in DOMAIN registers : registers[a] \in Seq(Functions)
    /\ \A a \in DOMAIN valueHolders : valueHolders[a] \in Functions \cup {None}

EventTypes ==
    /\ unsent \in [Addresses -> BOOLEAN]
    /\ setters \in [Addresses -> SUBSET {"script", "worker"}]
    /\ tasks \in Seq(TaskTypes)
    /\ publishing \in Publications \cup {None}
    /\ calling # None => publishing # None

\* Which maps know which address, and who holds the object there.
Lives ==
    /\ \A a \in Addresses : attached[a] <=> "value" \in refs[a]
    /\ \A a, b \in Addresses : b \in refs[a] => attached[b]
    /\ hooks = {a \in Addresses : attached[a]}
    /\ DOMAIN valueHolders \cup DOMAIN refHolders \subseteq hooks
    /\ \A a \in DOMAIN registers : refs[a] # {}
    /\ \A a \in Addresses : unsent[a] => "worker" \in refs[a]
    /\ \A i \in DOMAIN tasks :
         /\ refs[tasks[i].object] # {}
         /\ tasks[i].kind = "topic" => "task" \in refs[tasks[i].object]

\* The functions to call are among the copies, which are counted.
Copied ==
    publishing # None /\ ~IsSignal =>
        Range(publishing.todo) \cup Range(Field(calling)) \subseteq Range(publishing.copies)

\* Only functions that came too late are with an object that is collected.
Orphans ==
    \A a \in Addresses : ~attached[a] => Range(Slots(a)) \subseteq late

\* The last signal in the queue, or else the last one told, has the value that
\* the property has; only the worker sends any.
Current ==
    \A a \in Addresses :
        /\ "worker" \notin setters[a] => NoSignal(tasks, a) /\ ~unsent[a]
        /\ attached[a] =>
             /\ "worker" \notin setters[a] => told[a] = value[a]
             /\ "script" \notin setters[a] /\ ~unsent[a] =>
                  \/ NoSignal(tasks, a) /\ told[a] = value[a]
                  \/ LastSignal(tasks, a, value[a])

\* The types, but a count might be negative.
Typed ==
    /\ made \in 0..MaxObjects /\ acts \in 0..MaxActs
    /\ attached \in [Addresses -> BOOLEAN]
    /\ refs \in [Addresses -> SUBSET Holders]
    /\ DOMAIN valueHolders \cup DOMAIN refHolders \cup DOMAIN registers \cup hooks
         \subseteq Addresses
    /\ counts \in [Functions -> Int]
    /\ script \subseteq Functions /\ late \subseteq Functions
    /\ value \in [Addresses -> 0..MaxActs] /\ told \in [Addresses -> 0..MaxActs]
    /\ calling \in Functions \cup {None}
    /\ SlotTypes
    /\ EventTypes

IInv == Typed /\ Lives /\ RefsBalanced /\ Copied /\ Orphans /\ Current

LEMMA TaskIs ==
  ASSUME Typed
  PROVE  /\ tasks \in Seq(TaskTypes)
         /\ \A i \in DOMAIN tasks :
              /\ tasks[i].object \in Addresses /\ tasks[i].kind \in {"signal", "topic"}
              /\ tasks[i].value \in 0..MaxActs
<1>1. tasks \in Seq(TaskTypes)
  BY DEF Typed, EventTypes
<1>2. \A i \in DOMAIN tasks : tasks[i] \in TaskTypes
  BY <1>1
<1>3. \A t \in TaskTypes : t.object \in Addresses /\ t.kind \in {"signal", "topic"} /\ t.value \in 0..MaxActs
  BY DEF TaskTypes
<1> QED
  BY <1>1, <1>2, <1>3

-----------------------------------------------------------------------------
(* A release. *)

Dead(r) == {a \in Addresses : refs[a] # {} /\ r[a] = {}}

\* Objects that hold others are attached themselves: who is dead holds nobody.
LEMMA Released ==
  ASSUME Typed, NEW r \in [Addresses -> SUBSET Holders], NEW regs, NEW holders,
         \A a, b \in Addresses : b \in r[a] => r[b] # {},
         Release(r, regs, holders)
  PROVE  /\ refs' = r
         /\ registers' = Without(regs, Dead(r)) /\ refHolders' = Without(holders, Dead(r))
         /\ tasks' \in Seq(TaskTypes)
         /\ \A i \in DOMAIN tasks' : \E j \in DOMAIN tasks :
              /\ tasks'[i] = tasks[j]
              /\ tasks[j].kind = "topic" \/ tasks[j].object \notin Dead(r)
         /\ \A a : NoSignal(tasks, a) => NoSignal(tasks', a)
         /\ \A a, v : a \notin Dead(r) /\ LastSignal(tasks, a, v) => LastSignal(tasks', a, v)
<1> DEFINE K == Unaffected(Dead(r))
<1>1. tasks \in Seq(TaskTypes)
  BY DEF Typed, EventTypes
<1>2. tasks' = Among(tasks, K)
  BY DEF Release, Dead
<1>3. \A j \in DOMAIN tasks : tasks[j] \in K <=> tasks[j].kind = "topic" \/ tasks[j].object \notin Dead(r)
  BY DEF Unaffected, Range
<1> HIDE DEF K
<1>4. /\ tasks' \in Seq(TaskTypes)
      /\ \A i \in DOMAIN tasks' : \E j \in DOMAIN tasks : tasks'[i] = tasks[j] /\ tasks[j] \in K
      /\ \A a : NoSignal(tasks, a) => NoSignal(tasks', a)
      /\ \A a, v : /\ \A j \in DOMAIN tasks : IsSignalOf(tasks[j], a) => tasks[j] \in K
                   /\ LastSignal(tasks, a, v)
                   => LastSignal(tasks', a, v)
  BY <1>1, <1>2, AmongLeaves
<1>5. ASSUME NEW a, a \notin Dead(r), NEW v, LastSignal(tasks, a, v)
      PROVE  LastSignal(tasks', a, v)
  <2>1. \A j \in DOMAIN tasks : IsSignalOf(tasks[j], a) => tasks[j] \in K
    BY <1>3, <1>5 DEF IsSignalOf
  <2> QED
    BY <1>4, <1>5, <2>1
<1>6. refs' = r
  <2>1. refs' = [a \in Addresses |-> r[a] \ Dead(r)]
    BY DEF Release, Dead
  <2>2. \A a \in Addresses : r[a] \ Dead(r) = r[a]
    BY DEF Dead
  <2> QED
    BY <2>1, <2>2
<1>7. registers' = Without(regs, Dead(r)) /\ refHolders' = Without(holders, Dead(r))
  BY DEF Release, Dead
<1> QED
  BY <1>3, <1>4, <1>5, <1>6, <1>7

\* What a release leaves is in order if what it is given is.
LEMMA ReleaseLives ==
  ASSUME Typed, Lives, NEW r \in [Addresses -> SUBSET Holders], NEW regs, NEW holders,
         Release(r, regs, holders),
         \A a \in Addresses : attached'[a] <=> "value" \in r[a],
         \A a, b \in Addresses : b \in r[a] => attached'[b],
         hooks' = {a \in Addresses : attached'[a]},
         DOMAIN valueHolders' \cup DOMAIN holders \subseteq hooks',
         DOMAIN regs \subseteq DOMAIN registers,
         \A a \in Addresses : unsent'[a] => "worker" \in r[a],
         \A i \in DOMAIN tasks : tasks[i].kind = "topic" => "task" \in r[tasks[i].object]
  PROVE  Lives'
<1>1. \A a, b \in Addresses : b \in r[a] => r[b] # {}
  OBVIOUS
<1>2. /\ refs' = r
      /\ registers' = Without(regs, Dead(r)) /\ refHolders' = Without(holders, Dead(r))
      /\ \A i \in DOMAIN tasks' : \E j \in DOMAIN tasks :
              /\ tasks'[i] = tasks[j]
              /\ tasks[j].kind = "topic" \/ tasks[j].object \notin Dead(r)
  BY <1>1, Released
<1>3. ASSUME NEW a \in DOMAIN registers' PROVE refs'[a] # {}
  <2>1. a \in DOMAIN registers /\ a \notin Dead(r)
    BY <1>2 DEF Without
  <2>2. a \in Addresses /\ refs[a] # {}
    BY <2>1 DEF Lives, Typed
  <2> QED
    BY <1>2, <2>1, <2>2 DEF Dead
<1>4. ASSUME NEW i \in DOMAIN tasks'
      PROVE  /\ refs'[tasks'[i].object] # {}
             /\ tasks'[i].kind = "topic" => "task" \in refs'[tasks'[i].object]
  <2>1. PICK j \in DOMAIN tasks : /\ tasks'[i] = tasks[j]
                                  /\ tasks[j].kind = "topic" \/ tasks[j].object \notin Dead(r)
    BY <1>2
  <2>2. tasks[j] \in TaskTypes
    BY DEF Typed, EventTypes
  <2>3. tasks[j].object \in Addresses /\ refs[tasks[j].object] # {}
    BY <2>2 DEF TaskTypes, Lives
  <2> QED
    BY <1>2, <2>1, <2>3 DEF Dead
<1>5. DOMAIN refHolders' \subseteq DOMAIN holders
  BY <1>2 DEF Without
<1> QED
  BY <1>2, <1>3, <1>4, <1>5 DEF Lives

\* Who holds each object when h lets go of that at a.
Less(a, h) == [refs EXCEPT ![a] = @ \ {h}]

LEMMA Dropped ==
  ASSUME Typed, Lives, NEW a \in Addresses, NEW h \in {"methods", "worker", "task"}, Drop(a, h)
  PROVE  /\ Less(a, h) \in [Addresses -> SUBSET Holders]
         /\ \A b, c \in Addresses : c \in Less(a, h)[b] => Less(a, h)[c] # {}
         /\ \A b \in Addresses : attached[b] <=> "value" \in Less(a, h)[b]
         /\ \A b, c \in Addresses : c \in Less(a, h)[b] => attached[c]
         /\ Release(Less(a, h), registers, refHolders)
<1> DEFINE r == Less(a, h)
<1>1. r \in [Addresses -> SUBSET Holders] /\ \A b \in Addresses : r[b] \subseteq refs[b]
  BY DEF Typed, Less
<1>2. h # "value"
  OBVIOUS
<1>3. \A b \in Addresses : attached[b] <=> "value" \in r[b]
  BY <1>2 DEF Typed, Lives, Less
<1>4. \A b, c \in Addresses : c \in r[b] => attached[c]
  BY <1>1 DEF Lives
<1>5. Release(r, registers, refHolders)
  BY DEF Drop, Less
<1> QED
  BY <1>1, <1>3, <1>4, <1>5

\* The object at a holds no other any more, which the others feel.
LEMMA Loosened ==
  ASSUME Typed, Lives, NEW a \in Addresses
  PROVE  /\ OthersHeld(a) \in [Addresses -> SUBSET Holders]
         /\ \A b \in Addresses : OthersHeld(a)[b] = refs[b] \ {a}
         /\ \A b \in Addresses : attached[b] <=> "value" \in OthersHeld(a)[b]
         /\ \A b, c \in Addresses : c \in OthersHeld(a)[b] => attached[c] /\ c # a
<1>1. OthersHeld(a) \in [Addresses -> SUBSET Holders] /\ \A b \in Addresses : OthersHeld(a)[b] = refs[b] \ {a}
  BY DEF Typed, OthersHeld
<1>2. a # "value"
  BY ObjectsAssumption
<1> QED
  BY <1>1, <1>2 DEF Lives

\* Who holds each object when that of a gives back what it holds, and more.
Collected(a) == [OthersHeld(a) EXCEPT ![a] = @ \ {"value"}]

Linked(a, b) == [OthersHeld(a) EXCEPT ![b] = @ \cup {a}]

LEMMA CollectReleases ==
  ASSUME Typed, Lives, NEW a \in Addresses, Collect(a)
  PROVE  /\ Collected(a) \in [Addresses -> SUBSET Holders]
         /\ \A b, c \in Addresses : c \in Collected(a)[b] => Collected(a)[c] # {}
         /\ Release(Collected(a), IF a \in DOMAIN registers THEN Put(registers, a, <<>>) ELSE registers,
                    Without(refHolders, {a}))
         /\ \A b \in Addresses : attached'[b] <=> "value" \in Collected(a)[b]
         /\ \A b, c \in Addresses : c \in Collected(a)[b] => attached'[c]
         /\ \A b \in Addresses : "worker" \in refs[b] => "worker" \in Collected(a)[b]
         /\ \A b \in Addresses : "task" \in refs[b] => "task" \in Collected(a)[b]
<1> DEFINE r == Collected(a)
<1>1. /\ r \in [Addresses -> SUBSET Holders]
      /\ \A b \in Addresses : r[b] = refs[b] \ (IF b = a THEN {a, "value"} ELSE {a})
  BY Loosened DEF Collected
<1>2. attached' = [attached EXCEPT ![a] = FALSE]
  BY DEF Collect
<1>3. a # "value" /\ a # "worker" /\ a # "task"
  BY ObjectsAssumption
<1> HIDE DEF r
<1>4. \A b \in Addresses : attached'[b] <=> "value" \in r[b]
  BY <1>1, <1>2, <1>3 DEF Typed, Lives
<1>5. \A b, c \in Addresses : c \in r[b] => attached'[c]
  BY <1>1, <1>2 DEF Typed, Lives
<1>6. \A b \in Addresses : ("worker" \in refs[b] => "worker" \in r[b]) /\ ("task" \in refs[b] => "task" \in r[b])
  BY <1>1, <1>3
<1>7. Release(r, IF a \in DOMAIN registers THEN Put(registers, a, <<>>) ELSE registers,
                    Without(refHolders, {a}))
  BY DEF Collect, r, Collected
<1> QED
  BY <1>1, <1>4, <1>5, <1>6, <1>7 DEF r

LEMMA SetRefReleases ==
  ASSUME Typed, Lives, NEW a \in Addresses, NEW b \in Addresses, SetRef(a, b)
  PROVE  /\ Linked(a, b) \in [Addresses -> SUBSET Holders]
         /\ \A x, y \in Addresses : y \in Linked(a, b)[x] => Linked(a, b)[y] # {}
         /\ Release(Linked(a, b), registers, Put(refHolders, a, b))
         /\ \A x \in Addresses : attached[x] <=> "value" \in Linked(a, b)[x]
         /\ \A x, y \in Addresses : y \in Linked(a, b)[x] => attached[y]
         /\ \A x \in Addresses : "worker" \in refs[x] => "worker" \in Linked(a, b)[x]
         /\ \A x \in Addresses : "task" \in refs[x] => "task" \in Linked(a, b)[x]
<1> DEFINE r == Linked(a, b)
<1>1. /\ r \in [Addresses -> SUBSET Holders]
      /\ \A x \in Addresses : r[x] = IF x = b THEN (refs[x] \ {a}) \cup {a} ELSE refs[x] \ {a}
  <2>1. /\ OthersHeld(a) \in [Addresses -> SUBSET Holders]
        /\ \A x \in Addresses : OthersHeld(a)[x] = refs[x] \ {a}
    BY Loosened
  <2>2. a \in Holders
    BY DEF Holders
  <2>3. r \in [Addresses -> SUBSET Holders]
    BY <2>1, <2>2 DEF Linked
  <2> QED
    BY <2>1, <2>3 DEF Linked
<1>2. a # "value" /\ a # "worker" /\ a # "task"
  BY ObjectsAssumption
<1>3. attached[a]
  BY DEF SetRef, Holdable
<1>4. Release(r, registers, Put(refHolders, a, b))
  BY DEF SetRef, Linked
<1> HIDE DEF r
<1>5. \A x \in Addresses : attached[x] <=> "value" \in r[x]
  BY <1>1, <1>2 DEF Lives
<1>6. \A x, y \in Addresses : y \in r[x] => attached[y]
  BY <1>1, <1>3 DEF Lives
<1>7. \A x \in Addresses : ("worker" \in refs[x] => "worker" \in r[x]) /\ ("task" \in refs[x] => "task" \in r[x])
  BY <1>1, <1>2
<1> QED
  BY <1>1, <1>4, <1>5, <1>6, <1>7 DEF r

LEMMA RemoveRefReleases ==
  ASSUME Typed, Lives, NEW a \in Addresses, RemoveRef(a)
  PROVE  /\ OthersHeld(a) \in [Addresses -> SUBSET Holders]
         /\ \A x, y \in Addresses : y \in OthersHeld(a)[x] => OthersHeld(a)[y] # {}
         /\ Release(OthersHeld(a), registers, Put(refHolders, a, None))
         /\ \A x \in Addresses : attached[x] <=> "value" \in OthersHeld(a)[x]
         /\ \A x, y \in Addresses : y \in OthersHeld(a)[x] => attached[y]
         /\ \A x \in Addresses : "worker" \in refs[x] => "worker" \in OthersHeld(a)[x]
         /\ \A x \in Addresses : "task" \in refs[x] => "task" \in OthersHeld(a)[x]
<1>1. a # "worker" /\ a # "task"
  BY ObjectsAssumption
<1>2. \A x, y \in Addresses : y \in OthersHeld(a)[x] => OthersHeld(a)[y] # {}
  BY Loosened
<1>3. Release(OthersHeld(a), registers, Put(refHolders, a, None))
  BY DEF RemoveRef
<1> QED
  BY <1>1, <1>2, <1>3, Loosened

-----------------------------------------------------------------------------
(* Who may be known. *)

\* A step that lets nobody go.
LEMMA LivesKept ==
  ASSUME Typed, Lives, attached' = attached, hooks' = hooks,
         \A a \in Addresses : refs[a] \subseteq refs'[a] /\ refs'[a] \subseteq refs[a] \cup {"worker", "task"},
         DOMAIN valueHolders' \cup DOMAIN refHolders' \subseteq hooks,
         \A a \in DOMAIN registers' : a \in Addresses /\ refs[a] # {},
         \A a \in Addresses : unsent'[a] => "worker" \in refs'[a],
         \A i \in DOMAIN tasks' :
           \/ \E j \in DOMAIN tasks : tasks'[i] = tasks[j]
           \/ /\ refs'[tasks'[i].object] # {}
              /\ tasks'[i].kind = "topic" => "task" \in refs'[tasks'[i].object]
  PROVE  Lives'
<1>1. "value" \notin {"worker", "task"} /\ \A a \in Addresses : a \notin {"worker", "task"}
  BY ObjectsAssumption
<1>2. \A a \in Addresses : attached'[a] <=> "value" \in refs'[a]
  BY <1>1 DEF Lives
<1>3. \A a, b \in Addresses : b \in refs'[a] => attached'[b]
  BY <1>1 DEF Lives
<1>4. \A a \in DOMAIN registers' : refs'[a] # {}
  OBVIOUS
<1>5. ASSUME NEW i \in DOMAIN tasks'
      PROVE  /\ refs'[tasks'[i].object] # {}
             /\ tasks'[i].kind = "topic" => "task" \in refs'[tasks'[i].object]
  <2>1. CASE \E j \in DOMAIN tasks : tasks'[i] = tasks[j]
    <3>1. PICK j \in DOMAIN tasks : tasks'[i] = tasks[j]
      BY <2>1
    <3>2. tasks[j].object \in Addresses
      BY TaskIs
    <3> QED
      BY <3>1, <3>2 DEF Lives
  <2> QED
    BY <2>1
<1>6. hooks' = {a \in Addresses : attached'[a]}
  BY DEF Lives
<1>7. DOMAIN valueHolders' \cup DOMAIN refHolders' \subseteq hooks'
  OBVIOUS
<1> QED
  BY <1>2, <1>3, <1>4, <1>5, <1>6, <1>7 DEF Lives

LEMMA LivesLife ==
  ASSUME Typed, Lives, NEW a \in Addresses, Life(a)
  PROVE  Lives'
<1>1. CASE NewInstance(a)
  <2>1. /\ refs' = [refs EXCEPT ![a] = {"value", "methods"}] /\ refs[a] = {}
        /\ attached' = [attached EXCEPT ![a] = TRUE] /\ hooks' = hooks \cup {a}
        /\ unsent' = [unsent EXCEPT ![a] = FALSE]
        /\ UNCHANGED <<valueHolders, refHolders, registers, tasks>>
    BY <1>1 DEF NewInstance, Constructed, Attach, OnInit, HookGC
  <2>2. \A b \in Addresses : b \notin {"value", "methods"}
    BY ObjectsAssumption
  <2>3. \A b \in Addresses : attached'[b] <=> "value" \in refs'[b]
    BY <2>1 DEF Typed, Lives
  <2>4. \A b, c \in Addresses : c \in refs'[b] => attached'[c]
    BY <2>1, <2>2 DEF Typed, Lives
  <2>5. hooks' = {b \in Addresses : attached'[b]}
    BY <2>1 DEF Typed, Lives
  <2>6. \A b \in DOMAIN registers' : refs'[b] # {}
    BY <2>1 DEF Typed, Lives
  <2>7. \A b \in Addresses : unsent'[b] => "worker" \in refs'[b]
    BY <2>1 DEF Typed, Lives, EventTypes
  <2>8. \A i \in DOMAIN tasks : tasks[i].object \in Addresses
    BY TaskIs
  <2>9. \A i \in DOMAIN tasks' :
         /\ refs'[tasks'[i].object] # {}
         /\ tasks'[i].kind = "topic" => "task" \in refs'[tasks'[i].object]
    BY <2>1, <2>8 DEF Typed, Lives
  <2> QED
    BY <2>1, <2>3, <2>4, <2>5, <2>6, <2>7, <2>9 DEF Lives
<1>2. CASE Collect(a)
  <2>1. /\ attached' = [attached EXCEPT ![a] = FALSE] /\ hooks' = hooks \ {a}
        /\ valueHolders' = Without(valueHolders, {a}) /\ attached[a]
        /\ UNCHANGED unsent
    BY <1>2 DEF Collect, property
  <2>2. hooks' = {b \in Addresses : attached'[b]}
    BY <2>1 DEF Typed, Lives
  <2>3. DOMAIN valueHolders' \cup DOMAIN Without(refHolders, {a}) \subseteq hooks'
    BY <2>1 DEF Lives, Without
  <2>4. DOMAIN (IF a \in DOMAIN registers THEN Put(registers, a, <<>>) ELSE registers) \subseteq DOMAIN registers
    BY DEF Put
  <2>5. \A b \in Addresses : unsent'[b] => "worker" \in Collected(a)[b]
    BY <1>2, <2>1, CollectReleases DEF Lives
  <2>6. \A i \in DOMAIN tasks : tasks[i].kind = "topic" => "task" \in Collected(a)[tasks[i].object]
    <3>1. \A i \in DOMAIN tasks : tasks[i].object \in Addresses
      BY TaskIs
    <3> QED
      BY <1>2, <3>1, CollectReleases DEF Lives
  <2> QED
    BY <1>2, <2>2, <2>3, <2>4, <2>5, <2>6, CollectReleases, ReleaseLives
<1>3. CASE FreeMethods(a) \/ LetGo(a)
  <2>1. /\ UNCHANGED <<attached, hooks, valueHolders, unsent>>
        /\ \E h \in {"methods", "worker"} : Drop(a, h) /\ (h = "worker" => ~unsent[a])
    BY <1>3 DEF FreeMethods, LetGo, property
  <2>2. PICK h \in {"methods", "worker"} : Drop(a, h) /\ (h = "worker" => ~unsent[a])
    BY <2>1
  <2>3. \A b \in Addresses : unsent'[b] => "worker" \in Less(a, h)[b]
    BY <2>1, <2>2 DEF Less, Lives, Typed
  <2>4. \A i \in DOMAIN tasks : tasks[i].kind = "topic" => "task" \in Less(a, h)[tasks[i].object]
    <3>1. \A i \in DOMAIN tasks : tasks[i].object \in Addresses
      BY TaskIs
    <3> QED
      BY <3>1 DEF Less, Lives, Typed
  <2>5. DOMAIN valueHolders \cup DOMAIN refHolders \subseteq hooks /\ hooks = {b \in Addresses : attached[b]}
    BY DEF Lives
  <2> QED
    BY <2>1, <2>2, <2>3, <2>4, <2>5, Dropped, ReleaseLives
<1>4. CASE Take(a)
  <2>1. /\ refs' = [refs EXCEPT ![a] = @ \cup {"worker"}]
        /\ UNCHANGED <<attached, hooks, valueHolders, refHolders, registers, unsent, tasks>>
    BY <1>4 DEF Take, maps, property
  <2> QED
    BY <2>1, LivesKept DEF Lives, Typed
<1> QED
  BY <1>1, <1>2, <1>3, <1>4 DEF Life

LEMMA LivesHold ==
  ASSUME Typed, Lives, NEW a \in Addresses, Hold(a)
  PROVE  Lives'
<1>0. \A i \in DOMAIN tasks : tasks[i].object \in Addresses
  BY TaskIs
<1>1. CASE \E f \in Functions : SetValue(a, f)
  <2>1. /\ UNCHANGED <<attached, refs, refHolders, registers, hooks, unsent, tasks>>
        /\ DOMAIN valueHolders' = DOMAIN valueHolders \cup {a} /\ attached[a]
    BY <1>1 DEF SetValue, Holdable, Put, property
  <2> QED
    BY <2>1, LivesKept DEF Lives, Typed
<1>2. CASE RemoveValue(a)
  <2>1. /\ UNCHANGED <<attached, refs, refHolders, registers, hooks, unsent, tasks>>
        /\ DOMAIN valueHolders' = DOMAIN valueHolders \cup {a} /\ attached[a]
    BY <1>2 DEF RemoveValue, Holdable, Put, property
  <2> QED
    BY <2>1, LivesKept DEF Lives, Typed
<1>3. ASSUME NEW b \in Addresses, SetRef(a, b) PROVE Lives'
  <2>1. UNCHANGED <<attached, hooks, valueHolders, unsent>> /\ attached[a]
    BY <1>3 DEF SetRef, Holdable, property
  <2>2. \A x \in Addresses : unsent'[x] => "worker" \in Linked(a, b)[x]
    BY <1>3, <2>1, SetRefReleases DEF Lives
  <2>3. \A i \in DOMAIN tasks : tasks[i].kind = "topic" => "task" \in Linked(a, b)[tasks[i].object]
    BY <1>0, <1>3, SetRefReleases DEF Lives
  <2>4. DOMAIN valueHolders \cup DOMAIN Put(refHolders, a, b) \subseteq hooks /\ hooks = {x \in Addresses : attached[x]}
    BY <2>1 DEF Lives, Put
  <2> QED
    BY <1>3, <2>1, <2>2, <2>3, <2>4, SetRefReleases, ReleaseLives
<1>4. CASE RemoveRef(a)
  <2>1. UNCHANGED <<attached, hooks, valueHolders, unsent>> /\ attached[a]
    BY <1>4 DEF RemoveRef, Holdable, property
  <2>2. \A x \in Addresses : unsent'[x] => "worker" \in OthersHeld(a)[x]
    BY <1>4, <2>1, RemoveRefReleases DEF Lives
  <2>3. \A i \in DOMAIN tasks : tasks[i].kind = "topic" => "task" \in OthersHeld(a)[tasks[i].object]
    BY <1>0, <1>4, RemoveRefReleases DEF Lives
  <2>4. DOMAIN valueHolders \cup DOMAIN Put(refHolders, a, None) \subseteq hooks /\ hooks = {x \in Addresses : attached[x]}
    BY <2>1 DEF Lives, Put
  <2> QED
    BY <1>4, <2>1, <2>2, <2>3, <2>4, RemoveRefReleases, ReleaseLives
<1> QED
  BY <1>1, <1>2, <1>3, <1>4 DEF Hold

LEMMA LivesListen ==
  ASSUME Typed, Lives, NEW a \in Addresses, Listen(a)
  PROVE  Lives'
<1>1. /\ UNCHANGED <<attached, refs, valueHolders, refHolders, hooks, unsent, tasks>>
      /\ DOMAIN registers' \subseteq DOMAIN registers \cup {a} /\ refs[a] # {}
  <2>1. CASE \E f \in Functions : On(a, f) \/ OnTopic(a, f)
    BY <2>1 DEF On, OnTopic, Methods, Put, property
  <2>2. CASE Off(a)
    BY <2>2 DEF Off, OffAt, Methods, Put, property
  <2>3. CASE OffTopic(a)
    BY <2>3 DEF OffTopic, Methods, property
  <2> QED
    BY <2>1, <2>2, <2>3 DEF Listen
<1> QED
  BY <1>1, LivesKept DEF Lives, Typed

\* A signal that is told holds its object.
LEMMA SignalHolds ==
  ASSUME Typed, NEW a \in Addresses, NEW v, Signal(a, v)
  PROVE  /\ refs' \in [Addresses -> SUBSET Holders]
         /\ \A b \in Addresses : refs[b] \subseteq refs'[b] /\ refs'[b] \subseteq refs[b] \cup {"worker", "task"}
<1>1. refs' = refs \/ refs' = [refs EXCEPT ![a] = @ \cup {"task"}]
  BY DEF Signal
<1> QED
  BY <1>1 DEF Typed, Holders

LEMMA LivesEmit ==
  ASSUME Typed, Lives, NEW a \in Addresses, Emit(a)
  PROVE  Lives'
<1>1. CASE SetProperty(a)
  <2>1. /\ UNCHANGED <<attached, hooks, valueHolders, refHolders, registers, unsent, tasks>>
        /\ Signal(a, value'[a])
    BY <1>1 DEF SetProperty, maps
  <2>2. \A b \in Addresses : refs[b] \subseteq refs'[b] /\ refs'[b] \subseteq refs[b] \cup {"worker", "task"}
    BY <2>1, SignalHolds
  <2> QED
    BY <2>1, <2>2, LivesKept DEF Lives, Typed
<1>2. CASE WorkerSets(a)
  <2>1. /\ UNCHANGED <<attached, refs, hooks, valueHolders, refHolders, registers, tasks>>
        /\ unsent' = [unsent EXCEPT ![a] = TRUE] /\ "worker" \in refs[a]
    BY <1>2 DEF WorkerSets, maps
  <2>2. \A b \in Addresses : unsent'[b] => "worker" \in refs'[b]
    BY <2>1 DEF Typed, EventTypes, Lives
  <2> QED
    BY <2>1, <2>2, LivesKept DEF Lives, Typed
<1>3. CASE WorkerEmits(a)
  <2> DEFINE t == Task("signal", a, value[a])
  <2>1. /\ UNCHANGED <<attached, refs, hooks, valueHolders, refHolders, registers>>
        /\ unsent' = [unsent EXCEPT ![a] = FALSE] /\ unsent[a]
        /\ tasks' = Append(tasks, t)
    BY <1>3 DEF WorkerEmits, maps, Queued
  <2>2. \A b \in Addresses : unsent'[b] => "worker" \in refs'[b]
    BY <2>1 DEF Typed, EventTypes, Lives
  <2>3. t \in TaskTypes /\ t.object = a /\ t.kind = "signal"
    BY DEF TaskTypes, Task, Typed
  <2>4. tasks \in Seq(TaskTypes) /\ refs'[a] # {}
    BY <2>1 DEF Typed, EventTypes, Lives
  <2> HIDE DEF t
  <2>5. \A i \in DOMAIN tasks' :
           \/ \E j \in DOMAIN tasks : tasks'[i] = tasks[j]
           \/ /\ refs'[tasks'[i].object] # {}
              /\ tasks'[i].kind = "topic" => "task" \in refs'[tasks'[i].object]
    BY <2>1, <2>3, <2>4, Behind
  <2> QED
    BY <2>1, <2>2, <2>5, LivesKept DEF Lives, Typed
<1>4. CASE PublishAtOnce(a)
  <2>1. UNCHANGED <<attached, refs, hooks, valueHolders, refHolders, registers, unsent, tasks>>
    BY <1>4 DEF PublishAtOnce, maps, property
  <2> QED
    BY <2>1, LivesKept DEF Lives, Typed
<1>5. CASE WorkerPublishes(a)
  <2> DEFINE t == Task("topic", a, 0)
  <2>1. /\ UNCHANGED <<attached, hooks, valueHolders, refHolders, registers, unsent>>
        /\ tasks' = Append(tasks, t)
        /\ refs' = [refs EXCEPT ![a] = @ \cup {"task"}]
    BY <1>5 DEF WorkerPublishes, maps, Queued, property
  <2>2. t \in TaskTypes /\ t.object = a
    <3>1. 0 \in 0..MaxActs
      BY ObjectsAssumption
    <3> QED
      BY <3>1 DEF TaskTypes, Task
  <2>3. tasks \in Seq(TaskTypes) /\ "task" \in refs'[a]
    BY <2>1 DEF Typed, EventTypes
  <2> HIDE DEF t
  <2>4. \A i \in DOMAIN tasks' :
           \/ \E j \in DOMAIN tasks : tasks'[i] = tasks[j]
           \/ /\ refs'[tasks'[i].object] # {}
              /\ tasks'[i].kind = "topic" => "task" \in refs'[tasks'[i].object]
    BY <2>1, <2>2, <2>3, Behind
  <2>5. \A b \in Addresses : refs[b] \subseteq refs'[b] /\ refs'[b] \subseteq refs[b] \cup {"worker", "task"}
    BY <2>1 DEF Typed
  <2> QED
    BY <2>1, <2>4, <2>5, LivesKept DEF Lives, Typed
<1> QED
  BY <1>1, <1>2, <1>3, <1>4, <1>5 DEF Emit

LEMMA LivesScript ==
  ASSUME Typed, Lives, Deliver \/ CallListener \/ Return \/ Finish \/ \E f \in Functions : Forget(f)
  PROVE  Lives'
<1>0. tasks \in Seq(TaskTypes) /\ \A i \in DOMAIN tasks : tasks[i].object \in Addresses
  BY TaskIs
<1>1. CASE Deliver
  <2>1. /\ UNCHANGED <<attached, hooks, valueHolders, refHolders, registers, unsent>>
        /\ tasks # <<>> /\ tasks' = Tail(tasks)
        /\ Signal(Head(tasks).object, Head(tasks).value) \/ refs' = refs
    BY <1>1 DEF Deliver, maps
  <2>2. Head(tasks).object \in Addresses
    BY <1>0, <2>1, Before
  <2>3. \A i \in DOMAIN tasks' : \E j \in DOMAIN tasks : tasks'[i] = tasks[j]
    BY <1>0, <2>1, Before
  <2>4. \A b \in Addresses : refs[b] \subseteq refs'[b] /\ refs'[b] \subseteq refs[b] \cup {"worker", "task"}
    BY <2>1, <2>2, SignalHolds
  <2> QED
    BY <2>1, <2>3, <2>4, LivesKept DEF Lives, Typed
<1>2. CASE CallListener \/ Return \/ \E f \in Functions : Forget(f)
  <2>1. UNCHANGED <<attached, refs, hooks, valueHolders, refHolders, registers, unsent, tasks>>
    BY <1>2 DEF CallListener, Return, Forget, maps, property
  <2> QED
    BY <2>1, LivesKept DEF Lives, Typed
<1>3. CASE Finish
  <2> DEFINE a == publishing.object
  <2>1. /\ UNCHANGED <<attached, hooks, valueHolders, unsent>>
        /\ publishing # None /\ IF Waiting(a) THEN UNCHANGED <<refs, registers, refHolders, tasks>> ELSE Drop(a, "task")
    BY <1>3 DEF Finish, property
  <2>2. a \in Addresses
    BY <2>1 DEF Typed, EventTypes, Publications
  <2> HIDE DEF a
  <2>3. CASE Waiting(a)
    BY <2>1, <2>3, LivesKept DEF Lives, Typed
  <2>4. CASE ~Waiting(a)
    <3>1. \A b \in Addresses : unsent'[b] => "worker" \in Less(a, "task")[b]
      BY <2>1 DEF Less, Lives, Typed
    <3>2. \A i \in DOMAIN tasks : tasks[i].kind = "topic" => "task" \in Less(a, "task")[tasks[i].object]
      <4>1. \A i \in DOMAIN tasks : tasks[i].kind = "topic" => tasks[i].object # a
        BY <2>4 DEF Waiting
      <4> QED
        BY <1>0, <4>1 DEF Less, Lives, Typed
    <3>3. DOMAIN valueHolders \cup DOMAIN refHolders \subseteq hooks /\ hooks = {b \in Addresses : attached[b]}
      BY DEF Lives
    <3> QED
      BY <2>1, <2>2, <2>4, <3>1, <3>2, <3>3, Dropped, ReleaseLives
  <2> QED
    BY <2>3, <2>4
<1> QED
  BY <1>1, <1>2, <1>3

LEMMA LivesStep == Typed /\ Lives /\ Next => Lives'
  BY LivesLife, LivesHold, LivesListen, LivesEmit, LivesScript DEF Next

-----------------------------------------------------------------------------
(* Types. *)

LEMMA EntryTypes ==
  ASSUME Typed, NEW a \in Addresses
  PROVE  /\ Entry(registers, a, <<>>) \in Seq(Functions)
         /\ Field(Entry(valueHolders, a, None)) \in Seq(Functions)
         /\ Hooked(a) \in Seq(Functions) /\ topics[a] \in Seq(Functions)
BY DEF Typed, SlotTypes, Entry, Field, Hooked

LEMMA CountsTyped ==
  ASSUME counts \in [Functions -> Int], NEW s \in Seq(Functions), Dup(s) \/ FreeEach(s)
  PROVE  counts' \in [Functions -> Int]
<1>1. \A f \in Functions : Times(f, s) \in Nat
  BY PlacesFinite
<1> QED
  BY <1>1 DEF Dup, FreeEach

LEMMA TypedRelease ==
  ASSUME Typed, NEW r \in [Addresses -> SUBSET Holders], NEW regs, NEW holders,
         \A a, b \in Addresses : b \in r[a] => r[b] # {},
         Release(r, regs, holders),
         DOMAIN regs \cup DOMAIN holders \subseteq Addresses,
         \A a \in DOMAIN regs : regs[a] \in Seq(Functions)
  PROVE  /\ refs' \in [Addresses -> SUBSET Holders]
         /\ DOMAIN refHolders' \cup DOMAIN registers' \subseteq Addresses
         /\ \A a \in DOMAIN registers' : registers'[a] \in Seq(Functions)
         /\ tasks' \in Seq(TaskTypes)
<1>1. /\ refs' = r /\ tasks' \in Seq(TaskTypes)
      /\ registers' = Without(regs, Dead(r)) /\ refHolders' = Without(holders, Dead(r))
  BY Released
<1> QED
  BY <1>1 DEF Without

LEMMA TypedLife ==
  ASSUME Typed, Lives, NEW a \in Addresses, Life(a)
  PROVE  Typed'
<1>1. CASE NewInstance(a)
  <2>1. 0 \in 0..MaxActs /\ made' \in 0..MaxObjects
    BY <1>1, ObjectsAssumption DEF NewInstance, Typed
  <2>2. refs' \in [Addresses -> SUBSET Holders]
    BY <1>1 DEF NewInstance, Typed, Holders
  <2>3. <<>> \in Seq(Functions)
    OBVIOUS
  <2>4. topics' \in [Addresses -> Seq(Functions)] /\ setters' \in [Addresses -> SUBSET {"script", "worker"}]
        /\ unsent' \in [Addresses -> BOOLEAN]
        /\ value' \in [Addresses -> 0..MaxActs] /\ told' \in [Addresses -> 0..MaxActs]
    BY <1>1, <2>1, <2>3 DEF NewInstance, Constructed, Typed, SlotTypes, EventTypes
  <2>5. attached' \in [Addresses -> BOOLEAN] /\ hooks' \subseteq Addresses
    BY <1>1 DEF NewInstance, Attach, OnInit, HookGC, Typed
  <2>6. UNCHANGED <<acts, valueHolders, refHolders, registers, counts, script, tasks, publication, late>>
    BY <1>1 DEF NewInstance
  <2> QED
    BY <2>1, <2>2, <2>4, <2>5, <2>6 DEF Typed, SlotTypes, EventTypes, publication
<1>2. CASE Collect(a)
  <2> DEFINE regs == IF a \in DOMAIN registers THEN Put(registers, a, <<>>) ELSE registers
             s == Hooked(a) \o Field(Entry(valueHolders, a, None)) \o Entry(registers, a, <<>>)
  <2>1. s \in Seq(Functions) /\ FreeEach(s)
    <3>1. FreeEach(s)
      BY <1>2 DEF Collect
    <3> QED
      BY <3>1, EntryTypes, ConcatProperties
  <2>2. counts' \in [Functions -> Int]
    <3> HIDE DEF s
    <3> QED
      BY <2>1, CountsTyped DEF Typed
  <2>3. DOMAIN regs \cup DOMAIN Without(refHolders, {a}) \subseteq Addresses
        /\ \A b \in DOMAIN regs : regs[b] \in Seq(Functions)
    <3>1. <<>> \in Seq(Functions)
      OBVIOUS
    <3> QED
      BY <3>1 DEF Put, Without, Typed, SlotTypes
  <2>4. Release(Collected(a), regs, Without(refHolders, {a}))
    BY <1>2, CollectReleases
  <2> HIDE DEF regs
  <2>5. /\ refs' \in [Addresses -> SUBSET Holders]
        /\ DOMAIN refHolders' \cup DOMAIN registers' \subseteq Addresses
        /\ \A b \in DOMAIN registers' : registers'[b] \in Seq(Functions)
        /\ tasks' \in Seq(TaskTypes)
    BY <1>2, <2>3, <2>4, CollectReleases, TypedRelease
  <2>6. topics' \in [Addresses -> Seq(Functions)] /\ attached' \in [Addresses -> BOOLEAN]
        /\ hooks' \subseteq Addresses /\ valueHolders' = Without(valueHolders, {a})
        /\ UNCHANGED <<counters, script, property, publication, late>>
    <3>1. <<>> \in Seq(Functions)
      OBVIOUS
    <3> QED
      BY <1>2, <3>1 DEF Collect, Typed, SlotTypes
  <2> QED
    BY <2>2, <2>5, <2>6 DEF Typed, SlotTypes, EventTypes, Without, counters, property, publication
<1>3. CASE FreeMethods(a) \/ LetGo(a)
  <2>1. /\ UNCHANGED <<counters, attached, valueHolders, hooks, topics, counts, script,
                   property, publication, late>>
        /\ \E h \in {"methods", "worker"} : Drop(a, h)
    BY <1>3 DEF FreeMethods, LetGo
  <2>2. PICK h \in {"methods", "worker"} : Drop(a, h)
    BY <2>1
  <2>3. /\ refs' \in [Addresses -> SUBSET Holders]
        /\ DOMAIN refHolders' \cup DOMAIN registers' \subseteq Addresses
        /\ \A b \in DOMAIN registers' : registers'[b] \in Seq(Functions)
        /\ tasks' \in Seq(TaskTypes)
    <3>1. DOMAIN registers \cup DOMAIN refHolders \subseteq Addresses
          /\ \A b \in DOMAIN registers : registers[b] \in Seq(Functions)
      BY DEF Typed, SlotTypes
    <3> QED
      BY <2>2, <3>1, Dropped, TypedRelease
  <2> QED
    BY <2>1, <2>3 DEF Typed, SlotTypes, EventTypes, counters, property, publication
<1>4. CASE Take(a)
  BY <1>4 DEF Take, Typed, SlotTypes, EventTypes, counters, maps, property, publication, Holders
<1> QED
  BY <1>1, <1>2, <1>3, <1>4 DEF Life

LEMMA ActTyped ==
  ASSUME Typed, Act
  PROVE  acts' \in 0..MaxActs
BY ObjectsAssumption DEF Typed, Act

LEMMA TypedHold ==
  ASSUME Typed, Lives, NEW a \in Addresses, Hold(a)
  PROVE  Typed'
<1>1. ASSUME NEW f \in Functions, SetValue(a, f) PROVE Typed'
  <2>1. acts' \in 0..MaxActs
    BY <1>1, ActTyped DEF SetValue
  <2>2. counts' \in [Functions -> Int]
    <3> DEFINE old == Field(Entry(valueHolders, a, None))
    <3>1. old \in Seq(Functions) /\ <<f>> \in Seq(Functions)
      BY EntryTypes
    <3>2. counts' = [g \in Functions |-> counts[g] + Times(g, <<f>>) - Times(g, old)]
      BY <1>1 DEF SetValue
    <3> HIDE DEF old
    <3>3. \A g \in Functions : Times(g, <<f>>) \in Nat /\ Times(g, old) \in Nat
      BY <3>1, PlacesFinite
    <3> QED
      BY <3>2, <3>3 DEF Typed
  <2>3. /\ valueHolders' = Put(valueHolders, a, f)
        /\ UNCHANGED <<made, attached, refs, refHolders, registers, hooks, topics,
                   script, property, tasks, publication, late>>
    BY <1>1 DEF SetValue
  <2> QED
    BY <2>1, <2>2, <2>3 DEF Typed, SlotTypes, EventTypes, Put, property, publication
<1>2. CASE RemoveValue(a)
  <2>1. counts' \in [Functions -> Int]
    <3>1. <<valueHolders[a]>> \in Seq(Functions) /\ FreeEach(<<valueHolders[a]>>)
      BY <1>2 DEF RemoveValue, Entry, Typed, SlotTypes
    <3> QED
      BY <3>1, CountsTyped DEF Typed
  <2>2. /\ valueHolders' = Put(valueHolders, a, None)
        /\ UNCHANGED <<counters, attached, refs, refHolders, registers, hooks, topics,
                   script, property, tasks, publication, late>>
    BY <1>2 DEF RemoveValue
  <2> QED
    BY <2>1, <2>2 DEF Typed, SlotTypes, EventTypes, Put, counters, property, publication
<1>3. ASSUME NEW b \in Addresses, SetRef(a, b) PROVE Typed'
  <2>1. acts' \in 0..MaxActs
    BY <1>3, ActTyped DEF SetRef
  <2>2. UNCHANGED <<made, attached, valueHolders, hooks, topics, counts, script,
                   property, publication, late>>
    BY <1>3 DEF SetRef
  <2>3. DOMAIN registers \cup DOMAIN Put(refHolders, a, b) \subseteq Addresses
        /\ \A x \in DOMAIN registers : registers[x] \in Seq(Functions)
    BY DEF Typed, SlotTypes, Put
  <2>4. /\ refs' \in [Addresses -> SUBSET Holders]
        /\ DOMAIN refHolders' \cup DOMAIN registers' \subseteq Addresses
        /\ \A x \in DOMAIN registers' : registers'[x] \in Seq(Functions)
        /\ tasks' \in Seq(TaskTypes)
    <3> DEFINE r == Linked(a, b)
    <3>1. /\ r \in [Addresses -> SUBSET Holders]
          /\ \A x, y \in Addresses : y \in r[x] => r[y] # {}
          /\ Release(r, registers, Put(refHolders, a, b))
      BY <1>3, SetRefReleases
    <3> HIDE DEF r
    <3> QED
      BY <2>3, <3>1, TypedRelease
  <2> QED
    BY <2>1, <2>2, <2>4 DEF Typed, SlotTypes, EventTypes, property, publication
<1>4. CASE RemoveRef(a)
  <2>2. UNCHANGED <<counters, attached, valueHolders, hooks, topics, counts, script,
                   property, publication, late>>
    BY <1>4 DEF RemoveRef
  <2>3. DOMAIN registers \cup DOMAIN Put(refHolders, a, None) \subseteq Addresses
        /\ \A x \in DOMAIN registers : registers[x] \in Seq(Functions)
    BY DEF Typed, SlotTypes, Put
  <2>4. /\ refs' \in [Addresses -> SUBSET Holders]
        /\ DOMAIN refHolders' \cup DOMAIN registers' \subseteq Addresses
        /\ \A x \in DOMAIN registers' : registers'[x] \in Seq(Functions)
        /\ tasks' \in Seq(TaskTypes)
    BY <1>4, <2>3, RemoveRefReleases, TypedRelease
  <2> QED
    BY <2>2, <2>4 DEF Typed, SlotTypes, EventTypes, counters, property, publication
<1> QED
  BY <1>1, <1>2, <1>3, <1>4 DEF Hold

LEMMA TypedListen ==
  ASSUME Typed, Lives, NEW a \in Addresses, Listen(a)
  PROVE  Typed'
<1>0. <<>> \in Seq(Functions) /\ DOMAIN topics = Addresses
  BY DEF Typed, SlotTypes
<1>1. ASSUME NEW f \in Functions, Entered(a, f)
      PROVE  acts' \in 0..MaxActs /\ counts' \in [Functions -> Int] /\ late' \subseteq Functions
  <2>1. <<f>> \in Seq(Functions) /\ Dup(<<f>>)
    BY <1>1 DEF Entered
  <2>2. counts' \in [Functions -> Int]
    BY <2>1, CountsTyped DEF Typed
  <2> QED
    BY <1>1, <2>2, ActTyped DEF Entered, Typed
<1>2. ASSUME NEW f \in Functions, On(a, f) PROVE Typed'
  <2>1. Append(Entry(registers, a, <<>>), f) \in Seq(Functions)
    BY EntryTypes, AppendProperties
  <2>2. /\ registers' = Put(registers, a, Append(Entry(registers, a, <<>>), f))
        /\ UNCHANGED <<made, attached, refs, valueHolders, refHolders,
                   hooks, topics, script, property, tasks, publication>>
        /\ Entered(a, f)
    BY <1>2 DEF On
  <2> QED
    BY <1>1, <2>1, <2>2 DEF Typed, SlotTypes, EventTypes, Put, property, publication
<1>3. ASSUME NEW f \in Functions, OnTopic(a, f) PROVE Typed'
  <2>1. Append(topics[a], f) \in Seq(Functions)
    BY EntryTypes, AppendProperties
  <2>2. /\ topics' = [topics EXCEPT ![a] = Append(@, f)]
        /\ UNCHANGED <<made, attached, refs, valueHolders, refHolders,
                   registers, hooks, script, property, tasks, publication>>
        /\ Entered(a, f)
    BY <1>3 DEF OnTopic
  <2>3. topics' \in [Addresses -> Seq(Functions)]
    BY <2>1, <2>2 DEF Typed, SlotTypes
  <2> QED
    BY <1>1, <2>2, <2>3 DEF Typed, SlotTypes, EventTypes, property, publication
<1>4. CASE Off(a)
  <2>1. /\ a \in DOMAIN registers /\ registers[a] \in Seq(Functions)
        /\ UNCHANGED <<counters, attached, refs, valueHolders, refHolders, hooks, topics,
                   script, property, tasks, publication, late>>
    BY <1>4 DEF Off, Typed, SlotTypes
  <2>2. ASSUME NEW i \in DOMAIN registers[a], OffAt(a, i)
        PROVE  counts' \in [Functions -> Int] /\ \E s \in Seq(Functions) : registers' = Put(registers, a, s)
    <3>1. Erased(registers[a], i) \in Seq(Functions) /\ <<registers[a][i]>> \in Seq(Functions)
      BY <2>1, <2>2, ErasedTyped
    <3> QED
      BY <2>2, <3>1, CountsTyped DEF OffAt, Typed
  <2>3. counts' \in [Functions -> Int] /\ \E s \in Seq(Functions) : registers' = Put(registers, a, s)
    <3>1. CASE \E i \in DOMAIN registers[a] : OffAt(a, i)
      BY <2>2, <3>1
    <3>2. CASE \E f \in script : LET i == First(registers[a], f) IN i # 0 /\ OffAt(a, i)
      BY <2>1, <2>2, <3>2, FirstIs
    <3>3. CASE registers' = Put(registers, a, <<>>) /\ FreeEach(registers[a])
      BY <1>0, <2>1, <3>3, CountsTyped DEF Typed
    <3> QED
      BY <1>4, <3>1, <3>2, <3>3 DEF Off
  <2> QED
    BY <2>1, <2>3 DEF Typed, SlotTypes, EventTypes, Put, counters, property, publication
<1>5. CASE OffTopic(a)
  <2>1. /\ topics[a] \in Seq(Functions)
        /\ UNCHANGED <<counters, attached, refs, valueHolders, refHolders, registers, hooks,
                   script, property, tasks, publication, late>>
    BY <1>5 DEF OffTopic, Typed, SlotTypes
  <2>2. ASSUME NEW i \in DOMAIN topics[a], OffTopicAt(a, i)
        PROVE  counts' \in [Functions -> Int] /\ \E s \in Seq(Functions) : topics' = [topics EXCEPT ![a] = s]
    <3>1. Erased(topics[a], i) \in Seq(Functions) /\ <<topics[a][i]>> \in Seq(Functions)
      BY <2>1, <2>2, ErasedTyped
    <3> QED
      BY <2>2, <3>1, CountsTyped DEF OffTopicAt, Typed
  <2>3. counts' \in [Functions -> Int] /\ \E s \in Seq(Functions) : topics' = [topics EXCEPT ![a] = s]
    <3>1. CASE \E i \in DOMAIN topics[a] : OffTopicAt(a, i)
      BY <2>2, <3>1
    <3>2. CASE \E f \in script : LET i == First(topics[a], f) IN i # 0 /\ OffTopicAt(a, i)
      BY <2>1, <2>2, <3>2, FirstIs
    <3>3. CASE topics' = [topics EXCEPT ![a] = <<>>] /\ FreeEach(topics[a])
      BY <1>0, <2>1, <3>3, CountsTyped DEF Typed
    <3> QED
      BY <1>5, <3>1, <3>2, <3>3 DEF OffTopic
  <2> QED
    BY <2>1, <2>3 DEF Typed, SlotTypes, EventTypes, counters, property, publication
<1> QED
  BY <1>2, <1>3, <1>4, <1>5 DEF Listen

LEMMA PublishTyped ==
  ASSUME NEW k \in {"signal", "now", "task"}, NEW a \in Addresses, NEW s \in Seq(Functions),
         Publish(k, a, s)
  PROVE  /\ publishing' \in Publications /\ publishing' # None
         /\ publishing'.kind = k /\ publishing'.object = a
         /\ publishing'.todo = s /\ publishing'.copies = s
<1>1. publishing' \in Publications
  BY DEF Publish, Publications
<1>2. publishing' # None
  BY <1>1, ObjectsAssumption
<1> QED
  BY <1>1, <1>2 DEF Publish

LEMMA SignalTyped ==
  ASSUME Typed, NEW a \in Addresses, NEW v \in 0..MaxActs, Signal(a, v)
  PROVE  /\ told' \in [Addresses -> 0..MaxActs]
         /\ (publishing' \in Publications /\ publishing' # None) \/ publishing' = publishing
<1>1. told' \in [Addresses -> 0..MaxActs]
  BY DEF Signal, Typed
<1>2. CASE attached[a] /\ Entry(registers, a, <<>>) # <<>>
  <2>1. registers[a] \in Seq(Functions)
    BY <1>2, EntryTypes DEF Entry
  <2>2. Publish("signal", a, registers[a])
    BY <1>2 DEF Signal
  <2> QED
    BY <1>1, <2>1, <2>2, PublishTyped
<1>3. CASE ~(attached[a] /\ Entry(registers, a, <<>>) # <<>>)
  BY <1>1, <1>3 DEF Signal
<1> QED
  BY <1>2, <1>3

LEMMA OnPublishTyped ==
  ASSUME Typed, NEW k \in {"now", "task"}, NEW a \in Addresses, OnPublish(k, a)
  PROVE  /\ publishing' \in Publications /\ publishing' # None
         /\ counts' \in [Functions -> Int]
<1> DEFINE s == IF attached[a] THEN topics[a] ELSE <<>>
<1>1. s \in Seq(Functions)
  <2>1. <<>> \in Seq(Functions)
    BY EmptySeq
  <2> QED
    BY <2>1, EntryTypes
<1>2. Publish(k, a, s) /\ Dup(s)
  BY DEF OnPublish, TakeCopies
<1> HIDE DEF s
<1> QED
  BY <1>1, <1>2, PublishTyped, CountsTyped DEF Typed

LEMMA TypedEmit ==
  ASSUME Typed, Lives, NEW a \in Addresses, Emit(a)
  PROVE  Typed'
<1>0. tasks \in Seq(TaskTypes) /\ 0 \in 0..MaxActs
  BY TaskIs, ObjectsAssumption
<1>1. CASE SetProperty(a)
  <2>1. acts' \in 0..MaxActs
    BY <1>1, ActTyped DEF SetProperty, Changed
  <2>2. /\ value' \in [Addresses -> 0..MaxActs] /\ value'[a] \in 0..MaxActs
        /\ setters' \in [Addresses -> SUBSET {"script", "worker"}]
    BY <1>1, <2>1 DEF SetProperty, Changed, Typed, EventTypes
  <2>3. /\ Signal(a, value'[a]) /\ publishing = None
        /\ UNCHANGED <<made, attached, maps, counts, script, unsent, tasks, calling, late>>
    BY <1>1 DEF SetProperty
  <2>4. /\ told' \in [Addresses -> 0..MaxActs]
        /\ (publishing' \in Publications /\ publishing' # None) \/ publishing' = publishing
    BY <2>2, <2>3, SignalTyped
  <2>5. refs' \in [Addresses -> SUBSET Holders]
    BY <2>3, SignalHolds
  <2> QED
    BY <2>1, <2>2, <2>3, <2>4, <2>5 DEF Typed, SlotTypes, EventTypes, maps
<1>2. CASE WorkerSets(a)
  <2>1. acts' \in 0..MaxActs
    BY <1>2, ActTyped DEF WorkerSets, Changed
  <2>2. /\ value' \in [Addresses -> 0..MaxActs]
        /\ setters' \in [Addresses -> SUBSET {"script", "worker"}]
        /\ unsent' \in [Addresses -> BOOLEAN]
        /\ UNCHANGED <<made, attached, refs, maps, counts, script, told, tasks, publication, late>>
    BY <1>2, <2>1 DEF WorkerSets, Changed, Typed, EventTypes
  <2> QED
    BY <2>1, <2>2 DEF Typed, SlotTypes, EventTypes, maps, publication
<1>3. CASE WorkerEmits(a)
  <2> DEFINE t == Task("signal", a, value[a])
  <2>1. t \in TaskTypes
    BY DEF TaskTypes, Task, Typed
  <2>2. tasks' = Append(tasks, t)
    BY <1>3 DEF WorkerEmits, Queued
  <2> HIDE DEF t
  <2>3. tasks' \in Seq(TaskTypes)
    BY <1>0, <2>1, <2>2
  <2>4. /\ unsent' \in [Addresses -> BOOLEAN]
        /\ UNCHANGED <<counters, attached, refs, maps, counts, script, value, setters, told,
                   publication, late>>
    BY <1>3 DEF WorkerEmits, Typed, EventTypes
  <2> QED
    BY <2>3, <2>4 DEF Typed, SlotTypes, EventTypes, counters, maps, publication
<1>4. CASE PublishAtOnce(a)
  <2>1. acts' \in 0..MaxActs
    BY <1>4, ActTyped DEF PublishAtOnce
  <2>2. /\ publishing' \in Publications /\ publishing' # None
        /\ counts' \in [Functions -> Int]
    BY <1>4, OnPublishTyped DEF PublishAtOnce
  <2>3. UNCHANGED <<made, attached, refs, maps, script, property, tasks, calling, late>>
    BY <1>4 DEF PublishAtOnce
  <2> QED
    BY <2>1, <2>2, <2>3 DEF Typed, SlotTypes, EventTypes, maps, property
<1>5. CASE WorkerPublishes(a)
  <2> DEFINE t == Task("topic", a, 0)
  <2>1. t \in TaskTypes
    BY <1>0 DEF TaskTypes, Task
  <2>2. tasks' = Append(tasks, t)
    BY <1>5 DEF WorkerPublishes, Queued
  <2> HIDE DEF t
  <2>3. tasks' \in Seq(TaskTypes)
    BY <1>0, <2>1, <2>2
  <2>4. acts' \in 0..MaxActs
    BY <1>5, ActTyped DEF WorkerPublishes
  <2>5. /\ refs' \in [Addresses -> SUBSET Holders]
        /\ UNCHANGED <<made, attached, maps, counts, script, property, publication, late>>
    BY <1>5 DEF WorkerPublishes, Typed, Holders
  <2> QED
    BY <2>3, <2>4, <2>5 DEF Typed, SlotTypes, EventTypes, maps, property, publication
<1> QED
  BY <1>1, <1>2, <1>3, <1>4, <1>5 DEF Emit

LEMMA PublicationIs ==
  ASSUME Typed, publishing # None
  PROVE  /\ publishing \in Publications
         /\ publishing.kind \in {"signal", "now", "task"} /\ publishing.object \in Addresses
         /\ publishing.todo \in Seq(Functions) /\ publishing.copies \in Seq(Functions)
BY DEF Typed, EventTypes, Publications

LEMMA TypedScript ==
  ASSUME Typed, Lives, Deliver \/ CallListener \/ Return \/ Finish \/ \E f \in Functions : Forget(f)
  PROVE  Typed'
<1>0. tasks \in Seq(TaskTypes)
  BY TaskIs
<1>1. CASE Deliver
  <2> DEFINE t == Head(tasks)
  <2>1. /\ tasks # <<>> /\ tasks' = Tail(tasks) /\ publishing = None
        /\ UNCHANGED <<counters, attached, maps, script, value, unsent, setters, calling, late>>
    BY <1>1 DEF Deliver
  <2>2. t.object \in Addresses /\ t.value \in 0..MaxActs /\ tasks' \in Seq(TaskTypes)
    BY <1>0, <2>1, Before, TaskIs
  <2>3. \/ Signal(t.object, t.value) /\ UNCHANGED counts
        \/ OnPublish("task", t.object) /\ UNCHANGED <<refs, told>>
    BY <1>1 DEF Deliver
  <2> HIDE DEF t
  <2>4. CASE Signal(t.object, t.value) /\ UNCHANGED counts
    <3>1. /\ told' \in [Addresses -> 0..MaxActs]
          /\ (publishing' \in Publications /\ publishing' # None) \/ publishing' = publishing
      BY <2>2, <2>4, SignalTyped
    <3>2. refs' \in [Addresses -> SUBSET Holders]
      BY <2>2, <2>4, SignalHolds
    <3> QED
      BY <2>1, <2>2, <2>4, <3>1, <3>2 DEF Typed, SlotTypes, EventTypes, counters, maps
  <2>5. CASE OnPublish("task", t.object) /\ UNCHANGED <<refs, told>>
    <3>1. /\ publishing' \in Publications /\ publishing' # None
          /\ counts' \in [Functions -> Int]
      BY <2>2, <2>5, OnPublishTyped
    <3> QED
      BY <2>1, <2>2, <2>5, <3>1 DEF Typed, SlotTypes, EventTypes, counters, maps
  <2> QED
    BY <2>3, <2>4, <2>5
<1>2. CASE CallListener
  <2> DEFINE f == Head(publishing.todo)
  <2>1. /\ publishing # None /\ publishing.todo # <<>> /\ calling' = f
        /\ publishing' = [publishing EXCEPT !.todo = Tail(@)]
        /\ UNCHANGED <<counters, attached, refs, maps, script, property, tasks, late>>
        /\ Dup(<<calling'>>) \/ UNCHANGED counts
    BY <1>2 DEF CallListener
  <2>2. f \in Functions /\ Tail(publishing.todo) \in Seq(Functions)
    BY <2>1, PublicationIs, HeadTailProperties
  <2>3. publishing' \in Publications
    BY <2>1, <2>2 DEF Typed, EventTypes, Publications
  <2>4. publishing' # None
    BY <2>3, ObjectsAssumption
  <2> HIDE DEF f
  <2>5. counts' \in [Functions -> Int]
    <3>1. <<f>> \in Seq(Functions)
      BY <2>2
    <3> QED
      BY <2>1, <3>1, CountsTyped DEF Typed
  <2> QED
    BY <2>1, <2>2, <2>3, <2>4, <2>5 DEF Typed, SlotTypes, EventTypes, counters, maps, property
<1>3. CASE Return
  <2>1. /\ calling # None /\ calling' = None
        /\ publishing' = publishing \/ publishing' = [publishing EXCEPT !.todo = <<>>]
        /\ UNCHANGED <<counters, attached, refs, maps, script, property, tasks, late>>
        /\ FreeEach(<<calling>>) \/ UNCHANGED counts
    BY <1>3 DEF Return
  <2>2. publishing # None /\ <<>> \in Seq(Functions)
    BY <2>1 DEF Typed, EventTypes
  <2>3. publishing' \in Publications
    BY <2>1, <2>2 DEF Typed, EventTypes, Publications
  <2>4. counts' \in [Functions -> Int]
    <3>1. <<calling>> \in Seq(Functions)
      BY <2>1 DEF Typed
    <3> QED
      BY <2>1, <3>1, CountsTyped DEF Typed
  <2> QED
    BY <2>1, <2>3, <2>4 DEF Typed, SlotTypes, EventTypes, counters, maps, property
<1>4. CASE Finish
  <2> DEFINE a == publishing.object
  <2>1. /\ publishing # None /\ publishing' = None /\ calling = None
        /\ FreeEach(publishing.copies) \/ UNCHANGED counts
        /\ UNCHANGED <<refs, registers, refHolders, tasks>> \/ Drop(a, "task")
        /\ UNCHANGED <<counters, attached, valueHolders, hooks, topics, script, property,
                   calling, late>>
    BY <1>4 DEF Finish
  <2>2. a \in Addresses /\ counts' \in [Functions -> Int]
    BY <2>1, PublicationIs, CountsTyped DEF Typed
  <2> HIDE DEF a
  <2>3. /\ refs' \in [Addresses -> SUBSET Holders]
        /\ DOMAIN refHolders' \cup DOMAIN registers' \subseteq Addresses
        /\ \A x \in DOMAIN registers' : registers'[x] \in Seq(Functions)
        /\ tasks' \in Seq(TaskTypes)
    <3>1. /\ refs \in [Addresses -> SUBSET Holders]
          /\ DOMAIN registers \cup DOMAIN refHolders \subseteq Addresses
          /\ \A x \in DOMAIN registers : registers[x] \in Seq(Functions)
      BY DEF Typed, SlotTypes
    <3>2. CASE UNCHANGED <<refs, registers, refHolders, tasks>>
      BY <1>0, <3>1, <3>2
    <3>3. CASE Drop(a, "task")
      BY <2>2, <3>1, <3>3, Dropped, TypedRelease
    <3> QED
      BY <2>1, <3>2, <3>3
  <2> QED
    BY <2>1, <2>2, <2>3 DEF Typed, SlotTypes, EventTypes, counters, property
<1>5. CASE \E f \in Functions : Forget(f)
  BY <1>5 DEF Forget, Typed, SlotTypes, EventTypes, counters, maps, property, publication
<1> QED
  BY <1>1, <1>2, <1>3, <1>4, <1>5

LEMMA TypedStep == Typed /\ Lives /\ Next => Typed'
  BY TypedLife, TypedHold, TypedListen, TypedEmit, TypedScript DEF Next

-----------------------------------------------------------------------------
(* The slots of all objects. *)

Row == [a \in Addresses |-> Slots(a)]

RowTyped ==
    /\ Row \in Lists
    /\ Here \in Seq(Functions)
    /\ \A a \in Addresses : Slots(a) \in Seq(Functions) /\ Row[a] = Slots(a)
    /\ \A f : Owned(f) = Times(f, Here) + Spread(f, Row) /\ Times(f, Here) \in Nat /\ Spread(f, Row) \in Nat
    /\ \A a \in Addresses : \A f :
         /\ Times(f, Slots(a)) = Times(f, topics[a]) + Times(f, Entry(registers, a, <<>>))
                                   + Times(f, Field(Entry(valueHolders, a, None)))
         /\ Times(f, topics[a]) \in Nat /\ Times(f, Entry(registers, a, <<>>)) \in Nat
         /\ Times(f, Field(Entry(valueHolders, a, None))) \in Nat

LEMMA RowIs == Typed => RowTyped
<1> SUFFICES ASSUME Typed PROVE RowTyped
  OBVIOUS
<1>1. ASSUME NEW a \in Addresses
      PROVE  /\ Slots(a) \in Seq(Functions)
             /\ \A f :
                /\ Times(f, Slots(a)) = Times(f, topics[a]) + Times(f, Entry(registers, a, <<>>))
                                          + Times(f, Field(Entry(valueHolders, a, None)))
                /\ Times(f, topics[a]) \in Nat /\ Times(f, Entry(registers, a, <<>>)) \in Nat
                /\ Times(f, Field(Entry(valueHolders, a, None))) \in Nat
  <2> DEFINE x == topics[a]
             y == Entry(registers, a, <<>>)
             z == Field(Entry(valueHolders, a, None))
  <2>1. x \in Seq(Functions) /\ y \in Seq(Functions) /\ z \in Seq(Functions)
    BY EntryTypes
  <2>2. Slots(a) = (x \o y) \o z
    BY DEF Slots
  <2> HIDE DEF x, y, z
  <2>3. x \o y \in Seq(Functions) /\ (x \o y) \o z \in Seq(Functions)
    BY <2>1, ConcatProperties
  <2>4. \A f : /\ Times(f, x \o y) = Times(f, x) + Times(f, y)
               /\ Times(f, (x \o y) \o z) = Times(f, x \o y) + Times(f, z)
    BY <2>1, <2>3, TimesConcat
  <2>5. \A f : Times(f, x) \in Nat /\ Times(f, y) \in Nat /\ Times(f, z) \in Nat
    BY <2>1, PlacesFinite
  <2> QED
    BY <2>2, <2>3, <2>4, <2>5 DEF x, y, z
<1>2. Row \in Lists /\ \A a \in Addresses : Row[a] = Slots(a)
  BY <1>1 DEF Row, Lists
<1>3. Here \in Seq(Functions)
  <2>1. CASE publishing = None
    BY <2>1 DEF Here
  <2>2. CASE publishing # None
    <3>1. Field(calling) \in Seq(Functions)
      BY DEF Field, Typed
    <3>2. publishing.copies \in Seq(Functions)
      BY <2>2, PublicationIs
    <3> QED
      BY <2>2, <3>1, <3>2 DEF Here
  <2> QED
    BY <2>1, <2>2
<1>4. \A f : Times(f, Here) \in Nat /\ Spread(f, Row) \in Nat
  BY <1>2, <1>3, PlacesFinite, SpotsAre
<1>5. \A f : Owned(f) = Times(f, Here) + Spread(f, Row)
  BY <1>2 DEF Owned, Spread, Spots
<1> QED
  BY <1>1, <1>2, <1>3, <1>4, <1>5 DEF RowTyped

LEMMA RowIsNext == Typed' => RowTyped'
  BY RowIs, PTL

LEMMA NoneOf ==
  ASSUME NEW s \in Seq(Functions), NEW f
  PROVE  /\ Times(f, s) = 0 <=> Places(f, s) = {}
         /\ f \notin Range(s) <=> Places(f, s) = {}
BY PlacesFinite, FS_EmptySet DEF Times, Range, Places

\* A step that changes the counts as it changes the sequences S, and then takes
\* functions from the slots that came too late.
LEMMA Balance ==
  ASSUME Typed, Typed', RefsBalanced, NEW S \in Lists, late \subseteq late',
         \A f \in Functions : counts'[f] + Times(f, Here) + Spread(f, Row)
                              = counts[f] + Times(f, Here') + Spread(f, S),
         \A b \in Addresses, f \in Functions :
           /\ Places(f, Slots(b)') \subseteq Places(f, S[b])
           /\ f \notin late' => Places(f, Slots(b)') = Places(f, S[b])
  PROVE  RefsBalanced'
<1>1. RowTyped /\ RowTyped'
  BY RowIs, RowIsNext
<1>2. ASSUME NEW f \in Functions
      PROVE  /\ counts'[f] >= Owned(f)'
             /\ f \notin late' => counts'[f] = Owned(f)'
  <2>1. Row' \in Lists /\ \A b \in Addresses : Row'[b] = Slots(b)'
    BY <1>1 DEF RowTyped
  <2>2. Spread(f, Row') <= Spread(f, S)
    BY <2>1, SpreadLess
  <2>3. f \notin late' => Spread(f, Row') = Spread(f, S)
    BY <2>1, SpreadSame
  <2>4. Owned(f) = Times(f, Here) + Spread(f, Row) /\ Times(f, Here) \in Nat /\ Spread(f, Row) \in Nat
    BY <1>1 DEF RowTyped
  <2>5. Owned(f)' = Times(f, Here') + Spread(f, Row') /\ Times(f, Here') \in Nat /\ Spread(f, Row') \in Nat
    BY <1>1 DEF RowTyped
  <2>6. Spread(f, S) \in Nat
    BY SpotsAre
  <2>7. counts[f] \in Int /\ counts'[f] \in Int
    BY DEF Typed
  <2>8. counts[f] >= Owned(f) /\ (f \notin late => counts[f] = Owned(f))
    BY DEF RefsBalanced
  <2>9. counts'[f] + Times(f, Here) + Spread(f, Row) = counts[f] + Times(f, Here') + Spread(f, S)
    OBVIOUS
  <2> QED
    BY <2>2, <2>3, <2>4, <2>5, <2>6, <2>7, <2>8, <2>9
<1> QED
  BY <1>2 DEF RefsBalanced

\* .. where the slots of one object change,
LEMMA BalanceOne ==
  ASSUME Typed, Typed', RefsBalanced, NEW a \in Addresses, late \subseteq late', Here' = Here,
         \A b \in Addresses : b # a => Slots(b)' = Slots(b),
         \A f \in Functions : counts'[f] + Times(f, Slots(a)) = counts[f] + Times(f, Slots(a)')
  PROVE  RefsBalanced'
<1> DEFINE S == [Row EXCEPT ![a] = Slots(a)']
<1>1. RowTyped /\ RowTyped'
  BY RowIs, RowIsNext
<1>2. Row \in Lists /\ Slots(a)' \in Seq(Functions) /\ Row[a] = Slots(a)
  BY <1>1 DEF RowTyped
<1>3. S \in Lists /\ \A f : Spread(f, S) + Times(f, Row[a]) = Spread(f, Row) + Times(f, Slots(a)')
  BY <1>2, SpreadExcept
<1>4. \A b \in Addresses : S[b] = Slots(b)'
  BY <1>1 DEF RowTyped, Row
<1> HIDE DEF S
<1>5. ASSUME NEW f \in Functions
      PROVE  counts'[f] + Times(f, Here) + Spread(f, Row) = counts[f] + Times(f, Here') + Spread(f, S)
  <2>1. /\ Times(f, Here) \in Nat /\ Spread(f, Row) \in Nat /\ Spread(f, S) \in Nat
        /\ Times(f, Slots(a)) \in Nat /\ Times(f, Slots(a)') \in Nat
        /\ counts[f] \in Int /\ counts'[f] \in Int
    BY <1>1, <1>2, <1>3, SpotsAre, PlacesFinite DEF RowTyped, Typed
  <2>2. Spread(f, S) + Times(f, Slots(a)) = Spread(f, Row) + Times(f, Slots(a)')
    BY <1>2, <1>3
  <2>3. counts'[f] + Times(f, Slots(a)) = counts[f] + Times(f, Slots(a)')
    OBVIOUS
  <2>4. counts'[f] + Spread(f, Row) = counts[f] + Spread(f, S)
    BY <2>1, <2>2, <2>3
  <2>5. Times(f, Here') = Times(f, Here)
    OBVIOUS
  <2> QED
    BY <2>1, <2>4, <2>5
<1> QED
  BY <1>3, <1>4, <1>5, Balance

\* .. or what the publication holds.
LEMMA BalanceHere ==
  ASSUME Typed, Typed', RefsBalanced, late \subseteq late',
         \A f \in Functions : counts'[f] + Times(f, Here) = counts[f] + Times(f, Here'),
         \A b \in Addresses, f \in Functions :
           /\ Places(f, Slots(b)') \subseteq Places(f, Slots(b))
           /\ f \notin late' => Places(f, Slots(b)') = Places(f, Slots(b))
  PROVE  RefsBalanced'
<1>1. RowTyped /\ RowTyped'
  BY RowIs, RowIsNext
<1>2. Row \in Lists /\ \A b \in Addresses : Row[b] = Slots(b)
  BY <1>1 DEF RowTyped
<1>3. ASSUME NEW f \in Functions
      PROVE  counts'[f] + Times(f, Here) + Spread(f, Row) = counts[f] + Times(f, Here') + Spread(f, Row)
  <2>1. /\ Times(f, Here) \in Nat /\ Spread(f, Row) \in Nat /\ Times(f, Here') \in Nat
        /\ counts[f] \in Int /\ counts'[f] \in Int
    BY <1>1 DEF RowTyped, Typed
  <2>2. counts'[f] + Times(f, Here) = counts[f] + Times(f, Here')
    OBVIOUS
  <2> QED
    BY <2>1, <2>2
<1> QED
  BY <1>2, <1>3, Balance

\* An object that is collected has only what came too late, place by place.
LEMMA OrphanPlaces ==
  ASSUME Typed, Orphans, NEW b \in Addresses, ~attached[b], NEW f \in Functions, f \notin late
  PROVE  Places(f, Slots(b)) = {}
<1>1. Slots(b) \in Seq(Functions)
  BY RowIs DEF RowTyped
<1>2. f \notin Range(Slots(b))
  BY DEF Orphans
<1> QED
  BY <1>1, <1>2, NoneOf

LEMMA OrphansNext ==
  ASSUME Typed',
         \A b \in Addresses, f \in Functions : ~attached'[b] /\ f \notin late' => Places(f, Slots(b)') = {}
  PROVE  Orphans'
<1>1. \A b \in Addresses : Slots(b)' \in Seq(Functions)
  BY RowIsNext DEF RowTyped
<1>2. ASSUME NEW b \in Addresses, ~attached'[b], NEW f \in Range(Slots(b)') PROVE f \in late'
  <2> DEFINE s == Slots(b)'
  <2>1. s \in Seq(Functions) /\ f \in Range(s)
    BY <1>1, <1>2
  <2> HIDE DEF s
  <2>2. f \in Functions /\ Places(f, s) # {}
    BY <2>1, RangeOfSeq, NoneOf
  <2> QED
    BY <1>2, <2>2 DEF s
<1> QED
  BY <1>2 DEF Orphans

\* A step that only takes from the slots functions that came too late.
LEMMA SlotsLess ==
  ASSUME Typed, Typed', RefsBalanced, Orphans, late' = late,
         \A f \in Functions : counts'[f] + Times(f, Here) = counts[f] + Times(f, Here'),
         \A b \in Addresses : ~attached'[b] => ~attached[b],
         \A b \in Addresses, f \in Functions :
           /\ Places(f, Slots(b)') \subseteq Places(f, Slots(b))
           /\ f \notin late' => Places(f, Slots(b)') = Places(f, Slots(b))
  PROVE  RefsBalanced' /\ Orphans'
<1>1. RefsBalanced'
  BY BalanceHere
<1>2. \A b \in Addresses, f \in Functions : ~attached'[b] /\ f \notin late' => Places(f, Slots(b)') = {}
  BY OrphanPlaces
<1> QED
  BY <1>1, <1>2, OrphansNext

\* A step that changes the slots of one object, whose new functions come too
\* late if it is collected.
LEMMA SlotsOne ==
  ASSUME Typed, Typed', RefsBalanced, Orphans, NEW a \in Addresses, late \subseteq late', Here' = Here,
         attached' = attached,
         \A b \in Addresses : b # a => Slots(b)' = Slots(b),
         \A f \in Functions : counts'[f] + Times(f, Slots(a)) = counts[f] + Times(f, Slots(a)'),
         \A f \in Functions : ~attached[a] /\ f \notin late' => Times(f, Slots(a)') <= Times(f, Slots(a))
  PROVE  RefsBalanced' /\ Orphans'
<1>1. RefsBalanced'
  BY BalanceOne
<1>2. ASSUME NEW b \in Addresses, NEW f \in Functions, ~attached'[b], f \notin late'
      PROVE  Places(f, Slots(b)') = {}
  <2>1. Places(f, Slots(b)) = {}
    BY <1>2, OrphanPlaces
  <2>2. CASE b # a
    BY <2>1, <2>2
  <2>3. CASE b = a
    <3> DEFINE s == Slots(a)
               t == Slots(a)'
    <3>1. s \in Seq(Functions) /\ t \in Seq(Functions)
      BY RowIs, RowIsNext DEF RowTyped
    <3>2. Times(f, t) <= Times(f, s) /\ Places(f, s) = {}
      BY <1>2, <2>1, <2>3
    <3> HIDE DEF s, t
    <3>3. Times(f, s) = 0 /\ Times(f, t) \in Nat
      BY <3>1, <3>2, NoneOf, PlacesFinite
    <3>4. Times(f, t) = 0
      BY <3>2, <3>3
    <3>5. Places(f, t) = {}
      BY <3>1, <3>4, NoneOf
    <3> QED
      BY <2>3, <3>5 DEF t
  <2> QED
    BY <2>2, <2>3
<1> QED
  BY <1>1, <1>2, OrphansNext

-----------------------------------------------------------------------------
(* The counts. *)

\* The listeners of a dead object go from their map.
LEMMA DeadSlots ==
  ASSUME Typed, Lives, Orphans, NEW b \in Addresses, ~attached[b], NEW f \in Functions,
         topics'[b] = topics[b], b \notin DOMAIN registers', b \notin DOMAIN valueHolders'
  PROVE  /\ Places(f, Slots(b)') \subseteq Places(f, Slots(b))
         /\ f \notin late => Places(f, Slots(b)') = Places(f, Slots(b))
<1> DEFINE x == topics[b]
           y == Entry(registers, b, <<>>)
<1>1. x \in Seq(Functions) /\ y \in Seq(Functions) /\ <<>> \in Seq(Functions)
  BY EntryTypes, EmptySeq
<1>2. Slots(b) = (x \o y) \o <<>>
  <2>1. b \notin DOMAIN valueHolders
    BY DEF Lives
  <2> QED
    BY <2>1 DEF Slots, Entry, Field
<1>3. Slots(b)' = (x \o <<>>) \o <<>>
  BY DEF Slots, Entry, Field
<1> HIDE DEF x, y
<1>4. x \o y \in Seq(Functions) /\ (x \o y) \o <<>> = x \o y /\ (x \o <<>>) \o <<>> = x
  BY <1>1, ConcatProperties, ConcatEmptySeq
<1>5. \A i \in DOMAIN x : i \in DOMAIN (x \o y) /\ (x \o y)[i] = x[i]
  BY <1>1, ConcatProperties
<1>6. Places(f, x) \subseteq Places(f, x \o y)
  BY <1>5 DEF Places
<1>7. f \notin late => Places(f, Slots(b)) = {}
  BY OrphanPlaces
<1> QED
  BY <1>2, <1>3, <1>4, <1>6, <1>7

LEMMA ReleaseSlots ==
  ASSUME Typed, Lives, Orphans, NEW r \in [Addresses -> SUBSET Holders], NEW holders,
         Release(r, registers, holders), UNCHANGED <<topics, valueHolders>>,
         \A a, b \in Addresses : b \in r[a] => r[b] # {},
         \A b \in Addresses : attached[b] <=> "value" \in r[b]
  PROVE  \A b \in Addresses, f \in Functions :
           /\ Places(f, Slots(b)') \subseteq Places(f, Slots(b))
           /\ f \notin late => Places(f, Slots(b)') = Places(f, Slots(b))
<1> SUFFICES ASSUME NEW b \in Addresses, NEW f \in Functions
             PROVE  /\ Places(f, Slots(b)') \subseteq Places(f, Slots(b))
                    /\ f \notin late => Places(f, Slots(b)') = Places(f, Slots(b))
  OBVIOUS
<1>1. registers' = Without(registers, Dead(r))
  BY Released
<1>2. CASE b \in Dead(r)
  <2>1. ~attached[b]
    BY <1>2 DEF Dead
  <2>2. b \notin DOMAIN registers' /\ b \notin DOMAIN valueHolders'
    BY <1>1, <1>2, <2>1 DEF Without, Lives
  <2> QED
    BY <2>1, <2>2, DeadSlots
<1>3. CASE b \notin Dead(r)
  <2>1. Entry(registers', b, <<>>) = Entry(registers, b, <<>>)
    BY <1>1, <1>3 DEF Entry, Without
  <2>2. Slots(b)' = Slots(b)
    BY <2>1 DEF Slots, Entry
  <2> QED
    BY <2>2
<1> QED
  BY <1>2, <1>3

LEMMA SameSlots ==
  ASSUME UNCHANGED <<topics, registers, valueHolders>>
  PROVE  \A b : Slots(b)' = Slots(b)
BY DEF Slots, Entry, Field

LEMMA SameHere ==
  ASSUME UNCHANGED publication
  PROVE  Here' = Here
BY DEF Here, IsSignal, Field, publication

Balanced == RefsBalanced /\ Orphans

\* A step that leaves the slots and the publication alone.
LEMMA BalancedSame ==
  ASSUME Typed, Typed', Balanced, UNCHANGED <<topics, registers, valueHolders, counts, late, attached>>,
         Here' = Here
  PROVE  Balanced'
<1>1. \A b : Slots(b)' = Slots(b)
  BY SameSlots
<1>2. \A f \in Functions : counts'[f] + Times(f, Here) = counts[f] + Times(f, Here')
  OBVIOUS
<1> QED
  BY <1>1, <1>2, SlotsLess DEF Balanced

\* A step that only releases.
LEMMA BalancedRelease ==
  ASSUME Typed, Typed', Lives, Balanced, NEW r \in [Addresses -> SUBSET Holders], NEW holders,
         Release(r, registers, holders), UNCHANGED <<topics, valueHolders, late, attached>>,
         \A f \in Functions : counts'[f] + Times(f, Here) = counts[f] + Times(f, Here'),
         \A a, b \in Addresses : b \in r[a] => r[b] # {},
         \A b \in Addresses : attached[b] <=> "value" \in r[b]
  PROVE  Balanced'
<1>1. \A b \in Addresses, f \in Functions :
        /\ Places(f, Slots(b)') \subseteq Places(f, Slots(b))
        /\ f \notin late' => Places(f, Slots(b)') = Places(f, Slots(b))
  BY ReleaseSlots DEF Balanced
<1>2. \A b \in Addresses : ~attached'[b] => ~attached[b]
  OBVIOUS
<1> QED
  BY <1>1, <1>2, SlotsLess DEF Balanced

LEMMA BalancedCollect ==
  ASSUME Typed, Typed', Lives, Balanced, NEW a \in Addresses, Collect(a)
  PROVE  Balanced'
<1> DEFINE r == Collected(a)
           regs == IF a \in DOMAIN registers THEN Put(registers, a, <<>>) ELSE registers
           s == Hooked(a) \o Field(Entry(valueHolders, a, None)) \o Entry(registers, a, <<>>)
           S == [Row EXCEPT ![a] = <<>>]
<1>1. /\ r \in [Addresses -> SUBSET Holders]
      /\ \A b, c \in Addresses : c \in r[b] => r[c] # {}
      /\ Release(r, regs, Without(refHolders, {a}))
      /\ \A b \in Addresses : attached'[b] <=> "value" \in r[b]
  BY CollectReleases
<1>2. /\ attached[a] /\ attached' = [attached EXCEPT ![a] = FALSE]
      /\ topics' = [topics EXCEPT ![a] = <<>>]
      /\ valueHolders' = Without(valueHolders, {a})
      /\ FreeEach(s)
      /\ UNCHANGED <<publication, late>>
  BY DEF Collect
<1> HIDE DEF r
<1>3. registers' = Without(regs, Dead(r))
  BY <1>1, Released
<1>4. Here' = Here
  BY <1>2, SameHere
<1>5. Slots(a)' = <<>>
  <2>1. topics'[a] = <<>> /\ a \notin DOMAIN valueHolders'
    BY <1>2 DEF Typed, SlotTypes, Without
  <2>2. Entry(registers', a, <<>>) = <<>>
    BY <1>3 DEF Entry, Without, Put
  <2>3. Slots(a)' = <<>> \o <<>> \o <<>>
    BY <2>1, <2>2 DEF Slots, Entry, Field
  <2> QED
    BY <2>3, ConcatEmptySeq, EmptySeq
<1>6. ASSUME NEW b \in Addresses, b # a, NEW f \in Functions
      PROVE  /\ Places(f, Slots(b)') \subseteq Places(f, Slots(b))
             /\ f \notin late => Places(f, Slots(b)') = Places(f, Slots(b))
  <2>1. topics'[b] = topics[b] /\ attached'[b] = attached[b]
        /\ (b \in DOMAIN valueHolders' <=> b \in DOMAIN valueHolders)
        /\ (b \in DOMAIN valueHolders' => valueHolders'[b] = valueHolders[b])
    BY <1>2, <1>6 DEF Typed, SlotTypes, Without
  <2>2. CASE b \in Dead(r)
    <3>1. ~attached[b]
      BY <1>1, <2>1, <2>2 DEF Dead
    <3>2. b \notin DOMAIN registers' /\ b \notin DOMAIN valueHolders'
      BY <1>3, <2>1, <2>2, <3>1 DEF Without, Lives
    <3> QED
      BY <2>1, <3>1, <3>2, DeadSlots DEF Balanced
  <2>3. CASE b \notin Dead(r)
    <3>1. Entry(registers', b, <<>>) = Entry(registers, b, <<>>)
      BY <1>3, <1>6, <2>3 DEF Entry, Without, Put
    <3>2. Entry(valueHolders', b, None) = Entry(valueHolders, b, None)
      BY <2>1 DEF Entry
    <3>3. Slots(b)' = Slots(b)
      BY <2>1, <3>1, <3>2 DEF Slots, Entry, Field
    <3> QED
      BY <3>3
  <2> QED
    BY <2>2, <2>3
<1>7. RowTyped /\ RowTyped'
  BY RowIs, RowIsNext
<1>8. /\ Row \in Lists /\ <<>> \in Seq(Functions) /\ DOMAIN Row = Addresses
      /\ \A b \in Addresses : Row[b] = Slots(b)
  BY <1>7, EmptySeq DEF RowTyped, Lists
<1>9. S \in Lists /\ \A f : Spread(f, S) + Times(f, Row[a]) = Spread(f, Row) + Times(f, <<>>)
  <2> DEFINE L == Row
  <2>1. L \in Lists /\ <<>> \in Seq(Functions)
    BY <1>8
  <2> HIDE DEF L
  <2>2. /\ [L EXCEPT ![a] = <<>>] \in Lists
        /\ \A f : Spread(f, [L EXCEPT ![a] = <<>>]) + Times(f, L[a]) = Spread(f, L) + Times(f, <<>>)
    BY <2>1, SpreadExcept
  <2> QED
    BY <2>2 DEF L
<1>10. S[a] = <<>> /\ \A b \in Addresses : b # a => S[b] = Slots(b)
  BY <1>8
<1> HIDE DEF S, regs
<1>11. ASSUME NEW f \in Functions
       PROVE  Times(f, s) = Times(f, Slots(a))
  <2> DEFINE x == topics[a]
             y == Entry(registers, a, <<>>)
             z == Field(Entry(valueHolders, a, None))
  <2>1. Hooked(a) = x
    BY <1>2 DEF Hooked, Lives
  <2>2. x \in Seq(Functions) /\ y \in Seq(Functions) /\ z \in Seq(Functions)
    BY EntryTypes
  <2>3. s = (x \o z) \o y
    BY <2>1
  <2>4. Times(f, Slots(a)) = Times(f, x) + Times(f, y) + Times(f, z)
        /\ Times(f, x) \in Nat /\ Times(f, y) \in Nat /\ Times(f, z) \in Nat
    BY <1>7 DEF RowTyped
  <2> HIDE DEF x, y, z, s
  <2>5. x \o z \in Seq(Functions)
    BY <2>2, ConcatProperties
  <2>6. Times(f, s) = Times(f, x \o z) + Times(f, y) /\ Times(f, x \o z) = Times(f, x) + Times(f, z)
    BY <2>2, <2>3, <2>5, TimesConcat
  <2> QED
    BY <2>4, <2>6
<1> HIDE DEF s
<1>12. ASSUME NEW f \in Functions
       PROVE  counts'[f] + Times(f, Here) + Spread(f, Row) = counts[f] + Times(f, Here') + Spread(f, S)
  <2>1. counts'[f] = counts[f] - Times(f, Slots(a))
    BY <1>2, <1>11 DEF FreeEach
  <2>2. Spread(f, S) + Times(f, Slots(a)) = Spread(f, Row) + 0
    BY <1>8, <1>9, TimesShort
  <2>3. /\ Times(f, Here) \in Nat /\ Spread(f, Row) \in Nat /\ Spread(f, S) \in Nat
        /\ Times(f, Slots(a)) \in Nat /\ counts[f] \in Int
    BY <1>7, <1>9, SpotsAre, PlacesFinite DEF RowTyped, Typed
  <2>4. counts'[f] + Spread(f, Row) = counts[f] + Spread(f, S)
    BY <2>1, <2>2, <2>3
  <2>5. counts'[f] \in Int /\ Times(f, Here') = Times(f, Here)
    BY <1>4 DEF Typed
  <2> DEFINE x == counts[f]
             y == counts'[f]
             h == Times(f, Here)
             p == Spread(f, Row)
             q == Spread(f, S)
  <2>6. x \in Int /\ y \in Int /\ h \in Nat /\ p \in Nat /\ q \in Nat /\ y + p = x + q
    BY <2>3, <2>4, <2>5
  <2> HIDE DEF x, y, h, p, q
  <2>7. y + h + p = x + h + q
    BY <2>6
  <2> QED
    BY <2>5, <2>7 DEF x, y, h, p, q
<1>13. \A b \in Addresses, f \in Functions :
          /\ Places(f, Slots(b)') \subseteq Places(f, S[b])
          /\ f \notin late' => Places(f, Slots(b)') = Places(f, S[b])
  BY <1>2, <1>5, <1>6, <1>10
<1>14. RefsBalanced'
  BY <1>2, <1>9, <1>12, <1>13, Balance DEF Balanced
<1>15. ASSUME NEW b \in Addresses, NEW f \in Functions, ~attached'[b], f \notin late'
       PROVE  Places(f, Slots(b)') = {}
  <2>1. CASE b = a
    BY <1>5, <2>1 DEF Places
  <2>2. CASE b # a
    <3>1. ~attached[b] /\ f \notin late
      BY <1>2, <1>15, <2>2 DEF Typed
    <3> QED
      BY <1>6, <2>2, <3>1, OrphanPlaces DEF Balanced
  <2> QED
    BY <2>1, <2>2
<1> QED
  BY <1>14, <1>15, OrphansNext DEF Balanced

LEMMA BalancedLife ==
  ASSUME Typed, Typed', Lives, Balanced, NEW a \in Addresses, Life(a)
  PROVE  Balanced'
<1>1. CASE NewInstance(a)
  <2>1. /\ refs[a] = {} /\ attached' = [attached EXCEPT ![a] = TRUE]
        /\ topics' = [topics EXCEPT ![a] = <<>>]
        /\ UNCHANGED <<valueHolders, registers, counts, publication, late>>
    BY <1>1 DEF NewInstance, Constructed, Attach, maps
  <2>2. ~attached[a]
    BY <2>1 DEF Lives
  <2>3. Here' = Here
    BY <2>1, SameHere
  <2>4. Slots(a)' = <<>>
    <3>1. a \notin DOMAIN valueHolders' /\ a \notin DOMAIN registers' /\ topics'[a] = <<>>
      BY <2>1, <2>2 DEF Lives, Typed, SlotTypes
    <3>2. Slots(a)' = <<>> \o <<>> \o <<>>
      BY <3>1 DEF Slots, Entry, Field
    <3> QED
      BY <3>2, ConcatEmptySeq, EmptySeq
  <2>5. \A b \in Addresses : b # a => Slots(b)' = Slots(b)
    BY <2>1 DEF Slots, Entry, Field, Typed, SlotTypes
  <2>6. \A f \in Functions : Places(f, Slots(a)') = {}
    BY <2>4 DEF Places
  <2>7. \A f \in Functions : f \notin late => Places(f, Slots(a)) = {}
    BY <2>2, OrphanPlaces DEF Balanced
  <2>8. \A b \in Addresses, f \in Functions :
           /\ Places(f, Slots(b)') \subseteq Places(f, Slots(b))
           /\ f \notin late' => Places(f, Slots(b)') = Places(f, Slots(b))
    BY <2>1, <2>5, <2>6, <2>7
  <2>9. \A b \in Addresses : ~attached'[b] => ~attached[b]
    BY <2>1 DEF Typed
  <2>10. \A f \in Functions : counts'[f] + Times(f, Here) = counts[f] + Times(f, Here')
    BY <2>1, <2>3
  <2> QED
    BY <2>1, <2>8, <2>9, <2>10, SlotsLess DEF Balanced
<1>2. CASE Collect(a)
  BY <1>2, BalancedCollect
<1>3. CASE FreeMethods(a) \/ LetGo(a)
  <2>1. /\ UNCHANGED <<topics, valueHolders, late, attached, counts, publication>>
        /\ \E h \in {"methods", "worker"} : Drop(a, h)
    BY <1>3 DEF FreeMethods, LetGo
  <2>2. PICK h \in {"methods", "worker"} : Drop(a, h)
    BY <2>1
  <2>3. \A f \in Functions : counts'[f] + Times(f, Here) = counts[f] + Times(f, Here')
    BY <2>1, SameHere
  <2> DEFINE r == Less(a, h)
  <2>4. /\ r \in [Addresses -> SUBSET Holders]
        /\ \A b, c \in Addresses : c \in r[b] => r[c] # {}
        /\ \A b \in Addresses : attached[b] <=> "value" \in r[b]
        /\ Release(r, registers, refHolders)
    BY <2>2, Dropped
  <2> HIDE DEF r
  <2> QED
    BY <2>1, <2>3, <2>4, BalancedRelease
<1>4. CASE Take(a)
  <2>1. UNCHANGED <<topics, registers, valueHolders, counts, late, attached, publication>>
    BY <1>4 DEF Take, maps
  <2> QED
    BY <2>1, SameHere, BalancedSame
<1> QED
  BY <1>1, <1>2, <1>3, <1>4 DEF Life

\* How often f is in the slots of an object, slot by slot.
InTopic(f, a) == Times(f, topics[a])

InSignal(f, a) == Times(f, Entry(registers, a, <<>>))

InField(f, a) == Times(f, Field(Entry(valueHolders, a, None)))

\* A step on the slots of an attached object, or one that puts a function there
\* which comes too late otherwise.
LEMMA BalancedOne ==
  ASSUME Typed, Typed', Balanced, NEW a \in Addresses, late \subseteq late',
         UNCHANGED <<attached, publication>>,
         \A b \in Addresses : b # a => Slots(b)' = Slots(b),
         \A f \in Functions :
            counts'[f] + (InTopic(f, a) + InSignal(f, a) + InField(f, a))
            = counts[f] + (InTopic(f, a)' + InSignal(f, a)' + InField(f, a)'),
         \A f \in Functions : ~attached[a] /\ f \notin late' => counts'[f] <= counts[f]
  PROVE  Balanced'
<1>1. RowTyped /\ RowTyped'
  BY RowIs, RowIsNext
<1>2. Here' = Here
  BY SameHere
<1>3. ASSUME NEW f \in Functions
      PROVE  /\ counts'[f] + Times(f, Slots(a)) = counts[f] + Times(f, Slots(a)')
             /\ Times(f, Slots(a)) \in Nat /\ Times(f, Slots(a)') \in Nat
             /\ counts[f] \in Int /\ counts'[f] \in Int
  <2>1. /\ Times(f, Slots(a)) = InTopic(f, a) + InSignal(f, a) + InField(f, a)
        /\ InTopic(f, a) \in Nat /\ InSignal(f, a) \in Nat /\ InField(f, a) \in Nat
    BY <1>1 DEF RowTyped, InTopic, InSignal, InField
  <2>2. /\ Times(f, Slots(a)') = InTopic(f, a)' + InSignal(f, a)' + InField(f, a)'
        /\ InTopic(f, a)' \in Nat /\ InSignal(f, a)' \in Nat /\ InField(f, a)' \in Nat
    BY <1>1 DEF RowTyped, InTopic, InSignal, InField
  <2>3. counts[f] \in Int /\ counts'[f] \in Int
    BY DEF Typed
  <2> QED
    BY <2>1, <2>2, <2>3
<1>4. ASSUME NEW f \in Functions, ~attached[a], f \notin late'
      PROVE  Times(f, Slots(a)') <= Times(f, Slots(a))
  <2> DEFINE x == counts[f]
             y == counts'[f]
             p == Times(f, Slots(a))
             q == Times(f, Slots(a)')
  <2>1. x \in Int /\ y \in Int /\ p \in Nat /\ q \in Nat /\ y + p = x + q /\ y <= x
    BY <1>3, <1>4
  <2> HIDE DEF x, y, p, q
  <2>2. q <= p
    BY <2>1
  <2> QED
    BY <2>2 DEF p, q
<1> QED
  BY <1>2, <1>3, <1>4, SlotsOne DEF Balanced

LEMMA InTypes ==
  ASSUME Typed, NEW a \in Addresses, NEW f
  PROVE  InTopic(f, a) \in Nat /\ InSignal(f, a) \in Nat /\ InField(f, a) \in Nat
BY RowIs DEF RowTyped, InTopic, InSignal, InField

LEMMA BalancedHold ==
  ASSUME Typed, Typed', Lives, Balanced, NEW a \in Addresses, Hold(a)
  PROVE  Balanced'
<1>0. DOMAIN valueHolders \subseteq Addresses /\ None \notin Functions
  BY ObjectsAssumption DEF Typed
<1>1. ASSUME NEW f \in Functions, SetValue(a, f) PROVE Balanced'
  <2>1. /\ valueHolders' = Put(valueHolders, a, f) /\ attached[a]
        /\ UNCHANGED <<topics, registers, late, attached, publication>>
        /\ counts' = [g \in Functions |-> counts[g] + Times(g, <<f>>)
                                            - Times(g, Field(Entry(valueHolders, a, None)))]
    BY <1>1 DEF SetValue, Holdable
  <2>2. \A b \in Addresses : b # a => Slots(b)' = Slots(b)
    BY <2>1 DEF Slots, Entry, Put, Field
  <2>3. \A g \in Functions : InTopic(g, a)' = InTopic(g, a) /\ InSignal(g, a)' = InSignal(g, a)
    BY <2>1 DEF InTopic, InSignal
  <2>4. \A g \in Functions : InField(g, a)' = Times(g, <<f>>)
    BY <1>0, <2>1 DEF InField, Entry, Put, Field
  <2>5. \A g \in Functions : counts'[g] = counts[g] + InField(g, a)' - InField(g, a)
    BY <2>1, <2>4 DEF InField
  <2>6. \A g \in Functions : counts'[g] + (InTopic(g, a) + InSignal(g, a) + InField(g, a))
                             = counts[g] + (InTopic(g, a)' + InSignal(g, a)' + InField(g, a)')
    <3> SUFFICES ASSUME NEW g \in Functions
                 PROVE  counts'[g] + (InTopic(g, a) + InSignal(g, a) + InField(g, a))
                        = counts[g] + (InTopic(g, a)' + InSignal(g, a)' + InField(g, a)')
      OBVIOUS
    <3>1. InTopic(g, a) \in Nat /\ InSignal(g, a) \in Nat /\ InField(g, a) \in Nat /\ counts[g] \in Int
      BY InTypes DEF Typed
    <3>2. InField(g, a)' \in Nat
      <4>1. <<f>> \in Seq(Functions)
        OBVIOUS
      <4> QED
        BY <2>4, <4>1, PlacesFinite
    <3> QED
      BY <2>3, <2>5, <3>1, <3>2
  <2> QED
    BY <2>1, <2>2, <2>6, BalancedOne
<1>2. CASE RemoveValue(a)
  <2> DEFINE s == <<valueHolders[a]>>
  <2>1. /\ valueHolders' = Put(valueHolders, a, None) /\ attached[a]
        /\ Entry(valueHolders, a, None) # None
        /\ UNCHANGED <<topics, registers, late, attached, publication>>
        /\ FreeEach(s)
    BY <1>2 DEF RemoveValue, Holdable
  <2>2. \A b \in Addresses : b # a => Slots(b)' = Slots(b)
    BY <2>1 DEF Slots, Entry, Put, Field
  <2>3. \A g \in Functions : InTopic(g, a)' = InTopic(g, a) /\ InSignal(g, a)' = InSignal(g, a)
    BY <2>1 DEF InTopic, InSignal
  <2>4. \A g \in Functions : InField(g, a)' = 0
    BY <2>1, TimesShort DEF InField, Entry, Put, Field
  <2>5. \A g \in Functions : counts'[g] = counts[g] - InField(g, a)
    BY <2>1 DEF InField, Entry, Field, FreeEach
  <2>6. \A g \in Functions : counts'[g] + (InTopic(g, a) + InSignal(g, a) + InField(g, a))
                             = counts[g] + (InTopic(g, a)' + InSignal(g, a)' + InField(g, a)')
    <3> SUFFICES ASSUME NEW g \in Functions
                 PROVE  counts'[g] + (InTopic(g, a) + InSignal(g, a) + InField(g, a))
                        = counts[g] + (InTopic(g, a)' + InSignal(g, a)' + InField(g, a)')
      OBVIOUS
    <3>1. InTopic(g, a) \in Nat /\ InSignal(g, a) \in Nat /\ InField(g, a) \in Nat /\ counts[g] \in Int
      BY InTypes DEF Typed
    <3> QED
      BY <2>3, <2>4, <2>5, <3>1
  <2> QED
    BY <2>1, <2>2, <2>6, BalancedOne
<1>3. ASSUME NEW b \in Addresses, SetRef(a, b) PROVE Balanced'
  <2> DEFINE r == Linked(a, b)
             holders == Put(refHolders, a, b)
  <2>1. /\ r \in [Addresses -> SUBSET Holders]
        /\ \A x, y \in Addresses : y \in r[x] => r[y] # {}
        /\ \A x \in Addresses : attached[x] <=> "value" \in r[x]
        /\ Release(r, registers, holders)
    BY <1>3, SetRefReleases
  <2>2. UNCHANGED <<topics, valueHolders, late, attached, counts, publication>>
    BY <1>3 DEF SetRef
  <2>3. \A f \in Functions : counts'[f] + Times(f, Here) = counts[f] + Times(f, Here')
    BY <2>2, SameHere
  <2> HIDE DEF r, holders
  <2> QED
    BY <2>1, <2>2, <2>3, BalancedRelease
<1>4. CASE RemoveRef(a)
  <2> DEFINE r == OthersHeld(a)
             holders == Put(refHolders, a, None)
  <2>1. /\ r \in [Addresses -> SUBSET Holders]
        /\ \A x, y \in Addresses : y \in r[x] => r[y] # {}
        /\ \A x \in Addresses : attached[x] <=> "value" \in r[x]
        /\ Release(r, registers, holders)
    BY <1>4, RemoveRefReleases
  <2>2. UNCHANGED <<topics, valueHolders, late, attached, counts, publication>>
    BY <1>4 DEF RemoveRef
  <2>3. \A f \in Functions : counts'[f] + Times(f, Here) = counts[f] + Times(f, Here')
    BY <2>2, SameHere
  <2> HIDE DEF r, holders
  <2> QED
    BY <2>1, <2>2, <2>3, BalancedRelease
<1> QED
  BY <1>1, <1>2, <1>3, <1>4 DEF Hold

\* A listener more, which comes too late if the object is collected.
LEMMA EnteredCounts ==
  ASSUME Typed, NEW a \in Addresses, NEW f \in Functions, Entered(a, f)
  PROVE  /\ late \subseteq late'
         /\ \A g \in Functions : /\ counts'[g] = counts[g] + Times(g, <<f>>) /\ Times(g, <<f>>) \in Nat
                                 /\ ~attached[a] /\ g \notin late' => counts'[g] <= counts[g]
<1>1. counts' = [g \in Functions |-> counts[g] + Times(g, <<f>>)]
  BY DEF Entered, Dup
<1>2. late' = IF attached[a] THEN late ELSE late \cup {f}
  BY DEF Entered
<1>3. \A g \in Functions : g # f => Times(g, <<f>>) = 0
  BY TimesShort
<1>4. \A g \in Functions : Times(g, <<f>>) \in Nat /\ counts[g] \in Int
  <2>1. <<f>> \in Seq(Functions)
    OBVIOUS
  <2> QED
    BY <2>1, PlacesFinite DEF Typed
<1> QED
  BY <1>1, <1>2, <1>3, <1>4

\* The listeners of an object become s.
LEMMA BalancedSignal ==
  ASSUME Typed, Typed', Balanced, NEW a \in Addresses, NEW s \in Seq(Functions),
         registers' = Put(registers, a, s), late \subseteq late',
         UNCHANGED <<attached, publication, topics, valueHolders>>,
         \A f \in Functions : counts'[f] + InSignal(f, a) = counts[f] + Times(f, s),
         \A f \in Functions : ~attached[a] /\ f \notin late' => counts'[f] <= counts[f]
  PROVE  Balanced'
<1>1. \A b \in Addresses : b # a => Slots(b)' = Slots(b)
  BY DEF Slots, Entry, Put, Field
<1>2. \A g \in Functions : InTopic(g, a)' = InTopic(g, a) /\ InField(g, a)' = InField(g, a)
  BY DEF InTopic, InField, Entry, Field
<1>3. \A g \in Functions : InSignal(g, a)' = Times(g, s)
  BY DEF InSignal, Entry, Put
<1>4. \A g \in Functions : counts'[g] + (InTopic(g, a) + InSignal(g, a) + InField(g, a))
                           = counts[g] + (InTopic(g, a)' + InSignal(g, a)' + InField(g, a)')
  <2> SUFFICES ASSUME NEW g \in Functions
               PROVE  counts'[g] + (InTopic(g, a) + InSignal(g, a) + InField(g, a))
                      = counts[g] + (InTopic(g, a)' + InSignal(g, a)' + InField(g, a)')
    OBVIOUS
  <2>1. /\ InTopic(g, a) \in Nat /\ InSignal(g, a) \in Nat /\ InField(g, a) \in Nat /\ Times(g, s) \in Nat
        /\ counts[g] \in Int /\ counts'[g] \in Int
    BY InTypes, PlacesFinite DEF Typed
  <2>2. counts'[g] + InSignal(g, a) = counts[g] + Times(g, s)
    OBVIOUS
  <2> DEFINE x == InTopic(g, a)
             y == InField(g, a)
             z == InSignal(g, a)
             n == Times(g, s)
             c == counts[g]
             d == counts'[g]
  <2>3. x \in Nat /\ y \in Nat /\ z \in Nat /\ n \in Nat /\ c \in Int /\ d \in Int /\ d + z = c + n
    BY <2>1, <2>2
  <2> HIDE DEF x, y, z, n, c, d
  <2>4. d + (x + z + y) = c + (x + n + y)
    BY <2>3
  <2> QED
    BY <1>2, <1>3, <2>4 DEF x, y, z, n, c, d
<1> QED
  BY <1>1, <1>4, BalancedOne

\* The listeners of its topic become s.
LEMMA BalancedTopic ==
  ASSUME Typed, Typed', Balanced, NEW a \in Addresses, NEW s \in Seq(Functions),
         topics' = [topics EXCEPT ![a] = s], late \subseteq late',
         UNCHANGED <<attached, publication, registers, valueHolders>>,
         \A f \in Functions : counts'[f] + InTopic(f, a) = counts[f] + Times(f, s),
         \A f \in Functions : ~attached[a] /\ f \notin late' => counts'[f] <= counts[f]
  PROVE  Balanced'
<1>0. topics'[a] = s /\ \A b \in Addresses : b # a => topics'[b] = topics[b]
  BY DEF Typed, SlotTypes
<1>1. \A b \in Addresses : b # a => Slots(b)' = Slots(b)
  BY <1>0 DEF Slots, Entry, Field
<1>2. \A g \in Functions : InSignal(g, a)' = InSignal(g, a) /\ InField(g, a)' = InField(g, a)
  BY DEF InSignal, InField, Entry, Field
<1>3. \A g \in Functions : InTopic(g, a)' = Times(g, s)
  BY <1>0 DEF InTopic
<1>4. \A g \in Functions : counts'[g] + (InTopic(g, a) + InSignal(g, a) + InField(g, a))
                           = counts[g] + (InTopic(g, a)' + InSignal(g, a)' + InField(g, a)')
  <2> SUFFICES ASSUME NEW g \in Functions
               PROVE  counts'[g] + (InTopic(g, a) + InSignal(g, a) + InField(g, a))
                      = counts[g] + (InTopic(g, a)' + InSignal(g, a)' + InField(g, a)')
    OBVIOUS
  <2>1. /\ InTopic(g, a) \in Nat /\ InSignal(g, a) \in Nat /\ InField(g, a) \in Nat /\ Times(g, s) \in Nat
        /\ counts[g] \in Int /\ counts'[g] \in Int
    BY InTypes, PlacesFinite DEF Typed
  <2>2. counts'[g] + InTopic(g, a) = counts[g] + Times(g, s)
    OBVIOUS
  <2> DEFINE x == InSignal(g, a)
             y == InField(g, a)
             z == InTopic(g, a)
             n == Times(g, s)
             c == counts[g]
             d == counts'[g]
  <2>3. x \in Nat /\ y \in Nat /\ z \in Nat /\ n \in Nat /\ c \in Int /\ d \in Int /\ d + z = c + n
    BY <2>1, <2>2
  <2> HIDE DEF x, y, z, n, c, d
  <2>4. d + (z + x + y) = c + (n + x + y)
    BY <2>3
  <2> QED
    BY <1>2, <1>3, <2>4 DEF x, y, z, n, c, d
<1> QED
  BY <1>1, <1>4, BalancedOne

\* Some of a list are taken out and released.
LEMMA FreedCounts ==
  ASSUME Typed, NEW s \in Seq(Functions), NEW t \in Seq(Functions), FreeEach(t)
  PROVE  \A g \in Functions : /\ counts'[g] = counts[g] - Times(g, t) /\ counts'[g] <= counts[g]
                              /\ counts[g] \in Int /\ Times(g, s) \in Nat /\ Times(g, t) \in Nat
<1>1. \A g \in Functions : counts[g] \in Int /\ Times(g, s) \in Nat /\ Times(g, t) \in Nat
  BY PlacesFinite DEF Typed
<1>2. \A g \in Functions : counts'[g] = counts[g] - Times(g, t)
  BY DEF FreeEach
<1> QED
  BY <1>1, <1>2

\* What Off and OffTopic make of a list s: t, with the counts that go with it.
Shortened(s, t) ==
    \A g \in Functions : /\ counts'[g] + Times(g, s) = counts[g] + Times(g, t)
                         /\ counts'[g] <= counts[g]

LEMMA ShortenedByOne ==
  ASSUME Typed, NEW s \in Seq(Functions), NEW i \in DOMAIN s, FreeEach(<<s[i]>>)
  PROVE  Erased(s, i) \in Seq(Functions) /\ Shortened(s, Erased(s, i))
<1>1. <<s[i]>> \in Seq(Functions) /\ Erased(s, i) \in Seq(Functions)
  BY ErasedTyped
<1>2. \A g \in Functions : /\ counts'[g] = counts[g] - Times(g, <<s[i]>>) /\ counts'[g] <= counts[g]
                           /\ counts[g] \in Int /\ Times(g, s) \in Nat /\ Times(g, <<s[i]>>) \in Nat
  BY <1>1, FreedCounts
<1>3. \A g \in Functions : /\ Times(g, s) = Times(g, Erased(s, i)) + Times(g, <<s[i]>>)
                           /\ Times(g, Erased(s, i)) \in Nat
  BY <1>1, TimesErased, PlacesFinite
<1>4. ASSUME NEW g \in Functions
      PROVE  counts'[g] + Times(g, s) = counts[g] + Times(g, Erased(s, i)) /\ counts'[g] <= counts[g]
  <2> DEFINE n == Times(g, s)
             o == Times(g, <<s[i]>>)
             m == Times(g, Erased(s, i))
             c == counts[g]
             d == counts'[g]
  <2>1. n \in Nat /\ o \in Nat /\ m \in Nat /\ c \in Int /\ d = c - o /\ n = m + o
    BY <1>2, <1>3
  <2> HIDE DEF n, o, m, c, d
  <2>2. d + n = c + m /\ d <= c
    BY <2>1
  <2> QED
    BY <2>2 DEF n, m, c, d
<1> QED
  BY <1>1, <1>4 DEF Shortened

LEMMA ShortenedToNone ==
  ASSUME Typed, NEW s \in Seq(Functions), FreeEach(s)
  PROVE  <<>> \in Seq(Functions) /\ Shortened(s, <<>>)
<1>1. \A g \in Functions : /\ counts'[g] = counts[g] - Times(g, s) /\ counts'[g] <= counts[g]
                           /\ counts[g] \in Int /\ Times(g, s) \in Nat
  BY FreedCounts
<1>2. \A g \in Functions : Times(g, <<>>) = 0
  BY TimesShort
<1>3. \A g \in Functions : counts'[g] + Times(g, s) = counts[g] + Times(g, <<>>)
  BY <1>1, <1>2
<1> QED
  BY <1>1, <1>3, EmptySeq DEF Shortened

LEMMA BalancedListen ==
  ASSUME Typed, Typed', Lives, Balanced, NEW a \in Addresses, Listen(a)
  PROVE  Balanced'
<1>1. ASSUME NEW f \in Functions, On(a, f) PROVE Balanced'
  <2> DEFINE old == Entry(registers, a, <<>>)
             s == Append(old, f)
  <2>1. /\ registers' = Put(registers, a, s) /\ Entered(a, f)
        /\ UNCHANGED <<attached, publication, topics, valueHolders>>
    BY <1>1 DEF On
  <2>2. old \in Seq(Functions) /\ s \in Seq(Functions)
    BY EntryTypes, AppendProperties
  <2>3. \A g \in Functions : Times(g, s) = InSignal(g, a) + Times(g, <<f>>)
    BY <2>2, TimesAppend DEF InSignal
  <2> HIDE DEF s, old
  <2>4. \A g \in Functions : counts'[g] + InSignal(g, a) = counts[g] + Times(g, s)
    <3>1. \A g \in Functions : counts[g] \in Int /\ InSignal(g, a) \in Nat
      BY InTypes DEF Typed
    <3> QED
      BY <2>1, <2>3, <3>1, EnteredCounts
  <2> QED
    BY <2>1, <2>2, <2>4, EnteredCounts, BalancedSignal
<1>2. ASSUME NEW f \in Functions, OnTopic(a, f) PROVE Balanced'
  <2> DEFINE old == topics[a]
             s == Append(old, f)
  <2>1. /\ topics' = [topics EXCEPT ![a] = s] /\ Entered(a, f)
        /\ UNCHANGED <<attached, publication, registers, valueHolders>>
    BY <1>2 DEF OnTopic
  <2>2. old \in Seq(Functions) /\ s \in Seq(Functions)
    BY EntryTypes, AppendProperties
  <2>3. \A g \in Functions : Times(g, s) = InTopic(g, a) + Times(g, <<f>>)
    BY <2>2, TimesAppend DEF InTopic
  <2> HIDE DEF s, old
  <2>4. \A g \in Functions : counts'[g] + InTopic(g, a) = counts[g] + Times(g, s)
    <3>1. \A g \in Functions : counts[g] \in Int /\ InTopic(g, a) \in Nat
      BY InTypes DEF Typed
    <3> QED
      BY <2>1, <2>3, <3>1, EnteredCounts
  <2> QED
    BY <2>1, <2>2, <2>4, EnteredCounts, BalancedTopic
<1>3. CASE Off(a)
  <2> DEFINE s == registers[a]
  <2>1. /\ a \in DOMAIN registers /\ s \in Seq(Functions) /\ \A g : InSignal(g, a) = Times(g, s)
        /\ UNCHANGED <<attached, publication, topics, valueHolders, late>>
    BY <1>3 DEF Off, Typed, SlotTypes, InSignal, Entry
  <2>2. ASSUME NEW i \in DOMAIN s, OffAt(a, i)
        PROVE  \E t \in Seq(Functions) : registers' = Put(registers, a, t) /\ Shortened(s, t)
    BY <2>1, <2>2, ShortenedByOne DEF OffAt
  <2>3. \E t \in Seq(Functions) : registers' = Put(registers, a, t) /\ Shortened(s, t)
    <3>1. CASE \E i \in DOMAIN registers[a] : OffAt(a, i)
      BY <2>2, <3>1
    <3>2. CASE \E f \in script : LET i == First(registers[a], f) IN i # 0 /\ OffAt(a, i)
      BY <2>1, <2>2, <3>2, FirstIs
    <3>3. CASE registers' = Put(registers, a, <<>>) /\ FreeEach(registers[a])
      BY <2>1, <3>3, ShortenedToNone
    <3> QED
      BY <1>3, <3>1, <3>2, <3>3 DEF Off
  <2>4. PICK t \in Seq(Functions) : registers' = Put(registers, a, t) /\ Shortened(s, t)
    BY <2>3
  <2> QED
    BY <2>1, <2>4, BalancedSignal DEF Shortened
<1>4. CASE OffTopic(a)
  <2> DEFINE s == topics[a]
  <2>1. /\ s \in Seq(Functions) /\ \A g : InTopic(g, a) = Times(g, s)
        /\ UNCHANGED <<attached, publication, registers, valueHolders, late>>
    BY <1>4 DEF OffTopic, Typed, SlotTypes, InTopic
  <2>2. ASSUME NEW i \in DOMAIN s, OffTopicAt(a, i)
        PROVE  \E t \in Seq(Functions) : topics' = [topics EXCEPT ![a] = t] /\ Shortened(s, t)
    BY <2>1, <2>2, ShortenedByOne DEF OffTopicAt
  <2>3. \E t \in Seq(Functions) : topics' = [topics EXCEPT ![a] = t] /\ Shortened(s, t)
    <3>1. CASE \E i \in DOMAIN topics[a] : OffTopicAt(a, i)
      BY <2>2, <3>1
    <3>2. CASE \E f \in script : LET i == First(topics[a], f) IN i # 0 /\ OffTopicAt(a, i)
      BY <2>1, <2>2, <3>2, FirstIs
    <3>3. CASE topics' = [topics EXCEPT ![a] = <<>>] /\ FreeEach(topics[a])
      BY <2>1, <3>3, ShortenedToNone
    <3> QED
      BY <1>4, <3>1, <3>2, <3>3 DEF OffTopic
  <2>4. PICK t \in Seq(Functions) : topics' = [topics EXCEPT ![a] = t] /\ Shortened(s, t)
    BY <2>3
  <2> QED
    BY <2>1, <2>4, BalancedTopic DEF Shortened
<1> QED
  BY <1>1, <1>2, <1>3, <1>4 DEF Listen

\* A signal does not hold its listeners before it calls one.
LEMMA SignalHere ==
  ASSUME Typed, NEW a \in Addresses, NEW v, Signal(a, v), publishing = None, calling' = calling
  PROVE  /\ Here' = Here /\ calling = None
         /\ publishing' = None \/ IsSignal'
<1>1. calling = None
  BY DEF Typed, EventTypes
<1>2. publishing' = None \/ IsSignal'
  BY DEF Signal, Publish, IsSignal
<1> QED
  BY <1>1, <1>2 DEF Here, Field

LEMMA OnPublishHere ==
  ASSUME Typed, NEW k \in {"now", "task"}, NEW a \in Addresses, OnPublish(k, a),
         publishing = None, calling' = calling
  PROVE  /\ \A f \in Functions : counts'[f] + Times(f, Here) = counts[f] + Times(f, Here')
         /\ publishing' # None /\ publishing'.todo = publishing'.copies /\ calling = None
<1> DEFINE s == IF attached[a] THEN topics[a] ELSE <<>>
<1>1. s \in Seq(Functions) /\ calling = None
  BY EntryTypes, EmptySeq DEF Typed, EventTypes
<1>2. Publish(k, a, s) /\ Dup(s)
  BY DEF OnPublish, TakeCopies
<1> HIDE DEF s
<1>3. /\ publishing' # None /\ publishing'.kind = k
      /\ publishing'.todo = s /\ publishing'.copies = s
  BY <1>1, <1>2, PublishTyped
<1>4. Here' = s /\ Here = <<>>
  BY <1>3 DEF Here, IsSignal
<1>5. \A f \in Functions : counts'[f] = counts[f] + Times(f, s) /\ Times(f, <<>>) = 0
                           /\ Times(f, s) \in Nat /\ counts[f] \in Int
  BY <1>1, <1>2, TimesShort, PlacesFinite DEF Dup, Typed
<1>6. ASSUME NEW f \in Functions
      PROVE  counts'[f] + Times(f, Here) = counts[f] + Times(f, Here')
  <2>1. Times(f, Here) = 0 /\ Times(f, Here') = Times(f, s)
    BY <1>4, <1>5
  <2>2. counts'[f] = counts[f] + Times(f, s) /\ Times(f, s) \in Nat /\ counts[f] \in Int
    BY <1>5
  <2> QED
    BY <2>1, <2>2
<1> QED
  BY <1>1, <1>3, <1>6

\* A step of a publication, which leaves the slots alone.
LEMMA BalancedPublication ==
  ASSUME Typed, Typed', Balanced, UNCHANGED <<topics, registers, valueHolders, late, attached>>,
         \A f \in Functions : counts'[f] + Times(f, Here) = counts[f] + Times(f, Here')
  PROVE  Balanced'
<1>1. \A b : Slots(b)' = Slots(b)
  BY SameSlots
<1> QED
  BY <1>1, SlotsLess DEF Balanced

LEMMA BalancedEmit ==
  ASSUME Typed, Typed', Lives, Balanced, NEW a \in Addresses, Emit(a)
  PROVE  Balanced'
<1>1. CASE SetProperty(a)
  <2>1. /\ Signal(a, value'[a]) /\ publishing = None
        /\ UNCHANGED <<topics, registers, valueHolders, counts, late, attached, calling>>
    BY <1>1 DEF SetProperty, maps
  <2> QED
    BY <2>1, SignalHere, BalancedSame
<1>2. CASE WorkerSets(a) \/ WorkerEmits(a) \/ WorkerPublishes(a)
  <2>1. UNCHANGED <<topics, registers, valueHolders, counts, late, attached, publication>>
    BY <1>2 DEF WorkerSets, WorkerEmits, WorkerPublishes, maps
  <2> QED
    BY <2>1, SameHere, BalancedSame
<1>3. CASE PublishAtOnce(a)
  <2>1. /\ OnPublish("now", a) /\ publishing = None
        /\ UNCHANGED <<topics, registers, valueHolders, late, attached, calling>>
    BY <1>3 DEF PublishAtOnce, maps
  <2> QED
    BY <2>1, OnPublishHere, BalancedPublication
<1> QED
  BY <1>1, <1>2, <1>3 DEF Emit

LEMMA BalancedScript ==
  ASSUME Typed, Typed', Lives, Balanced,
         Deliver \/ CallListener \/ Return \/ Finish \/ \E f \in Functions : Forget(f)
  PROVE  Balanced'
<1>0. Times(0, <<>>) = 0 /\ \A f \in Functions : Times(f, <<>>) = 0 /\ counts[f] \in Int
  BY TimesShort DEF Typed
<1>1. CASE Deliver
  <2> DEFINE t == Head(tasks)
  <2>1. /\ tasks # <<>> /\ publishing = None
        /\ UNCHANGED <<topics, registers, valueHolders, late, attached, calling>>
        /\ \/ Signal(t.object, t.value) /\ UNCHANGED counts
           \/ OnPublish("task", t.object)
    BY <1>1 DEF Deliver, maps
  <2>2. t.object \in Addresses
    BY <2>1, Before, TaskIs
  <2> HIDE DEF t
  <2>3. CASE Signal(t.object, t.value) /\ UNCHANGED counts
    BY <2>1, <2>2, <2>3, SignalHere, BalancedSame
  <2>4. CASE OnPublish("task", t.object)
    BY <2>1, <2>2, <2>4, OnPublishHere, BalancedPublication
  <2> QED
    BY <2>1, <2>3, <2>4
<1>2. CASE CallListener
  <2>1. /\ publishing # None /\ calling = None /\ publishing.todo # <<>>
        /\ calling' = Head(publishing.todo)
        /\ publishing' = [publishing EXCEPT !.todo = Tail(@)]
        /\ IF IsSignal THEN Dup(<<calling'>>) ELSE UNCHANGED counts
        /\ UNCHANGED <<topics, registers, valueHolders, late, attached>>
    BY <1>2 DEF CallListener, maps
  <2>2. calling' \in Functions /\ calling' # None
    <3>1. publishing.todo \in Seq(Functions)
      BY <2>1, PublicationIs
    <3>2. calling' \in Functions
      BY <2>1, <3>1, HeadTailProperties
    <3> QED
      BY <3>2, ObjectsAssumption
  <2>3. publishing \in Publications /\ publishing' # None
        /\ publishing'.kind = publishing.kind /\ publishing'.copies = publishing.copies
    <3>1. publishing \in Publications /\ publishing' \in Publications \cup {None}
      BY <2>1, PublicationIs DEF Typed, EventTypes
    <3>2. publishing' # None
      BY <2>2 DEF Typed, EventTypes
    <3> QED
      BY <2>1, <3>1, <3>2 DEF Publications
  <2>4. \A f \in Functions : counts'[f] + Times(f, Here) = counts[f] + Times(f, Here')
    <3>1. CASE IsSignal
      <4>1. Here = <<>> /\ Here' = <<calling'>>
        BY <2>1, <2>2, <2>3, <3>1 DEF Here, IsSignal, Field
      <4>2. \A f \in Functions : counts'[f] = counts[f] + Times(f, <<calling'>>)
        BY <2>1, <3>1 DEF Dup
      <4>3. \A f \in Functions : counts'[f] \in Int
        BY DEF Typed
      <4> QED
        BY <1>0, <4>1, <4>2, <4>3
    <3>2. CASE ~IsSignal
      <4>1. Here' = Here
        BY <2>1, <2>3, <3>2 DEF Here, IsSignal
      <4> QED
        BY <2>1, <3>2, <4>1
    <3> QED
      BY <3>1, <3>2
  <2> QED
    BY <2>1, <2>4, BalancedPublication
<1>3. CASE Return
  <2>1. /\ calling # None /\ calling' = None /\ publishing # None
        /\ publishing' = publishing \/ publishing' = [publishing EXCEPT !.todo = <<>>]
        /\ IF IsSignal THEN FreeEach(<<calling>>) ELSE UNCHANGED counts
        /\ UNCHANGED <<topics, registers, valueHolders, late, attached>>
    BY <1>3 DEF Return, maps, Typed, EventTypes
  <2>2. publishing' # None
        /\ publishing'.kind = publishing.kind /\ publishing'.copies = publishing.copies
    <3>1. publishing \in Publications
      BY <2>1, PublicationIs
    <3>2. publishing' \in Publications
      <4>1. <<>> \in Seq(Functions)
        BY EmptySeq
      <4> QED
        BY <2>1, <3>1, <4>1 DEF Publications
    <3> QED
      BY <2>1, <3>1, <3>2, ObjectsAssumption DEF Publications
  <2>3. \A f \in Functions : counts'[f] + Times(f, Here) = counts[f] + Times(f, Here')
    <3>1. CASE IsSignal
      <4>1. Here = <<calling>> /\ Here' = <<>>
        BY <2>1, <2>2, <3>1 DEF Here, IsSignal, Field
      <4>2. <<calling>> \in Seq(Functions)
        BY <2>1 DEF Typed
      <4>3. \A f \in Functions : counts'[f] = counts[f] - Times(f, <<calling>>)
                                 /\ Times(f, <<calling>>) \in Nat
        BY <2>1, <3>1, <4>2, PlacesFinite DEF FreeEach
      <4> QED
        BY <1>0, <4>1, <4>3
    <3>2. CASE ~IsSignal
      <4>1. Here' = Here
        BY <2>1, <2>2, <3>2 DEF Here, IsSignal
      <4> QED
        BY <2>1, <3>2, <4>1
    <3> QED
      BY <3>1, <3>2
  <2> QED
    BY <2>1, <2>3, BalancedPublication
<1>4. CASE Finish
  <2> DEFINE a == publishing.object
  <2>1. /\ publishing # None /\ calling = None /\ publishing' = None
        /\ IF IsSignal THEN UNCHANGED counts ELSE FreeEach(publishing.copies)
        /\ UNCHANGED <<topics, valueHolders, late, attached>>
        /\ UNCHANGED registers \/ Drop(a, "task")
    BY <1>4 DEF Finish
  <2>2. a \in Addresses /\ publishing.copies \in Seq(Functions)
    BY <2>1, PublicationIs
  <2>3. \A f \in Functions : counts'[f] + Times(f, Here) = counts[f] + Times(f, Here')
    <3>1. Here' = <<>>
      BY <2>1 DEF Here
    <3>2. CASE IsSignal
      BY <2>1, <3>1, <3>2 DEF Here, Field
    <3>3. CASE ~IsSignal
      <4>1. Here = publishing.copies
        BY <2>1, <3>3 DEF Here
      <4>2. \A f \in Functions : counts'[f] = counts[f] - Times(f, Here) /\ Times(f, Here) \in Nat
        BY <2>1, <2>2, <3>3, <4>1, PlacesFinite DEF FreeEach
      <4> QED
        BY <1>0, <3>1, <4>2
    <3> QED
      BY <3>2, <3>3
  <2>4. CASE UNCHANGED registers
    BY <2>1, <2>3, <2>4, BalancedPublication
  <2>5. CASE Drop(a, "task")
    <3> DEFINE r == Less(a, "task")
    <3>1. /\ r \in [Addresses -> SUBSET Holders]
          /\ \A b, c \in Addresses : c \in r[b] => r[c] # {}
          /\ \A b \in Addresses : attached[b] <=> "value" \in r[b]
          /\ Release(r, registers, refHolders)
      BY <2>2, <2>5, Dropped
    <3> HIDE DEF r
    <3> QED
      BY <2>1, <2>3, <3>1, BalancedRelease
  <2> QED
    BY <2>1, <2>4, <2>5
<1>5. CASE \E f \in Functions : Forget(f)
  <2>1. UNCHANGED <<topics, registers, valueHolders, counts, late, attached, publication>>
    BY <1>5 DEF Forget, maps
  <2> QED
    BY <2>1, SameHere, BalancedSame
<1> QED
  BY <1>1, <1>2, <1>3, <1>4, <1>5

LEMMA BalancedStep == Typed /\ Typed' /\ Lives /\ RefsBalanced /\ Orphans /\ Next => RefsBalanced' /\ Orphans'
<1> SUFFICES ASSUME Typed, Typed', Lives, RefsBalanced, Orphans, Next PROVE Balanced'
  BY DEF Balanced
<1>1. Balanced
  BY DEF Balanced
<1> QED
  BY <1>1, BalancedLife, BalancedHold, BalancedListen, BalancedEmit, BalancedScript DEF Next

-----------------------------------------------------------------------------
(* The publication, and the property. *)

LEMMA CopiedStep == Typed /\ Copied /\ Next => Copied'
<1> SUFFICES ASSUME Typed, Copied, Next PROVE Copied'
  OBVIOUS
<1>1. CASE UNCHANGED publication
  BY <1>1 DEF Copied, publication, IsSignal, Field
<1>2. ASSUME NEW k \in {"now", "task"}, NEW a \in Addresses, OnPublish(k, a),
             publishing = None, calling' = calling
      PROVE  Copied'
  <2>1. /\ publishing' # None /\ publishing'.todo = publishing'.copies /\ calling' = None
    BY <1>2, OnPublishHere
  <2> QED
    <3>1. Range(Field(calling')) = {}
      BY <2>1 DEF Field, Range
    <3> QED
      BY <2>1, <3>1 DEF Copied
<1>3. ASSUME NEW a \in Addresses, NEW v, Signal(a, v), publishing = None, calling' = calling
      PROVE  Copied'
  BY <1>3, SignalHere DEF Copied
<1>4. CASE Deliver
  <2> DEFINE t == Head(tasks)
  <2>1. /\ tasks # <<>> /\ publishing = None /\ calling' = calling
        /\ Signal(t.object, t.value) \/ OnPublish("task", t.object)
    BY <1>4 DEF Deliver
  <2>2. t.object \in Addresses
    BY <2>1, Before, TaskIs
  <2> HIDE DEF t
  <2> QED
    BY <1>2, <1>3, <2>1, <2>2
<1>5. CASE CallListener
  <2> DEFINE s == publishing.todo
  <2>1. /\ publishing # None /\ s # <<>> /\ calling' = Head(s) /\ calling = None
        /\ publishing' = [publishing EXCEPT !.todo = Tail(@)]
    BY <1>5 DEF CallListener
  <2>2. publishing \in Publications /\ s \in Seq(Functions)
    BY <2>1, PublicationIs
  <2>3. publishing'.kind = publishing.kind /\ publishing'.copies = publishing.copies
        /\ publishing'.todo = Tail(s)
    BY <2>1, <2>2 DEF Publications
  <2> HIDE DEF s
  <2>4. Head(s) \in Range(s) /\ Range(Tail(s)) \subseteq Range(s)
    BY <2>1, <2>2, Before DEF Range
  <2>5. Range(Field(calling')) \subseteq {Head(s)}
    BY <2>1 DEF Field, Range
  <2> QED
    BY <2>1, <2>3, <2>4, <2>5 DEF Copied, IsSignal, s
<1>6. CASE Return
  <2>1. /\ publishing # None /\ calling' = None
        /\ publishing' = publishing \/ publishing' = [publishing EXCEPT !.todo = <<>>]
    BY <1>6 DEF Return, Typed, EventTypes
  <2>2. publishing \in Publications
    BY <2>1, PublicationIs
  <2>3. publishing'.kind = publishing.kind /\ publishing'.copies = publishing.copies
        /\ publishing'.todo \in {publishing.todo, <<>>}
    BY <2>1, <2>2 DEF Publications
  <2>4. Range(<<>>) = {} /\ Field(calling') = <<>>
    BY <2>1 DEF Range, Field
  <2> QED
    BY <2>1, <2>3, <2>4 DEF Copied, IsSignal
<1>7. CASE Finish
  BY <1>7 DEF Finish, Copied
<1>8. ASSUME NEW a \in Addresses, Life(a) \/ Hold(a) \/ Listen(a) PROVE UNCHANGED publication
  BY <1>8 DEF Life, Hold, Listen, NewInstance, Collect, FreeMethods, Take, LetGo, SetValue,
     RemoveValue, SetRef, RemoveRef, On, OnTopic, Off, OffTopic
<1>9. ASSUME NEW a \in Addresses, Emit(a) PROVE Copied'
  <2>1. CASE SetProperty(a)
    BY <1>3, <2>1 DEF SetProperty
  <2>2. CASE PublishAtOnce(a)
    BY <1>2, <2>2 DEF PublishAtOnce
  <2>3. CASE WorkerSets(a) \/ WorkerEmits(a) \/ WorkerPublishes(a)
    BY <1>1, <2>3 DEF WorkerSets, WorkerEmits, WorkerPublishes
  <2> QED
    BY <1>9, <2>1, <2>2, <2>3 DEF Emit
<1>10. ASSUME NEW f \in Functions, Forget(f) PROVE UNCHANGED publication
  BY <1>10 DEF Forget
<1> QED
  BY <1>1, <1>4, <1>5, <1>6, <1>7, <1>8, <1>9, <1>10 DEF Next

\* A step that loses signals of dead objects only.
LEMMA CurrentKept ==
  ASSUME Typed, Current, UNCHANGED <<value, unsent, setters, told>>,
         \A a \in Addresses : attached'[a] => attached[a],
         \A a \in Addresses : NoSignal(tasks, a) => NoSignal(tasks', a),
         \A a \in Addresses : \A v : attached'[a] /\ LastSignal(tasks, a, v) => LastSignal(tasks', a, v)
  PROVE  Current'
BY DEF Current

LEMMA CurrentRelease ==
  ASSUME Typed, Current, UNCHANGED <<value, unsent, setters, told>>,
         NEW r \in [Addresses -> SUBSET Holders], NEW regs, NEW holders,
         Release(r, regs, holders),
         \A a, b \in Addresses : b \in r[a] => r[b] # {},
         \A a \in Addresses : attached'[a] => attached[a],
         \A b \in Addresses : attached'[b] <=> "value" \in r[b]
  PROVE  Current'
<1>1. /\ \A a : NoSignal(tasks, a) => NoSignal(tasks', a)
      /\ \A a, v : a \notin Dead(r) /\ LastSignal(tasks, a, v) => LastSignal(tasks', a, v)
  BY Released
<1>2. \A a \in Addresses : attached'[a] => a \notin Dead(r)
  BY DEF Dead
<1> QED
  BY <1>1, <1>2, CurrentKept

LEMMA CurrentSame ==
  ASSUME Typed, Current, UNCHANGED <<value, unsent, setters, told, attached, tasks>>
  PROVE  Current'
BY DEF Current

LEMMA CurrentObjects ==
  ASSUME Typed, Lives, Current, NEW a \in Addresses, Life(a) \/ Hold(a) \/ Listen(a)
  PROVE  Current'
<1>1. CASE NewInstance(a)
  <2>1. /\ refs[a] = {} /\ attached' = [attached EXCEPT ![a] = TRUE] /\ tasks' = tasks
        /\ value' = [value EXCEPT ![a] = 0] /\ unsent' = [unsent EXCEPT ![a] = FALSE]
        /\ setters' = [setters EXCEPT ![a] = {}] /\ told' = [told EXCEPT ![a] = 0]
    BY <1>1 DEF NewInstance, Constructed, Attach
  <2>2. NoSignal(tasks, a)
    BY <2>1 DEF NoSignal, IsSignalOf, Lives
  <2>3. /\ value'[a] = 0 /\ unsent'[a] = FALSE /\ setters'[a] = {} /\ told'[a] = 0
        /\ \A b \in Addresses : b # a =>
             /\ attached'[b] = attached[b] /\ value'[b] = value[b] /\ unsent'[b] = unsent[b]
             /\ setters'[b] = setters[b] /\ told'[b] = told[b]
    BY <2>1 DEF Typed, EventTypes
  <2> QED
    BY <2>1, <2>2, <2>3 DEF Current
<1>2. CASE Collect(a)
  <2> DEFINE r == Collected(a)
             regs == IF a \in DOMAIN registers THEN Put(registers, a, <<>>) ELSE registers
             holders == Without(refHolders, {a})
  <2>1. /\ r \in [Addresses -> SUBSET Holders]
        /\ \A b, c \in Addresses : c \in r[b] => r[c] # {}
        /\ Release(r, regs, holders)
        /\ \A b \in Addresses : attached'[b] <=> "value" \in r[b]
    BY <1>2, CollectReleases
  <2>2. attached' = [attached EXCEPT ![a] = FALSE] /\ UNCHANGED <<value, unsent, setters, told>>
    BY <1>2 DEF Collect, property
  <2>3. \A b \in Addresses : attached'[b] => attached[b]
    BY <2>2 DEF Typed
  <2> HIDE DEF r, regs, holders
  <2> QED
    BY <2>1, <2>2, <2>3, CurrentRelease
<1>3. CASE FreeMethods(a) \/ LetGo(a)
  <2>1. /\ UNCHANGED <<value, unsent, setters, told, attached>>
        /\ \E h \in {"methods", "worker"} : Drop(a, h)
    BY <1>3 DEF FreeMethods, LetGo, property
  <2>2. PICK h \in {"methods", "worker"} : Drop(a, h)
    BY <2>1
  <2> DEFINE r == Less(a, h)
  <2>3. /\ r \in [Addresses -> SUBSET Holders]
        /\ \A b, c \in Addresses : c \in r[b] => r[c] # {}
        /\ \A b \in Addresses : attached[b] <=> "value" \in r[b]
        /\ Release(r, registers, refHolders)
    BY <2>2, Dropped
  <2> HIDE DEF r
  <2> QED
    BY <2>1, <2>3, CurrentRelease
<1>4. ASSUME NEW b \in Addresses, SetRef(a, b) PROVE Current'
  <2> DEFINE r == Linked(a, b)
             holders == Put(refHolders, a, b)
  <2>1. /\ r \in [Addresses -> SUBSET Holders]
        /\ \A x, y \in Addresses : y \in r[x] => r[y] # {}
        /\ \A x \in Addresses : attached[x] <=> "value" \in r[x]
        /\ Release(r, registers, holders)
    BY <1>4, SetRefReleases
  <2>2. UNCHANGED <<value, unsent, setters, told, attached>>
    BY <1>4 DEF SetRef, property
  <2> HIDE DEF r, holders
  <2> QED
    BY <2>1, <2>2, CurrentRelease
<1>5. CASE RemoveRef(a)
  <2> DEFINE r == OthersHeld(a)
             holders == Put(refHolders, a, None)
  <2>1. /\ r \in [Addresses -> SUBSET Holders]
        /\ \A x, y \in Addresses : y \in r[x] => r[y] # {}
        /\ \A x \in Addresses : attached[x] <=> "value" \in r[x]
        /\ Release(r, registers, holders)
    BY <1>5, RemoveRefReleases
  <2>2. UNCHANGED <<value, unsent, setters, told, attached>>
    BY <1>5 DEF RemoveRef, property
  <2> HIDE DEF r, holders
  <2> QED
    BY <2>1, <2>2, CurrentRelease
<1>6. CASE Take(a) \/ RemoveValue(a) \/ (\E f \in Functions : SetValue(a, f)) \/ Listen(a)
  <2>1. UNCHANGED <<value, unsent, setters, told, attached, tasks>>
    BY <1>6 DEF Take, RemoveValue, SetValue, Listen, On, OnTopic, Off, OffTopic, property
  <2> QED
    BY <2>1, CurrentSame
<1> QED
  BY <1>1, <1>2, <1>3, <1>4, <1>5, <1>6 DEF Life, Hold

LEMMA CurrentEmit ==
  ASSUME Typed, Lives, Current, NEW a \in Addresses, Emit(a)
  PROVE  Current'
<1>0. tasks \in Seq(TaskTypes) /\ DOMAIN setters = Addresses
  BY TaskIs DEF Typed, EventTypes
<1>1. CASE SetProperty(a)
  <2>1. /\ setters' = [setters EXCEPT ![a] = @ \cup {"script"}]
        /\ UNCHANGED <<unsent, attached, tasks>>
        /\ told' = IF attached[a] THEN [told EXCEPT ![a] = value'[a]] ELSE told
        /\ \A b \in Addresses : b # a => value'[b] = value[b]
    BY <1>1 DEF SetProperty, Changed, Signal, Typed
  <2>2. /\ \A b \in Addresses : b # a => setters'[b] = setters[b] /\ told'[b] = told[b]
        /\ "script" \in setters'[a] /\ ("worker" \in setters'[a] <=> "worker" \in setters[a])
        /\ attached[a] => told'[a] = value'[a]
    BY <1>0, <2>1 DEF Typed
  <2> QED
    BY <2>1, <2>2 DEF Current
<1>2. CASE WorkerSets(a)
  <2>1. /\ setters' = [setters EXCEPT ![a] = @ \cup {"worker"}]
        /\ unsent' = [unsent EXCEPT ![a] = TRUE]
        /\ UNCHANGED <<told, attached, tasks>>
        /\ \A b \in Addresses : b # a => value'[b] = value[b]
    BY <1>2 DEF WorkerSets, Changed, Typed
  <2>2. /\ \A b \in Addresses : b # a => setters'[b] = setters[b] /\ unsent'[b] = unsent[b]
        /\ "worker" \in setters'[a] /\ unsent'[a]
    BY <1>0, <2>1 DEF Typed, EventTypes
  <2> QED
    BY <2>1, <2>2 DEF Current
<1>3. CASE WorkerEmits(a)
  <2> DEFINE t == Task("signal", a, value[a])
  <2>1. /\ unsent[a] /\ unsent' = [unsent EXCEPT ![a] = FALSE] /\ tasks' = Append(tasks, t)
        /\ UNCHANGED <<attached, value, setters, told>>
    BY <1>3 DEF WorkerEmits, Queued
  <2>2. t \in TaskTypes /\ t.value = value[a] /\ \A b : IsSignalOf(t, b) <=> b = a
    BY DEF Task, TaskTypes, Typed, IsSignalOf
  <2> HIDE DEF t
  <2>3. "worker" \in setters[a]
    BY <2>1 DEF Current
  <2>4. LastSignal(tasks', a, value[a])
    BY <1>0, <2>1, <2>2, Behind
  <2>5. \A b \in Addresses : b # a =>
          /\ unsent'[b] = unsent[b]
          /\ NoSignal(tasks, b) => NoSignal(tasks', b)
          /\ \A v : LastSignal(tasks, b, v) => LastSignal(tasks', b, v)
    BY <1>0, <2>1, <2>2, Behind DEF Typed, EventTypes
  <2> QED
    BY <2>1, <2>3, <2>4, <2>5 DEF Current
<1>4. CASE PublishAtOnce(a)
  <2>1. UNCHANGED <<value, unsent, setters, told, attached, tasks>>
    BY <1>4 DEF PublishAtOnce, property
  <2> QED
    BY <2>1, CurrentSame
<1>5. CASE WorkerPublishes(a)
  <2> DEFINE t == Task("topic", a, 0)
  <2>1. UNCHANGED <<value, unsent, setters, told, attached>> /\ tasks' = Append(tasks, t)
    BY <1>5 DEF WorkerPublishes, Queued, property
  <2>2. t \in TaskTypes /\ \A b : ~IsSignalOf(t, b)
    BY ObjectsAssumption DEF Task, TaskTypes, IsSignalOf
  <2> HIDE DEF t
  <2>3. \A b \in Addresses :
          /\ NoSignal(tasks, b) => NoSignal(tasks', b)
          /\ \A v : LastSignal(tasks, b, v) => LastSignal(tasks', b, v)
    BY <1>0, <2>1, <2>2, Behind
  <2> QED
    BY <2>1, <2>3, CurrentKept
<1> QED
  BY <1>1, <1>2, <1>3, <1>4, <1>5 DEF Emit

LEMMA CurrentScript ==
  ASSUME Typed, Lives, Current,
         Deliver \/ CallListener \/ Return \/ Finish \/ \E f \in Functions : Forget(f)
  PROVE  Current'
<1>0. tasks \in Seq(TaskTypes)
  BY TaskIs
<1>1. CASE Deliver
  <2> DEFINE t == Head(tasks)
  <2>1. /\ tasks # <<>> /\ tasks' = Tail(tasks)
        /\ UNCHANGED <<value, unsent, setters, attached>>
        /\ \/ t.kind = "signal" /\ Signal(t.object, t.value)
           \/ t.kind = "topic" /\ told' = told
    BY <1>1 DEF Deliver
  <2>2. t.object \in Addresses /\ t = tasks[1] /\ 1 \in DOMAIN tasks
    BY <1>0, <2>1, Before, TaskIs
  <2>3. \A b : /\ NoSignal(tasks, b) => NoSignal(tasks', b)
               /\ \A v : LastSignal(tasks, b, v) =>
                    \/ LastSignal(tasks', b, v)
                    \/ NoSignal(tasks', b) /\ IsSignalOf(t, b) /\ t.value = v
    BY <1>0, <2>1, Before
  <2>4. \A b : IsSignalOf(t, b) => ~NoSignal(tasks, b)
    BY <2>2 DEF NoSignal
  <2> HIDE DEF t
  <2>5. ASSUME NEW b \in Addresses, IsSignalOf(t, b)
        PROVE  attached[b] => told'[b] = t.value
    BY <2>1, <2>5 DEF IsSignalOf, Signal, Typed
  <2>6. ASSUME NEW b \in Addresses, ~IsSignalOf(t, b)
        PROVE  told'[b] = told[b]
    BY <2>1, <2>2, <2>6 DEF IsSignalOf, Signal, Typed
  <2> QED
    BY <2>1, <2>3, <2>4, <2>5, <2>6 DEF Current
<1>2. CASE CallListener \/ Return \/ \E f \in Functions : Forget(f)
  <2>1. UNCHANGED <<value, unsent, setters, told, attached, tasks>>
    BY <1>2 DEF CallListener, Return, Forget, property
  <2> QED
    BY <2>1, CurrentSame
<1>3. CASE Finish
  <2> DEFINE a == publishing.object
  <2>1. /\ publishing # None /\ UNCHANGED <<value, unsent, setters, told, attached>>
        /\ UNCHANGED tasks \/ Drop(a, "task")
    BY <1>3 DEF Finish, property
  <2>2. a \in Addresses
    BY <2>1, PublicationIs
  <2>3. CASE UNCHANGED tasks
    BY <2>1, <2>3, CurrentSame
  <2>4. CASE Drop(a, "task")
    <3> DEFINE r == Less(a, "task")
    <3>1. /\ r \in [Addresses -> SUBSET Holders]
          /\ \A b, c \in Addresses : c \in r[b] => r[c] # {}
          /\ \A b \in Addresses : attached[b] <=> "value" \in r[b]
          /\ Release(r, registers, refHolders)
      BY <2>2, <2>4, Dropped
    <3> HIDE DEF r
    <3> QED
      BY <2>1, <3>1, CurrentRelease
  <2> QED
    BY <2>1, <2>3, <2>4
<1> QED
  BY <1>1, <1>2, <1>3

LEMMA CurrentStep == Typed /\ Lives /\ Current /\ Next => Current'
  BY CurrentObjects, CurrentEmit, CurrentScript DEF Next

-----------------------------------------------------------------------------
(* The theorems. *)

LEMMA InitInv == Init => IInv
<1> SUFFICES ASSUME Init PROVE IInv
  OBVIOUS
<1>1. 0 \in 0..MaxActs /\ 0 \in 0..MaxObjects
  BY ObjectsAssumption
<1>2. <<>> \in Seq(Functions) /\ <<>> \in Seq(TaskTypes) /\ DOMAIN <<>> = {}
  BY EmptySeq
<1>3. DOMAIN valueHolders = {} /\ DOMAIN refHolders = {} /\ DOMAIN registers = {} /\ tasks = <<>>
  BY <1>2 DEF Init
<1>4. SlotTypes
  BY <1>2, <1>3 DEF Init, SlotTypes
<1>5. EventTypes
  BY <1>2 DEF Init, EventTypes
<1>6. Typed
  BY <1>1, <1>3, <1>4, <1>5 DEF Init, Typed, Holders
<1>7. Lives
  BY <1>2, <1>3 DEF Init, Lives
<1>8. \A a \in Addresses : Slots(a) = <<>>
  <2>1. \A a \in Addresses : Slots(a) = <<>> \o <<>> \o <<>>
    BY <1>3 DEF Init, Slots, Entry, Field
  <2> QED
    BY <2>1, EmptySeq, ConcatEmptySeq
<1>9. \A f \in Functions : Owned(f) = 0 /\ counts[f] = 0
  <2>1. RowTyped /\ Here = <<>>
    BY <1>6, RowIs DEF Init, Here
  <2>2. \A f : Times(f, Here) = 0
    BY <2>1, TimesShort
  <2>3. Row \in Lists /\ \A a \in Addresses : Row[a] = <<>>
    BY <1>8, <2>1 DEF RowTyped
  <2>4. \A f : Spread(f, Row) = 0
    BY <2>3, SpreadEmpty
  <2>5. \A f : Owned(f) = 0 + 0
    BY <2>1, <2>2, <2>4 DEF RowTyped
  <2> QED
    BY <2>5 DEF Init
<1>10. RefsBalanced
  BY <1>9 DEF RefsBalanced
<1>11. Orphans
  BY <1>8 DEF Orphans, Range
<1>12. Copied
  BY DEF Init, Copied
<1>13. Current
  BY <1>2, <1>3 DEF Init, Current, NoSignal
<1> QED
  BY <1>6, <1>7, <1>10, <1>11, <1>12, <1>13 DEF IInv

LEMMA Stutter == IInv /\ UNCHANGED vars => IInv'
<1> SUFFICES ASSUME IInv, UNCHANGED vars PROVE IInv'
  OBVIOUS
<1> USE DEF vars, counters, maps, property, publication
<1>1. Typed'
  BY DEF IInv, Typed, SlotTypes, EventTypes
<1>2. Lives'
  BY DEF IInv, Lives
<1>3. RefsBalanced' /\ Orphans'
  <2>1. Here' = Here
    BY SameHere
  <2> QED
    BY <1>1, <2>1, BalancedSame DEF IInv, Balanced
<1>4. Copied'
  BY DEF IInv, Copied, IsSignal, Field
<1>5. Current'
  BY CurrentSame DEF IInv
<1> QED
  BY <1>1, <1>2, <1>3, <1>4, <1>5 DEF IInv

\* No step of an object, of its users or of a publication breaks the invariant.
THEOREM InvStep == IInv /\ [Next]_vars => IInv'
<1> SUFFICES ASSUME IInv, [Next]_vars PROVE IInv'
  OBVIOUS
<1>1. CASE UNCHANGED vars
  BY <1>1, Stutter
<1>2. CASE Next
  <2>1. Typed /\ Lives /\ RefsBalanced /\ Orphans /\ Copied /\ Current
    BY DEF IInv
  <2>2. Typed' /\ Lives'
    BY <1>2, <2>1, TypedStep, LivesStep
  <2>3. RefsBalanced' /\ Orphans'
    BY <1>2, <2>1, <2>2, BalancedStep
  <2>4. Copied' /\ Current'
    BY <1>2, <2>1, CopiedStep, CurrentStep
  <2> QED
    BY <2>2, <2>3, <2>4 DEF IInv
<1> QED
  BY <1>1, <1>2

LEMMA Invariance == Spec => []IInv
  BY InitInv, InvStep, PTL DEF Spec

LEMMA TypesFollow == IInv => TypeOK
<1> SUFFICES ASSUME IInv PROVE TypeOK
  OBVIOUS
<1>1. Typed
  BY DEF IInv
<1>2. \A f \in Functions : counts[f] >= Owned(f) /\ Owned(f) \in Nat /\ counts[f] \in Int
  <2>1. RowTyped
    BY <1>1, RowIs
  <2>2. \A f : Owned(f) \in Nat
    BY <2>1 DEF RowTyped
  <2> QED
    BY <1>1, <2>2 DEF IInv, RefsBalanced, Typed
<1>3. counts \in [Functions -> Nat]
  BY <1>1, <1>2 DEF Typed
<1> QED
  BY <1>1, <1>3 DEF Typed, TypeOK, Holders

\* The variables keep their types; no count of a function becomes negative.
THEOREM TypeCorrect == Spec => []TypeOK
  BY Invariance, TypesFollow, PTL

\* Every function in a slot is counted, and only those given to an object behind
\* its collection are counted longer.
THEOREM CountsBalance == Spec => []RefsBalanced
<1>1. IInv => RefsBalanced
  BY DEF IInv
<1> QED
  BY <1>1, Invariance, PTL

\* A free address is in none of the template's maps, and in no task.
THEOREM NothingIsLeft == Spec => []DeadLeavesNothing
<1>1. IInv => DeadLeavesNothing
  <2> SUFFICES ASSUME IInv, NEW a \in Addresses, refs[a] = {}
               PROVE  /\ a \notin DOMAIN valueHolders \cup DOMAIN refHolders \cup DOMAIN registers \cup hooks
                      /\ \A i \in DOMAIN tasks : tasks[i].object # a
    BY DEF DeadLeavesNothing
  <2>1. ~attached[a]
    BY DEF IInv, Lives
  <2> QED
    BY <2>1 DEF IInv, Lives
<1> QED
  BY <1>1, Invariance, PTL

\* Who holds an object that nobody uses is itself attached.
THEOREM NoCircleStays == Spec => []CirclesGo
<1>1. IInv => CirclesGo
  <2> SUFFICES ASSUME IInv, NEW a \in Addresses, refs[a] # {},
                      refs[a] \cap {"value", "methods", "worker", "task"} = {}
               PROVE  \E b \in Addresses : b \in refs[a] /\ attached[b]
    BY DEF CirclesGo
  <2>1. refs[a] \subseteq Holders
    BY DEF IInv, Typed
  <2>2. PICK b \in refs[a] : b \in Addresses
    BY <2>1 DEF Holders
  <2> QED
    BY <2>2 DEF IInv, Lives
<1> QED
  BY <1>1, Invariance, PTL

\* A topic calls no listener that has been freed.
THEOREM TopicsCallLive == Spec => []TopicCallsLive
<1>1. IInv => TopicCallsLive
  <2> SUFFICES ASSUME IInv, publishing # None, ~IsSignal,
                      NEW f \in Range(publishing.todo) \cup Range(Field(calling))
               PROVE  ~Freed(f)
    BY DEF TopicCallsLive
  <2>1. f \in Range(publishing.copies) /\ publishing.copies \in Seq(Functions)
    BY PublicationIs DEF IInv, Copied
  <2>2. f \in Functions /\ Times(f, publishing.copies) # 0
    BY <2>1, TimesPositive, RangeOfSeq
  <2>3. Here = publishing.copies
    BY DEF Here
  <2>4. RowTyped
    BY RowIs DEF IInv
  <2>5. Owned(f) = Times(f, Here) + Spread(f, Row) /\ Times(f, Here) \in Nat /\ Spread(f, Row) \in Nat
    BY <2>4 DEF RowTyped
  <2>6. counts[f] >= Owned(f)
    BY <2>2 DEF IInv, RefsBalanced
  <2>7. counts[f] # 0
    BY <2>2, <2>3, <2>5, <2>6
  <2> QED
    BY <2>7 DEF Freed
<1> QED
  BY <1>1, Invariance, PTL

\* What one thread has set a property to last is what the script is told last.
THEOREM ToldIsCurrent == Spec => []LastToldIsCurrent
<1>1. IInv => LastToldIsCurrent
  <2> SUFFICES ASSUME IInv, NEW a \in Addresses,
                      attached[a], ~unsent[a], Cardinality(setters[a]) = 1,
                      \A i \in DOMAIN tasks : tasks[i].kind = "topic" \/ tasks[i].object # a
               PROVE  told[a] = value[a]
    BY DEF LastToldIsCurrent
  <2>1. Current /\ setters[a] \subseteq {"script", "worker"}
    BY DEF IInv, Typed, EventTypes
  <2>2. \A i \in DOMAIN tasks : ~IsSignalOf(tasks[i], a)
    BY DEF IsSignalOf
  <2>3. CASE "worker" \notin setters[a]
    BY <2>1, <2>3 DEF Current
  <2>4. CASE "worker" \in setters[a]
    <3>1. "script" \notin setters[a]
      <4>1. IsFiniteSet({"script"}) /\ Cardinality({"script"}) = 1
        BY FS_Singleton
      <4>0. "worker" \notin {"script"}
        OBVIOUS
      <4> DEFINE S == {"script"}
      <4> HIDE DEF S
      <4>2. Cardinality(S \cup {"worker"}) = 1 + 1
        <5>1. IsFiniteSet(S) /\ Cardinality(S) = 1 /\ "worker" \notin S
          BY <4>0, <4>1 DEF S
        <5>2. Cardinality(S \cup {"worker"}) = Cardinality(S) + 1
          BY <5>1, FS_AddElement
        <5> QED
          BY <5>1, <5>2
      <4>3. S \cup {"worker"} = {"script", "worker"}
        BY DEF S
      <4>4. Cardinality({"script", "worker"}) = 2
        BY <4>2, <4>3
      <4> QED
        <5> SUFFICES ASSUME "script" \in setters[a] PROVE FALSE
          OBVIOUS
        <5>1. setters[a] = {"script", "worker"}
          BY <2>1, <2>4
        <5> QED
          BY <4>4, <5>1
    <3>2. ~LastSignal(tasks, a, value[a])
      BY <2>2 DEF LastSignal
    <3> QED
      BY <2>1, <3>1, <3>2 DEF Current
  <2> QED
    BY <2>3, <2>4
<1> QED
  BY <1>1, Invariance, PTL
=============================================================================
