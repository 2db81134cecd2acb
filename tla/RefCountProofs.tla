--------------------------- MODULE RefCountProofs ---------------------------
(***************************************************************************)
(* What RefCount guarantees for any number of pointers and threads, all of *)
(* which promote.  The inductive invariant says what each count is made    *)
(* of, pointer by pointer; that a thread in the middle of an operation     *)
(* still has the pointer that the operation began with; and that, until a  *)
(* promotion is tricked, exactly one pointer is on the way from the loss   *)
(* of the last owner to the deletion, while the failing and the misled     *)
(* promotions are in nobody's way.  That two threads trick nobody is a     *)
(* second invariant on top of it.                                          *)
(***************************************************************************)
EXTENDS RefCount, FiniteSetTheorems, TLAPS

States == Busy \cup {"null", "held"}

In(X, S) == {p \in X : state[p] \in S}

\* In these states a pointer stands for one strong or weak reference, and in
\* those for one more.
StrongOnce == {"copying", "held", "won", "misled", "lost", "losing", "raising", "raised", "lowering"}
StrongTwice == {"raising", "raised"}
WeakOnce == {"held", "promoting", "won", "misled", "lost", "dropping", "last", "droppingLast",
             "raising", "raised", "lowering", "reading"}
WeakTwice == {"raised", "lowering"}

Types ==
    /\ strong \in Int /\ weak \in Int /\ strays \in Nat /\ deletions \in Nat
    /\ ref \in BOOLEAN /\ object \in BOOLEAN /\ counters \in BOOLEAN /\ tricked \in BOOLEAN
    /\ state \in [Pointers -> States]
    /\ \A p \in Weak : state[p] \in {"null", "held", "lowering", "reading", "finding", "dropping"}
    /\ at \in [Pointers -> Threads]

Counted ==
    /\ strong = Cardinality(In(Strong, StrongOnce)) + Cardinality(In(Strong, StrongTwice)) + strays
    /\ weak = Cardinality(In(Pointers, WeakOnce)) + Cardinality(In(Pointers, WeakTwice)) + strays
    /\ counters <=> weak # 0

\* One operation per thread, and the pointer it has begun with.
OneEach ==
    \A p, q \in Pointers : at[p] = at[q] /\ {state[p], state[q]} \subseteq Busy => p = q

Backed ==
    \A p \in Pointers :
        /\ state[p] = "copying" => Holds(at[p], Strong)
        /\ state[p] \in {"promoting", "won", "misled", "lost", "losing", "finding"} =>
             Holds(at[p], Weak)

\* Who has taken the count to zero, and has not deleted the object yet.
Ending == In(Strong, {"last", "droppingLast", "deleting"})

\* Promotions that have raised the count with no owner there.
Vain == In(Strong, {"lost", "losing", "misled"})

Lives ==
    /\ Vain # {} \/ strays # 0 => Owners = {}
    /\ Owners # {} => object /\ ref /\ Ending = {}
    /\ \A p, q \in Ending : p = q
    /\ Ending # {} => object
    /\ Owners = {} /\ object => Ending # {}
    /\ deletions = IF object THEN 0 ELSE 1
    /\ ref => Owners # {} \/ In(Strong, {"last"}) # {}
    /\ ref => strays = 0

\* Until a promotion is tricked; and then the object still goes.
Sound ==
    /\ tricked \/ Lives
    /\ tricked /\ object => Ending # {}

IInv == Types /\ Counted /\ OneEach /\ Backed /\ Sound

-----------------------------------------------------------------------------
\* Counting.  A pointer that goes from one state to another moves each count by
\* what the two states stand for.
StrongOf(p, s) ==
    IF p \in Weak THEN 0
    ELSE (IF s \in StrongOnce THEN 1 ELSE 0) + (IF s \in StrongTwice THEN 1 ELSE 0)

WeakOf(s) ==
    (IF s \in WeakOnce THEN 1 ELSE 0) + (IF s \in WeakTwice THEN 1 ELSE 0)

LEMMA PointersFinite ==
    /\ IsFiniteSet(Strong) /\ IsFiniteSet(Weak) /\ IsFiniteSet(Pointers)
    /\ Strong \subseteq Pointers /\ Weak \subseteq Pointers /\ Strong \cap Weak = {}
BY PointerAssumption, FS_Union DEF Pointers

\* A set of pointers in given states is finite, and not empty with a member.
LEMMA InFinite ==
    ASSUME NEW X \in SUBSET Pointers, NEW S
    PROVE  /\ IsFiniteSet(In(X, S)) /\ Cardinality(In(X, S)) \in Nat
           /\ Cardinality(In(X, S)) <= Cardinality(X)
           /\ Cardinality(In(X, S)) = 0 <=> In(X, S) = {}
           /\ \A p \in In(X, S) : Cardinality(In(X, S)) = 1 => In(X, S) = {p}
<1>1. IsFiniteSet(X)
  BY PointersFinite, FS_Subset
<1>2. In(X, S) \in SUBSET X
  BY DEF In
<1>3. IsFiniteSet(In(X, S)) /\ Cardinality(In(X, S)) <= Cardinality(X)
  BY <1>1, <1>2, FS_Subset
<1> QED
  BY <1>3, FS_CardinalityType, FS_EmptySet, FS_Singleton

LEMMA CountMove ==
    ASSUME state \in [Pointers -> States], NEW p \in Pointers, NEW s \in States, Step(p, s),
           NEW X \in SUBSET Pointers, NEW S
    PROVE  Cardinality(In(X, S))' =
              Cardinality(In(X, S)) + (IF p \in X /\ s \in S THEN 1 ELSE 0)
                - (IF p \in X /\ state[p] \in S THEN 1 ELSE 0)
<1> DEFINE rest == In(X, S) \ {p}
<1>1. IsFiniteSet(rest) /\ Cardinality(rest) \in Nat
      /\ Cardinality(rest) = Cardinality(In(X, S))
                               - (IF p \in X /\ state[p] \in S THEN 1 ELSE 0)
  <2>1. p \in In(X, S) <=> p \in X /\ state[p] \in S
    BY DEF In
  <2>2. IsFiniteSet(In(X, S)) /\ Cardinality(In(X, S)) \in Nat
    BY InFinite
  <2>3. /\ IsFiniteSet(rest)
        /\ Cardinality(rest) = IF p \in In(X, S) THEN Cardinality(In(X, S)) - 1
                              ELSE Cardinality(In(X, S))
    BY <2>2, FS_RemoveElement
  <2>4. Cardinality(rest) \in Nat
    BY <2>3, FS_CardinalityType
  <2> HIDE DEF rest
  <2> QED
    BY <2>1, <2>2, <2>3, <2>4
<1>2. In(X, S)' = IF p \in X /\ s \in S THEN rest \cup {p} ELSE rest
  BY DEF In, Step
<1>3. Cardinality(rest \cup {p}) = Cardinality(rest) + 1
  BY <1>1, FS_AddElement
<1> QED
  BY <1>1, <1>2, <1>3, InFinite

LEMMA CountsMove ==
    ASSUME Types, Counted, NEW p \in Pointers, NEW s \in States, Step(p, s),
           strays' \in Nat,
           strong' = strong + StrongOf(p, s) - StrongOf(p, state[p]) + strays' - strays,
           weak' = weak + WeakOf(s) - WeakOf(state[p]) + strays' - strays,
           counters' <=> weak' # 0
    PROVE  Counted'
<1> USE PointersFinite
<1>1. /\ Cardinality(In(Strong, StrongOnce)) \in Nat /\ Cardinality(In(Strong, StrongTwice)) \in Nat
      /\ Cardinality(In(Pointers, WeakOnce)) \in Nat /\ Cardinality(In(Pointers, WeakTwice)) \in Nat
  BY InFinite
<1>2. Cardinality(In(Strong, StrongOnce))' = Cardinality(In(Strong, StrongOnce))
        + (IF p \in Strong /\ s \in StrongOnce THEN 1 ELSE 0)
        - (IF p \in Strong /\ state[p] \in StrongOnce THEN 1 ELSE 0)
  BY CountMove DEF Types
<1>3. Cardinality(In(Strong, StrongTwice))' = Cardinality(In(Strong, StrongTwice))
        + (IF p \in Strong /\ s \in StrongTwice THEN 1 ELSE 0)
        - (IF p \in Strong /\ state[p] \in StrongTwice THEN 1 ELSE 0)
  BY CountMove DEF Types
<1>4. Cardinality(In(Pointers, WeakOnce))' = Cardinality(In(Pointers, WeakOnce))
        + (IF s \in WeakOnce THEN 1 ELSE 0) - (IF state[p] \in WeakOnce THEN 1 ELSE 0)
  BY CountMove DEF Types
<1>5. Cardinality(In(Pointers, WeakTwice))' = Cardinality(In(Pointers, WeakTwice))
        + (IF s \in WeakTwice THEN 1 ELSE 0) - (IF state[p] \in WeakTwice THEN 1 ELSE 0)
  BY CountMove DEF Types
<1>6. p \in Weak <=> p \notin Strong
  BY DEF Pointers
<1>7. strong' = Cardinality(In(Strong, StrongOnce))' + Cardinality(In(Strong, StrongTwice))' + strays'
  BY <1>1, <1>2, <1>3, <1>6 DEF Counted, StrongOf, Types
<1>8. weak' = Cardinality(In(Pointers, WeakOnce))' + Cardinality(In(Pointers, WeakTwice))' + strays'
  BY <1>1, <1>4, <1>5 DEF Counted, WeakOf, Types
<1> QED
  BY <1>7, <1>8 DEF Counted

-----------------------------------------------------------------------------
\* What the counts tell.  Without promotions in vain the strong count is that of
\* the owners.
LEMMA OwnersCounted ==
    ASSUME Types, Counted
    PROVE  /\ strong \in Nat /\ weak \in Nat
           /\ Vain = {} /\ strays = 0 => (strong = 0 <=> Owners = {})
           /\ \A p \in Strong : strong = 1 /\ p \in Owners => Owners = {p}
           /\ \A p \in Strong : Owners = {p} /\ state[p] = "held" /\ Vain = {} /\ strays = 0
                => strong = 1
           /\ \A p \in Pointers : state[p] \in WeakOnce => weak # 0
           /\ strays = 0 => (weak = 0 <=> In(Pointers, WeakOnce) = {})
<1> USE PointersFinite
<1> DEFINE s1 == In(Strong, StrongOnce)
           s2 == In(Strong, StrongTwice)
           w1 == In(Pointers, WeakOnce)
           w2 == In(Pointers, WeakTwice)
<1>1. /\ Cardinality(s1) \in Nat /\ Cardinality(s2) \in Nat
      /\ Cardinality(s1) <= Cardinality(Strong) /\ Cardinality(s2) <= Cardinality(Strong)
      /\ Cardinality(s1) = 0 <=> s1 = {}
      /\ Cardinality(s2) = 0 <=> s2 = {}
      /\ \A p \in s1 : Cardinality(s1) = 1 => s1 = {p}
  BY InFinite
<1>2. /\ Cardinality(w1) \in Nat /\ Cardinality(w2) \in Nat
      /\ Cardinality(w1) <= Cardinality(Pointers) /\ Cardinality(w2) <= Cardinality(Pointers)
      /\ Cardinality(w1) = 0 <=> w1 = {}
      /\ Cardinality(w2) = 0 <=> w2 = {}
  BY InFinite
<1>4. /\ strong = Cardinality(s1) + Cardinality(s2) + strays
      /\ weak = Cardinality(w1) + Cardinality(w2) + strays
      /\ strays \in Nat
  BY DEF Counted, Types
<1>5. s2 \subseteq s1 /\ s2 \subseteq Owners /\ w2 \subseteq w1
      /\ Owners \subseteq s1 /\ s1 \subseteq Owners \cup Vain
  <2>1. w2 \subseteq w1
    BY DEF In, WeakOnce, WeakTwice, Pointers, Types
  <2> QED
    BY <2>1 DEF In, StrongOnce, StrongTwice, Owners, Vain
<1>6. \A p \in Pointers : state[p] \in WeakOnce => p \in w1
  BY DEF In
<1>7. \A p \in Strong : state[p] = "held" => p \notin s2
  BY DEF In, StrongTwice
<1>8. \A p : Cardinality({p}) = 1
  BY FS_Singleton
<1> HIDE DEF s1, s2, w1, w2
<1>9. ASSUME NEW p \in Strong, strong = 1, p \in Owners PROVE Owners = {p}
  <2>1. Cardinality(s1) = 1
    BY <1>1, <1>4, <1>5, <1>9
  <2> QED
    BY <1>1, <1>5, <1>9, <2>1
<1>10. ASSUME NEW p \in Strong, Owners = {p}, state[p] = "held", Vain = {}, strays = 0
       PROVE  strong = 1
  <2>1. s1 = {p} /\ s2 = {}
    BY <1>5, <1>7, <1>10
  <2>2. Cardinality(s1) = 1 /\ Cardinality(s2) = 0
    BY <1>1, <1>8, <2>1
  <2> QED
    BY <1>4, <1>10, <2>2
<1>11. Vain = {} /\ strays = 0 => (strong = 0 <=> Owners = {})
  BY <1>1, <1>4, <1>5
<1>12. strays = 0 => (weak = 0 <=> w1 = {})
  BY <1>2, <1>4, <1>5
<1>13. strong \in Nat /\ weak \in Nat
  BY <1>1, <1>2, <1>4
<1>3. w1 # {} => weak # 0
  <2> DEFINE c == Cardinality(w1)
             d == Cardinality(w2)
  <2>1. c \in Nat /\ d \in Nat /\ (c = 0 <=> w1 = {}) /\ weak = c + d + strays /\ strays \in Nat
    BY <1>2, <1>4
  <2> HIDE DEF c, d
  <2> QED
    BY <2>1
<1> QED
  BY <1>3, <1>6, <1>9, <1>10, <1>11, <1>12, <1>13 DEF w1

\* A pointer that stands for two makes the count two.
LEMMA OnceTwice ==
    ASSUME Types, Counted, NEW p \in Pointers, state[p] = "raised"
    PROVE  strong # 1
<1> USE PointersFinite
<1>1. p \in Strong
  BY DEF Types, Pointers
<1>2. p \in In(Strong, StrongOnce) /\ p \in In(Strong, StrongTwice)
  BY <1>1 DEF In, StrongOnce, StrongTwice
<1>3. /\ Cardinality(In(Strong, StrongOnce)) \in Nat \ {0}
      /\ Cardinality(In(Strong, StrongTwice)) \in Nat \ {0}
  BY <1>2, InFinite
<1> QED
  BY <1>3 DEF Counted, Types

-----------------------------------------------------------------------------
\* The steps.  Who has a pointer at hand, or is in the middle of an operation on one
\* that stands for a weak reference, finds the counters.
LEMMA HeldCounts ==
    ASSUME IInv
    PROVE  /\ \A t, X : X \subseteq Pointers /\ Holds(t, X) => weak # 0
           /\ \A p \in Pointers : state[p] \in WeakOnce => weak # 0
           /\ \A p \in Pointers : state[p] \in {"copying", "finding"} => weak # 0
<1>1. \A p \in Pointers : state[p] \in WeakOnce => weak # 0
  BY OwnersCounted DEF IInv
<1>2. \A t, X : X \subseteq Pointers /\ Holds(t, X) => weak # 0
  BY <1>1 DEF Holds, WeakOnce
<1> QED
  BY <1>1, <1>2, PointersFinite DEF IInv, Backed

\* Each operation moves its pointer to a state that stands for the counts it has
\* changed.
Moves(p, s) ==
    /\ Step(p, s)
    /\ strays' \in Nat
    /\ strong' = strong + StrongOf(p, s) - StrongOf(p, state[p]) + strays' - strays
    /\ weak' = weak + WeakOf(s) - WeakOf(state[p]) + strays' - strays
    /\ counters' <=> weak' # 0

LEMMA CountedKept ==
    ASSUME IInv, NEW p \in Pointers, Operate(p)
    PROVE  Counted'
<1> USE PointersFinite DEF told, StrongOf, WeakOf, StrongOnce, StrongTwice, WeakOnce, WeakTwice,
                           Moves, States, Busy
<1>0. Types /\ Counted /\ strong \in Nat /\ weak \in Nat /\ strays \in Nat /\ (counters <=> weak # 0)
  BY OwnersCounted DEF IInv, Counted, Types
<1>a. p \in Weak => p \notin Strong /\ state[p] \in {"null", "held", "lowering", "reading", "finding", "dropping"}
  BY <1>0 DEF Types
<1>b. state[p] \in States /\ (p \notin Weak => p \in Strong)
  BY <1>0 DEF Types, Pointers
<1>c. ASSUME NEW s \in States, Moves(p, s) PROVE Counted'
  BY <1>0, <1>c, CountsMove
<1>d. state[p] = "raised" => ~IsLast(strong)
  BY OnceTwice DEF IInv, IsLast
<1>1. CASE CopyStrong(p)
  <2>1. Moves(p, "copying")
    BY <1>1, <1>0, <1>a, <1>b, HeldCounts DEF CopyStrong
  <2> QED
    BY <2>1, <1>c
<1>2. CASE Copied(p)
  <2>1. Moves(p, "held")
    BY <1>2, <1>0, <1>a, <1>b, HeldCounts DEF Copied
  <2> QED
    BY <2>1, <1>c
<1>3. CASE DropStrong(p)
  <2>1. Moves(p, IF IsLast(strong) THEN "last" ELSE "dropping")
    BY <1>3, <1>0, <1>a, <1>b, HeldCounts DEF DropStrong, IsLast
  <2> QED
    BY <2>1, <1>c
<1>4. CASE ClearRef(p)
  <2>1. Moves(p, "droppingLast")
    BY <1>4, <1>0, <1>a, <1>b, HeldCounts DEF ClearRef
  <2> QED
    BY <2>1, <1>c
<1>5. CASE Dropped(p)
  <2>1. Moves(p, IF state[p] = "dropping" THEN "null" ELSE "deleting")
    BY <1>5, <1>0, <1>a, <1>b, HeldCounts DEF Dropped, DerefWeak
  <2> QED
    BY <2>1, <1>c
<1>6. CASE Delete(p)
  <2>1. Moves(p, "null")
    BY <1>6, <1>0, <1>a, <1>b, HeldCounts DEF Delete
  <2> QED
    BY <2>1, <1>c
<1>7. CASE Assign(p)
  <2>1. Moves(p, "raising")
    BY <1>7, <1>0, <1>a, <1>b, HeldCounts DEF Assign
  <2> QED
    BY <2>1, <1>c
<1>8. CASE Raised(p)
  <2>1. Moves(p, "raised")
    BY <1>8, <1>0, <1>a, <1>b, HeldCounts DEF Raised
  <2> QED
    BY <2>1, <1>c
<1>9. CASE Lower(p)
  <2>1. Moves(p, IF IsLast(strong) THEN "last" ELSE "lowering")
    BY <1>9, <1>0, <1>a, <1>b, <1>d, HeldCounts DEF Lower, IsLast
  <2> QED
    BY <2>1, <1>c
<1>10. CASE Lowered(p)
  <2>1. Moves(p, "held")
    BY <1>10, <1>0, <1>a, <1>b, HeldCounts DEF Lowered, DerefWeak
  <2> QED
    BY <2>1, <1>c
<1>11. CASE CopyWeak(p)
  <2>1. Moves(p, "held")
    BY <1>11, <1>0, <1>a, <1>b, HeldCounts DEF CopyWeak
  <2> QED
    BY <2>1, <1>c
<1>12. CASE DropWeak(p)
  <2>1. Moves(p, "null")
    BY <1>12, <1>0, <1>a, <1>b, HeldCounts DEF DropWeak, DerefWeak
  <2> QED
    BY <2>1, <1>c
<1>13. CASE AssignWeak(p)
  <2>1. Moves(p, "lowering")
    BY <1>13, <1>0, <1>a, <1>b, HeldCounts DEF AssignWeak
  <2> QED
    BY <2>1, <1>c
<1>19. CASE AssignFromWeak(p)
  <2>1. Moves(p, IF ~ref THEN "dropping" ELSE IF state[p] = "held" THEN "reading" ELSE "finding")
    BY <1>19, <1>0, <1>a, <1>b, HeldCounts DEF AssignFromWeak
  <2> QED
    BY <2>1, <1>c
<1>20. CASE Reach(p)
  <2>1. Moves(p, IF state[p] = "reading" THEN "lowering" ELSE "held")
    BY <1>20, <1>0, <1>a, <1>b, HeldCounts DEF Reach
  <2> QED
    BY <2>1, <1>c
<1>14. CASE Promote(p)
  <2>1. Moves(p, "promoting")
    BY <1>14, <1>0, <1>a, <1>b, HeldCounts DEF Promote
  <2> QED
    BY <2>1, <1>c
<1>15. CASE Attempt(p)
  <2>1. Moves(p, IF ~Succeeds(strong) THEN "lost" ELSE IF Owners # {} THEN "won" ELSE "misled")
    BY <1>15, <1>0, <1>a, <1>b, HeldCounts DEF Attempt, Succeeds
  <2> QED
    BY <2>1, <1>c
<1>16. CASE Won(p)
  <2>1. Moves(p, IF ref THEN "held" ELSE "null")
    BY <1>16, <1>0, <1>a, <1>b, HeldCounts DEF Won
  <2> QED
    BY <2>1, <1>c
<1>17. CASE Lost(p)
  <2>1. Moves(p, "losing")
    BY <1>17, <1>0, <1>a, <1>b, HeldCounts DEF Lost, DerefWeak
  <2> QED
    BY <2>1, <1>c
<1>18. CASE Undone(p)
  <2>1. Moves(p, "null")
    BY <1>18, <1>0, <1>a, <1>b, HeldCounts DEF Undone
  <2> QED
    BY <2>1, <1>c
<1> QED
  BY <1>1, <1>2, <1>3, <1>4, <1>5, <1>6, <1>7, <1>8, <1>9, <1>10, <1>11, <1>12, <1>13, <1>14, <1>15, <1>16, <1>17, <1>18, <1>19, <1>20 DEF Operate

\* The states and threads of the other pointers are left alone; what begins meets a
\* thread that is free.
LEMMA OthersStay ==
    ASSUME IInv, NEW p \in Pointers, Operate(p)
    PROVE  /\ state' \in [Pointers -> States] /\ at' = at
           /\ \A q \in Pointers : q # p => state'[q] = state[q]
           /\ Free(at[p]) \/ state[p] \in Busy
<1> USE DEF Step, States, Busy, Free
<1>1. Types
  BY DEF IInv
<1>2. state \in [Pointers -> States]
  BY <1>1 DEF Types
<1>3. CASE CopyStrong(p)
  BY <1>2, <1>3 DEF CopyStrong
<1>4. CASE Copied(p)
  BY <1>2, <1>4 DEF Copied
<1>5. CASE DropStrong(p)
  BY <1>2, <1>5 DEF DropStrong
<1>6. CASE ClearRef(p)
  BY <1>2, <1>6 DEF ClearRef
<1>7. CASE Dropped(p)
  BY <1>2, <1>7 DEF Dropped
<1>8. CASE Delete(p)
  BY <1>2, <1>8 DEF Delete
<1>9. CASE Assign(p)
  BY <1>2, <1>9 DEF Assign
<1>10. CASE Raised(p)
  BY <1>2, <1>10 DEF Raised
<1>11. CASE Lower(p)
  BY <1>2, <1>11 DEF Lower
<1>12. CASE Lowered(p)
  BY <1>2, <1>12 DEF Lowered
<1>13. CASE CopyWeak(p)
  BY <1>2, <1>13 DEF CopyWeak
<1>14. CASE DropWeak(p)
  BY <1>2, <1>14 DEF DropWeak
<1>15. CASE AssignWeak(p)
  BY <1>2, <1>15 DEF AssignWeak
<1>21. CASE AssignFromWeak(p)
  BY <1>2, <1>21 DEF AssignFromWeak
<1>22. CASE Reach(p)
  BY <1>2, <1>22 DEF Reach
<1>16. CASE Promote(p)
  BY <1>2, <1>16 DEF Promote
<1>17. CASE Attempt(p)
  BY <1>2, <1>17 DEF Attempt
<1>18. CASE Won(p)
  BY <1>2, <1>18 DEF Won
<1>19. CASE Lost(p)
  BY <1>2, <1>19 DEF Lost
<1>20. CASE Undone(p)
  BY <1>2, <1>20 DEF Undone
<1> QED
  BY <1>3, <1>4, <1>5, <1>6, <1>7, <1>8, <1>9, <1>10, <1>11, <1>12, <1>13, <1>14, <1>15, <1>16, <1>17, <1>18, <1>19, <1>20, <1>21, <1>22 DEF Operate

LEMMA TypesKept ==
    ASSUME IInv, NEW p \in Pointers, Operate(p)
    PROVE  Types'
<1> USE PointersFinite, OwnersCounted
    DEF IInv, Types, Operate, Step, States, Busy, DerefWeak, told,
        CopyStrong, Copied, DropStrong, ClearRef, Dropped, Delete, Assign, Raised, Lower, Lowered,
        CopyWeak, DropWeak, AssignWeak, AssignFromWeak, Reach, Promote, Attempt, Won, Lost, Undone
<1>1. strong' \in Int /\ weak' \in Int
  <2>1. strong \in Int /\ weak \in Int
    OBVIOUS
  <2>2. strong' \in {strong, strong + 1, strong - 1} /\ weak' \in {weak, weak + 1, weak - 1}
    OBVIOUS
  <2> QED
    BY <2>1, <2>2
<1>2. strays' \in Nat /\ deletions' \in Nat
  <2>1. strays \in Nat /\ deletions \in Nat
    OBVIOUS
  <2>2. strays' \in {strays, strays + 1} /\ deletions' \in {deletions, deletions + 1}
    OBVIOUS
  <2> QED
    BY <2>1, <2>2
<1>3. ref' \in BOOLEAN /\ object' \in BOOLEAN /\ counters' \in BOOLEAN
  OBVIOUS
<1>4. tricked' \in BOOLEAN
  <2>1. tricked' \in {tricked, tricked \/ (ref /\ state[p] = "misled")}
    OBVIOUS
  <2> QED
    BY <2>1
<1>5. \A q \in Weak : state'[q] \in {"null", "held", "lowering", "reading", "finding", "dropping"}
  OBVIOUS
<1> QED
  BY <1>1, <1>2, <1>3, <1>4, <1>5, OthersStay

LEMMA OneEachKept ==
    ASSUME IInv, NEW p \in Pointers, Operate(p)
    PROVE  OneEach'
<1>1. /\ at' = at /\ \A q \in Pointers : q # p => state'[q] = state[q]
      /\ Free(at[p]) \/ state[p] \in Busy
  BY OthersStay
<1>2. \A q \in Pointers : q # p /\ at[q] = at[p] => state[q] \notin Busy
  BY <1>1 DEF Free, IInv, OneEach
<1> QED
  BY <1>1, <1>2 DEF IInv, OneEach

\* A pointer that is held at a busy thread stays.
LEMMA BackedKept ==
    ASSUME IInv, NEW p \in Pointers, Operate(p)
    PROVE  Backed'
<1>1. /\ state' \in [Pointers -> States] /\ at' = at
      /\ \A q \in Pointers : q # p => state'[q] = state[q]
      /\ Free(at[p]) \/ state[p] \in Busy
  BY OthersStay
<1>2. ASSUME NEW q \in Pointers, state[q] \in Busy, q # p, NEW X \in SUBSET Pointers, Holds(at[q], X)
      PROVE  Holds(at[q], X)'
  <2>1. at[p] # at[q]
    BY <1>1, <1>2 DEF Free, IInv, OneEach
  <2> QED
    BY <1>1, <1>2, <2>1 DEF Holds
<1>3. ASSUME NEW q \in Pointers, q # p
      PROVE  /\ state'[q] = "copying" => Holds(at[q], Strong)'
             /\ state'[q] \in {"promoting", "won", "misled", "lost", "losing", "finding"} =>
                  Holds(at[q], Weak)'
  BY <1>1, <1>2, <1>3, PointersFinite DEF IInv, Backed, Busy
<1>4. ASSUME NEW X \in SUBSET Pointers, Holds(at[p], X), state[p] # "held" PROVE Holds(at[p], X)'
  BY <1>1, <1>4 DEF Holds
<1>5. state'[p] = "copying" => state[p] # "held" /\ Holds(at[p], Strong)
  BY DEF IInv, Types, Operate, Step, States, Busy, CopyStrong, Copied, DropStrong, ClearRef, Dropped, Delete, Assign, Raised, Lower, Lowered, CopyWeak, DropWeak, AssignWeak, AssignFromWeak, Reach, Promote, Attempt, Won, Lost, Undone
<1>6. state'[p] \in {"promoting", "won", "misled", "lost", "losing", "finding"} =>
        state[p] # "held" /\ Holds(at[p], Weak)
  BY DEF IInv, Types, Backed, Operate, Step, States, Busy, CopyStrong, Copied, DropStrong, ClearRef, Dropped, Delete, Assign, Raised, Lower, Lowered, CopyWeak, DropWeak, AssignWeak, AssignFromWeak, Reach, Promote, Attempt, Won, Lost, Undone
<1> QED
  BY <1>1, <1>3, <1>4, <1>5, <1>6, PointersFinite DEF Backed

LEMMA LivesKept ==
    ASSUME IInv, NEW p \in Pointers, Operate(p), ~tricked'
    PROVE  Lives'
<1> USE PointersFinite DEF In, Owners, Ending, Vain, Lives, Step, States, Busy, told
<1>t. ~tricked
  BY DEF Operate, CopyStrong, Copied, DropStrong, ClearRef, Dropped, Delete, Assign, Raised, Lower, Lowered,
         CopyWeak, DropWeak, AssignWeak, AssignFromWeak, Reach, Promote, Attempt, Won, Lost, Undone
<1>a. Types /\ Lives /\ OneEach /\ Backed /\ strays \in Nat
  BY <1>t DEF IInv, Sound, Types
<1>b. state \in [Pointers -> States] /\ (p \in Weak => p \notin Strong)
      /\ (p \in Weak => state[p] \in {"null", "held", "lowering", "reading", "finding", "dropping"}) /\ (p \notin Weak => p \in Strong)
  BY <1>a DEF Types, Pointers
<1>c. /\ Vain = {} /\ strays = 0 => (strong = 0 <=> Owners = {})
      /\ \A q \in Strong : strong = 1 /\ q \in Owners => Owners = {q}
      /\ \A q \in Strong : Owners = {q} /\ state[q] = "held" /\ Vain = {} /\ strays = 0
                => strong = 1
      /\ strong \in Nat
  BY <1>a, OwnersCounted DEF IInv
<1>1. CASE CopyStrong(p)
  <2>1. Owners # {}
    BY <1>1 DEF CopyStrong, Holds
  <2> QED
    BY <1>a, <1>b, <1>1, <2>1 DEF CopyStrong
<1>2. CASE Copied(p)
  BY <1>a, <1>b, <1>c, <1>2 DEF Copied
<1>3. CASE DropStrong(p)
  <2>1. p \in Strong /\ p \in Owners /\ Vain = {} /\ strays = 0
    BY <1>a, <1>3 DEF DropStrong
  <2>2. strong = 1 <=> Owners = {p}
    BY <1>c, <1>3, <2>1 DEF DropStrong
  <2>3. Owners' = Owners \ {p}
    BY <1>b, <1>3 DEF DropStrong
  <2>4. Vain' = {}
    BY <1>b, <1>3, <2>1 DEF DropStrong
  <2>5. Ending' = IF strong = 1 THEN {p} ELSE {}
    BY <1>a, <1>b, <1>3, <2>1 DEF DropStrong, IsLast
  <2>6. Owners' = {} => In(Strong, {"last"})' # {}
    BY <1>b, <1>3, <2>2, <2>3 DEF DropStrong, IsLast
  <2> HIDE DEF In, Owners, Ending, Vain
  <2> QED
    BY <1>a, <1>3, <2>1, <2>2, <2>3, <2>4, <2>5, <2>6 DEF DropStrong
<1>4. CASE ClearRef(p)
  BY <1>a, <1>b, <1>c, <1>4 DEF ClearRef
<1>5. CASE Dropped(p)
  BY <1>a, <1>b, <1>c, <1>5 DEF Dropped
<1>6. CASE Delete(p)
  BY <1>a, <1>b, <1>c, <1>6 DEF Delete
<1>7. CASE Assign(p)
  BY <1>a, <1>b, <1>c, <1>7 DEF Assign
<1>8. CASE Raised(p)
  BY <1>a, <1>b, <1>c, <1>8 DEF Raised
<1>9. CASE Lower(p)
  <2>1. ~IsLast(strong)
    BY <1>9, OnceTwice DEF Lower, IInv, IsLast
  <2> QED
    BY <1>a, <1>b, <1>9, <2>1 DEF Lower
<1>10. CASE Lowered(p)
  BY <1>a, <1>b, <1>c, <1>10 DEF Lowered
<1>11. CASE CopyWeak(p)
  BY <1>a, <1>b, <1>c, <1>11 DEF CopyWeak
<1>12. CASE DropWeak(p)
  BY <1>a, <1>b, <1>c, <1>12 DEF DropWeak
<1>13. CASE AssignWeak(p)
  BY <1>a, <1>b, <1>c, <1>13 DEF AssignWeak
<1>19. CASE AssignFromWeak(p)
  BY <1>a, <1>b, <1>c, <1>19 DEF AssignFromWeak
<1>20. CASE Reach(p)
  BY <1>a, <1>b, <1>c, <1>20 DEF Reach
<1>14. CASE Promote(p)
  BY <1>a, <1>b, <1>c, <1>14 DEF Promote
<1>15. CASE Attempt(p)
  <2>1. CASE Owners # {}
    <3>1. Succeeds(strong)
      BY <1>a, <1>c, <2>1 DEF Succeeds
    <3> QED
      BY <1>a, <1>b, <1>15, <2>1, <3>1 DEF Attempt
  <2>2. CASE Owners = {}
    BY <1>a, <1>b, <1>15, <2>2 DEF Attempt
  <2> QED
    BY <2>1, <2>2
<1>16. CASE Won(p)
  BY <1>a, <1>b, <1>c, <1>16 DEF Won
<1>17. CASE Lost(p)
  BY <1>a, <1>b, <1>c, <1>17 DEF Lost
<1>18. CASE Undone(p)
  BY <1>a, <1>b, <1>c, <1>18 DEF Undone
<1> QED
  BY <1>1, <1>2, <1>3, <1>4, <1>5, <1>6, <1>7, <1>8, <1>9, <1>10, <1>11, <1>12, <1>13, <1>14, <1>15, <1>16, <1>17, <1>18, <1>19, <1>20 DEF Operate

\* A promotion is tricked while the last owner has not cleared m_ref; and who is on
\* the way to the deletion stays on it.
LEMMA TrickedKept ==
    ASSUME IInv, NEW p \in Pointers, Operate(p), tricked', object'
    PROVE  Ending' # {}
<1> USE PointersFinite DEF In, Ending, Step, States, Busy, told
<1>1. Ending # {} /\ object
  <2>1. CASE tricked
    <3>1. object
      BY DEF Operate, CopyStrong, Copied, DropStrong, ClearRef, Dropped, Delete, Assign, Raised, Lower, Lowered,
             CopyWeak, DropWeak, AssignWeak, AssignFromWeak, Reach, Promote, Attempt, Won, Lost, Undone
    <3> QED
      BY <2>1, <3>1 DEF IInv, Sound
  <2>2. CASE ~tricked
    <3>1. Won(p) /\ state[p] = "misled" /\ ref
      BY <2>2 DEF Operate, CopyStrong, Copied, DropStrong, ClearRef, Dropped, Delete, Assign, Raised, Lower, Lowered,
             CopyWeak, DropWeak, AssignWeak, AssignFromWeak, Reach, Promote, Attempt, Won, Lost, Undone
    <3>2. p \in Vain
      BY <3>1 DEF Vain, IInv, Types, Pointers
    <3>3. Owners = {} /\ In(Strong, {"last"}) # {}
      BY <2>2, <3>1, <3>2 DEF IInv, Sound, Lives
    <3>4. Ending # {}
      BY <3>3
    <3> QED
      BY <2>2, <3>4 DEF IInv, Sound, Lives
  <2> QED
    BY <2>1, <2>2
<1>2. PICK q \in Ending : TRUE
  BY <1>1
<1>3. state' \in [Pointers -> States] /\ \A r \in Pointers : r # p => state'[r] = state[r]
  BY OthersStay
<1>4. CASE q # p
  BY <1>2, <1>3, <1>4
<1>5. CASE q = p
  <2>1. p \in Strong /\ state[p] \in {"last", "droppingLast", "deleting"} /\ state \in [Pointers -> States]
    BY <1>2, <1>5 DEF IInv, Types
  <2>2. ClearRef(p) \/ Dropped(p) \/ Delete(p)
    BY <2>1 DEF Operate, CopyStrong, Copied, DropStrong, ClearRef, Dropped, Delete, Assign, Raised, Lower, Lowered,
             CopyWeak, DropWeak, AssignWeak, AssignFromWeak, Reach, Promote, Attempt, Won, Lost, Undone
  <2>3. state'[p] \in {"droppingLast", "deleting"}
    BY <2>1, <2>2 DEF ClearRef, Dropped, Delete
  <2> QED
    BY <2>1, <2>3
<1> QED
  BY <1>4, <1>5

\* A pointer that is carried was not in use, at the thread that it leaves.
LEMMA CarryKept ==
    ASSUME IInv, NEW p \in Pointers, NEW t \in Threads, Carry(p, t)
    PROVE  IInv'
<1> USE DEF IInv, Carry, told
<1>1. Types'
  BY DEF Types
<1>2. Counted'
  BY DEF Counted, In
<1>3. OneEach'
  BY DEF Types, OneEach, Busy
<1>4. ASSUME NEW q \in Pointers, state[q] \in Busy, NEW X \in SUBSET Pointers, Holds(at[q], X)
      PROVE  Holds(at[q], X)' /\ at'[q] = at[q]
  BY <1>4 DEF Free, Holds, Types, Busy
<1>5. Backed'
  BY <1>4, PointersFinite DEF Backed, Busy
<1>6. Sound'
  BY DEF Sound, Lives, Ending, Vain, In, Owners, told
<1> QED
  BY <1>1, <1>2, <1>3, <1>5, <1>6

LEMMA InitInv == Init => IInv
<1> SUFFICES ASSUME Init PROVE IInv
  OBVIOUS
<1> USE PointersFinite DEF Init
<1>1. PICK p \in Strong : state = [q \in Pointers |-> IF q = p THEN "held" ELSE "null"]
  OBVIOUS
<1>2. Types
  <2>1. \A q \in Pointers : state[q] \in {"null", "held"}
    BY <1>1
  <2>2. state \in [Pointers -> States]
    BY <1>1, <2>1 DEF States
  <2>3. /\ strong \in Int /\ weak \in Int /\ strays \in Nat /\ deletions \in Nat
        /\ at \in [Pointers -> Threads]
    OBVIOUS
  <2>4. /\ ref \in BOOLEAN /\ object \in BOOLEAN /\ counters \in BOOLEAN /\ tricked \in BOOLEAN
    OBVIOUS
  <2> QED
    BY ONLY <2>1, <2>2, <2>3, <2>4, PointersFinite DEF Types
<1>3. Counted
  <2>1. /\ In(Strong, StrongOnce) = {p} /\ In(Strong, StrongTwice) = {}
        /\ In(Pointers, WeakOnce) = {p} /\ In(Pointers, WeakTwice) = {}
    BY <1>1 DEF In, StrongOnce, StrongTwice, WeakOnce, WeakTwice
  <2>2. Cardinality({p}) = 1 /\ Cardinality({}) = 0
    BY FS_Singleton, FS_EmptySet
  <2> QED
    BY <2>1, <2>2 DEF Counted
<1>4. OneEach /\ Backed
  BY <1>1 DEF OneEach, Backed, Busy
<1>5. Sound
  BY <1>1 DEF Sound, Lives, In, Ending, Vain, Owners
<1> QED
  BY <1>2, <1>3, <1>4, <1>5 DEF IInv

\* Every atomic step of every operation, on whatever thread, keeps the invariant.
THEOREM InvStep == IInv /\ [Next]_vars => IInv'
<1> SUFFICES ASSUME IInv, [Next]_vars PROVE IInv'
  OBVIOUS
<1>1. ASSUME NEW p \in Pointers, Operate(p) PROVE IInv'
  BY <1>1, TypesKept, CountedKept, OneEachKept, BackedKept, LivesKept, TrickedKept DEF IInv, Sound
<1>2. CASE UNCHANGED vars
  BY <1>2 DEF vars, IInv, Types, Counted, In, OneEach, Backed, Holds, Sound, Lives, Ending, Vain, Owners
<1> QED
  BY <1>1, <1>2, CarryKept DEF Next

THEOREM Invariance == Spec => []IInv
BY InitInv, InvStep, PTL DEF Spec

-----------------------------------------------------------------------------
\* The variables keep their types; no count goes below zero, whatever is tricked.
THEOREM TypeCorrect == Spec => []TypeOK
<1>1. IInv => TypeOK
  BY OwnersCounted DEF IInv, Types, TypeOK, States
<1> QED
  BY <1>1, Invariance, PTL

\* An owner finds the object, until a promotion is tricked; and everybody the counters.
THEOREM OwnersFind == Spec => []OwnersFindIt
<1>1. IInv => OwnersFindIt
  <2> SUFFICES ASSUME IInv PROVE OwnersFindIt
    OBVIOUS
  <2>1. ASSUME NEW p \in Pointers, state[p] \notin {"null", "deleting"} PROVE counters
    <3>1. state[p] \in WeakOnce \cup {"copying", "losing", "finding"}
      BY <2>1 DEF IInv, Types, States, Busy, WeakOnce
    <3>2. state[p] = "losing" => Holds(at[p], Weak)
      BY DEF IInv, Backed
    <3>3. weak # 0
      BY <3>1, <3>2, HeldCounts, PointersFinite
    <3> QED
      BY <3>3 DEF IInv, Counted
  <2> QED
    BY <2>1 DEF IInv, Sound, Lives, OwnersFindIt
<1> QED
  BY <1>1, Invariance, PTL

\* The object is deleted once, until a promotion is tricked, and nothing of it stays but
\* the counters that a promotion has raised and left.
THEOREM DeletesOnce == Spec => []DeletedOnce
<1>1. IInv => DeletedOnce
  <2> SUFFICES ASSUME IInv PROVE DeletedOnce
    OBVIOUS
  <2>1. ASSUME \A p \in Pointers : state[p] \notin Busy, \A p \in Strong : state[p] = "null" PROVE ~object
    <3>1. Owners = {} /\ Ending = {}
      BY <2>1 DEF Owners, Ending, In
    <3> QED
      BY <3>1 DEF IInv, Sound, Lives
  <2>2. ASSUME \A p \in Pointers : state[p] = "null", strays = 0 PROVE ~counters
    <3>1. In(Pointers, WeakOnce) = {}
      BY <2>2 DEF In, WeakOnce
    <3> QED
      BY <2>2, <3>1, OwnersCounted DEF IInv, Counted
  <2>3. deletions <= 1 \/ tricked
    BY DEF IInv, Sound, Lives
  <2> QED
    BY <2>1, <2>2, <2>3 DEF DeletedOnce
<1> QED
  BY <1>1, Invariance, PTL

-----------------------------------------------------------------------------
\* A promotion that meets no owner and has yet m_ref before it.
LEMMA MisledStep ==
    ASSUME IInv, ~tricked, ref,
           NEW p \in Strong, Operate(p), state[p] # "misled", state'[p] = "misled"
    PROVE  \E q, r \in Strong :
              /\ state[q] = "last" /\ state[r] \in {"lost", "losing", "misled"}
              /\ at[p] # at[q] /\ at[q] # at[r] /\ at[p] # at[r]
<1> USE PointersFinite DEF Step, told
<1>0. state \in [Pointers -> States] /\ p \notin Weak /\ p \in Pointers
  BY DEF IInv, Types, Pointers
<1>1. Attempt(p)
  BY <1>0 DEF Operate, CopyStrong, Copied, DropStrong, ClearRef, Dropped, Delete, Assign, Raised, Lower,
       Lowered, CopyWeak, DropWeak, AssignWeak, AssignFromWeak, Reach, Promote, Attempt, Won, Lost, Undone
<1>2. Owners = {} /\ Succeeds(strong) /\ state[p] = "promoting"
  BY <1>0, <1>1 DEF Attempt
<1>3. Lives
  BY DEF IInv, Sound
<1>4. In(Strong, {"last"}) # {} /\ strays = 0
  BY <1>2, <1>3 DEF Lives
<1>5. Vain # {}
  <2>1. strong # 0
    BY <1>2 DEF Succeeds
  <2> QED
    BY <1>2, <1>4, <2>1, OwnersCounted DEF IInv
<1>6. PICK q \in Strong, r \in Strong : state[q] = "last" /\ state[r] \in {"lost", "losing", "misled"}
  BY <1>4, <1>5 DEF In, Vain
<1>7. p # q /\ q # r /\ p # r
  BY <1>2, <1>6
<1>8. at[p] # at[q] /\ at[q] # at[r] /\ at[p] # at[r]
  BY <1>0, <1>2, <1>6, <1>7 DEF IInv, OneEach, Busy, Pointers
<1> QED
  BY <1>6, <1>8

\* On two threads that does not happen.
AtMostTwoThreads == \A t, u, v \in Threads : t = u \/ u = v \/ t = v

Untricked == ~tricked /\ \A p \in Strong : state[p] = "misled" => ~ref

LEMMA UntrickedStep ==
    ASSUME AtMostTwoThreads, IInv, Untricked, NEW p \in Pointers, Operate(p)
    PROVE  Untricked'
<1> USE PointersFinite DEF Untricked, Step, told
<1>0. /\ state \in [Pointers -> States] /\ (p \notin Weak => p \in Strong)
      /\ p \in Weak => p \notin Strong /\ state[p] # "misled"
  BY DEF IInv, Types, Pointers
<1>1. ~tricked' /\ (ref' => ref)
  <2>1. CASE Won(p)
    <3>1. ref' = ref /\ (state[p] = "misled" => ~ref)
      BY <1>0, <2>1 DEF Won
    <3>2. tricked' <=> tricked \/ (ref /\ state[p] = "misled")
      BY <2>1, Zenon DEF Won
    <3> QED
      BY <3>1, <3>2
  <2>2. CASE ~Won(p)
    BY <2>2 DEF Operate, CopyStrong, Copied, DropStrong, ClearRef, Dropped, Delete, Assign, Raised, Lower,
         Lowered, CopyWeak, DropWeak, AssignWeak, AssignFromWeak, Reach, Promote, Attempt, Lost, Undone
  <2> QED
    BY <2>1, <2>2
<1>2. \A q \in Pointers : q # p => state'[q] = state[q]
  BY OthersStay
<1>3. ASSUME state'[p] = "misled", p \in Strong, ref PROVE FALSE
  <2>1. PICK q \in Strong, r \in Strong : at[p] # at[q] /\ at[q] # at[r] /\ at[p] # at[r]
    BY <1>3, MisledStep
  <2>2. at[p] \in Threads /\ at[q] \in Threads /\ at[r] \in Threads
    BY <2>1 DEF IInv, Types
  <2> QED
    BY <2>1, <2>2 DEF AtMostTwoThreads
<1> QED
  BY <1>1, <1>2, <1>3

LEMMA UntrickedInvariance ==
    ASSUME AtMostTwoThreads
    PROVE  Spec => []Untricked
<1>1. Init => Untricked
  BY PointersFinite DEF Init, Untricked
<1>2. IInv /\ Untricked /\ [Next]_vars => Untricked'
  <2> SUFFICES ASSUME IInv, Untricked, [Next]_vars PROVE Untricked'
    OBVIOUS
  <2>1. ASSUME NEW p \in Pointers, NEW t \in Threads, Carry(p, t) PROVE Untricked'
    BY <2>1 DEF Carry, Untricked, told
  <2>2. CASE UNCHANGED vars
    BY <2>2 DEF vars, Untricked
  <2> QED
    BY <2>1, <2>2, UntrickedStep DEF Next
<1> QED
  BY <1>1, <1>2, Invariance, PTL DEF Spec

\* With at most two threads no promotion is tricked, so that owners find the object and
\* it is deleted once without exception.
THEOREM PairsAreSafe ==
    ASSUME AtMostTwoThreads
    PROVE  Spec => []~tricked
<1>1. Untricked => ~tricked
  BY DEF Untricked
<1> QED
  BY <1>1, UntrickedInvariance, PTL

-----------------------------------------------------------------------------
\* The refinement: what the owners and the object do.
LEMMA SharedInit == Init => Shared!Init
BY DEF Init, Shared!Init, Owners, Pointers

LEMMA TrickedStays == [Next]_vars /\ tricked => tricked'
<1> SUFFICES ASSUME [Next]_vars, tricked PROVE tricked'
  OBVIOUS
<1>1. ASSUME NEW p \in Pointers, Operate(p), ~Won(p) PROVE tricked'
  BY <1>1 DEF told, Operate, CopyStrong, Copied, DropStrong, ClearRef, Dropped, Delete, Assign, Raised, Lower,
       Lowered, CopyWeak, DropWeak, AssignWeak, AssignFromWeak, Reach, Promote, Attempt, Lost, Undone
<1>2. ASSUME NEW p \in Pointers, Won(p) PROVE tricked'
  BY <1>2, Zenon DEF Won
<1>3. ASSUME NEW p \in Pointers, NEW t \in Threads, Carry(p, t) PROVE tricked'
  BY <1>3 DEF Carry, told
<1>4. CASE UNCHANGED vars
  BY <1>4 DEF vars
<1> QED
  BY <1>1, <1>2, <1>3, <1>4 DEF Next

LEMMA TrickedByWon ==
    ASSUME IInv, [Next]_vars, ~tricked, tricked'
    PROVE  \E p \in Strong : state[p] = "misled" /\ ref /\ object' = object
<1>1. ASSUME NEW p \in Pointers, Operate(p), ~Won(p) PROVE FALSE
  BY <1>1 DEF told, Operate, CopyStrong, Copied, DropStrong, ClearRef, Dropped, Delete, Assign, Raised, Lower,
       Lowered, CopyWeak, DropWeak, AssignWeak, AssignFromWeak, Reach, Promote, Attempt, Lost, Undone
<1>2. ASSUME NEW p \in Pointers, Won(p) PROVE p \in Strong /\ state[p] = "misled" /\ ref /\ object' = object
  <2>1. state[p] \in {"won", "misled"} /\ object' = object
    BY <1>2 DEF Won
  <2>2. ref /\ state[p] = "misled"
    BY <1>2, Zenon DEF Won
  <2>3. p \in Strong
    BY <2>1 DEF IInv, Types, Pointers
  <2> QED
    BY <2>1, <2>2, <2>3
<1>3. ASSUME NEW p \in Pointers, NEW t \in Threads, Carry(p, t) PROVE FALSE
  BY <1>3 DEF Carry, told
<1>4. CASE UNCHANGED vars
  BY <1>4 DEF vars
<1> QED
  BY <1>1, <1>2, <1>3, <1>4 DEF Next

LEMMA SharedStepUntricked ==
    IInv /\ ~tricked /\ ~tricked' /\ [Next]_vars => [Shared!Next]_(Shared!vars)
<1> SUFFICES ASSUME IInv, ~tricked, ~tricked', [Next]_vars PROVE [Shared!Next]_(Shared!vars)
  OBVIOUS
<1> USE DEF Shared!vars, Shared!Next
<1>0. Lives /\ Types
  BY DEF IInv, Sound
<1>1. ASSUME NEW p \in Pointers, Operate(p) PROVE [Shared!Next]_(Shared!vars)
  <2> USE <1>1, PointersFinite DEF Owners, Step
  <2>0. state \in [Pointers -> States] /\ (p \in Weak => p \notin Strong)
        /\ (p \in Weak => state[p] \in {"null", "held", "lowering", "reading", "finding", "dropping"}) /\ (p \notin Weak => p \in Strong)
    BY DEF IInv, Types, Pointers
  <2>1. CASE CopyStrong(p)
    <3>1. Owners # {}
      BY <2>1 DEF CopyStrong, Holds
    <3>2. Shared!Join(p)
      BY <2>0, <2>1, <3>1 DEF CopyStrong, Shared!Join
    <3> QED
      BY <2>1, <3>2 DEF CopyStrong
  <2>2. CASE Copied(p)
    BY <2>0, <2>2 DEF Copied
  <2>3. CASE DropStrong(p)
    <3>1. Shared!Leave(p)
      BY <2>0, <2>3 DEF DropStrong, Shared!Leave
    <3> QED
      BY <2>3, <3>1 DEF DropStrong
  <2>4. CASE ClearRef(p)
    BY <2>0, <2>4 DEF ClearRef
  <2>5. CASE Dropped(p)
    BY <2>0, <2>5 DEF Dropped
  <2>6. CASE Delete(p)
    <3>1. p \in Ending
      BY <2>0, <2>6 DEF Delete, Ending, In
    <3>2. Shared!Delete
      BY <1>0, <2>0, <2>6, <3>1 DEF Delete, Shared!Delete, Lives
    <3> QED
      BY <3>2
  <2>7. CASE Assign(p)
    BY <2>0, <2>7 DEF Assign
  <2>8. CASE Raised(p)
    BY <2>0, <2>8 DEF Raised
  <2>9. CASE Lower(p)
    <3>1. ~IsLast(strong)
      BY <2>9, OnceTwice DEF Lower, IInv, IsLast
    <3> QED
      BY <2>0, <2>9, <3>1 DEF Lower
  <2>10. CASE Lowered(p)
    BY <2>0, <2>10 DEF Lowered
  <2>11. CASE CopyWeak(p)
    BY <2>0, <2>11 DEF CopyWeak
  <2>12. CASE DropWeak(p)
    BY <2>0, <2>12 DEF DropWeak
  <2>13. CASE AssignWeak(p)
    BY <2>0, <2>13 DEF AssignWeak
  <2>19. CASE AssignFromWeak(p)
    BY <2>0, <2>19 DEF AssignFromWeak
  <2>20. CASE Reach(p)
    BY <2>0, <2>20 DEF Reach
  <2>14. CASE Promote(p)
    BY <2>0, <2>14 DEF Promote
  <2>15. CASE Attempt(p)
    <3>1. CASE Owners # {}
      <4>1. Succeeds(strong)
        BY <1>0, <3>1, OwnersCounted DEF IInv, Lives, Succeeds
      <4>2. Shared!Join(p)
        BY <2>0, <2>15, <3>1, <4>1 DEF Attempt, Shared!Join
      <4> QED
        BY <2>0, <2>15, <4>2 DEF Attempt
    <3>2. CASE Owners = {}
      BY <2>0, <2>15, <3>2 DEF Attempt
    <3> QED
      BY <3>1, <3>2
  <2>16. CASE Won(p)
    <3>1. CASE state[p] = "won"
      <4>1. ref
        BY <1>0, <2>0, <3>1 DEF Lives
      <4> QED
        BY <2>0, <2>16, <3>1, <4>1 DEF Won
    <3>2. CASE state[p] = "misled"
      <4>1. ~ref
        BY <2>16, <3>2, Zenon DEF Won
      <4> QED
        BY <2>0, <2>16, <3>2, <4>1 DEF Won
    <3> QED
      BY <2>16, <3>1, <3>2 DEF Won
  <2>17. CASE Lost(p)
    BY <2>0, <2>17 DEF Lost
  <2>18. CASE Undone(p)
    BY <2>0, <2>18 DEF Undone
  <2> QED
    BY <2>1, <2>2, <2>3, <2>4, <2>5, <2>6, <2>7, <2>8, <2>9, <2>10, <2>11, <2>12, <2>13, <2>14, <2>15, <2>16, <2>17, <2>18, <2>19, <2>20 DEF Operate
<1>2. ASSUME NEW p \in Pointers, NEW t \in Threads, Carry(p, t) PROVE [Shared!Next]_(Shared!vars)
  BY <1>2 DEF Carry, Owners
<1>3. CASE UNCHANGED vars
  BY <1>3 DEF vars, Owners
<1> QED
  BY <1>1, <1>2, <1>3 DEF Next

LEMMA SharedStep == IInv /\ [Next]_vars => [Shared!Next]_(Shared!vars)
<1> SUFFICES ASSUME IInv, [Next]_vars PROVE [Shared!Next]_(Shared!vars)
  OBVIOUS
<1> USE DEF Shared!vars, Shared!Next, told
<1>a. CASE tricked
  <2>1. tricked'
    BY <1>a, TrickedStays
  <2> QED
    BY <1>a, <2>1
<1>b. CASE ~tricked /\ tricked'
  <2>1. PICK p \in Strong : state[p] = "misled" /\ ref /\ object' = object
    BY <1>b, TrickedByWon
  <2>2. Lives
    BY <1>b DEF IInv, Sound
  <2>3. Owners = {} /\ object
    <3>1. p \in Vain
      BY <2>1 DEF Vain, In
    <3>2. Owners = {}
      BY <2>2, <3>1 DEF Lives
    <3>3. In(Strong, {"last"}) \subseteq Ending
      BY DEF In, Ending
    <3> QED
      BY <2>1, <2>2, <3>2, <3>3 DEF Lives
  <2>4. Shared!Delete
    BY <1>b, <2>3 DEF Shared!Delete
  <2> QED
    BY <2>4
<1>c. CASE ~tricked /\ ~tricked'
  BY <1>c, SharedStepUntricked
<1> QED
  BY <1>a, <1>b, <1>c

\* The refinement: seen from the pointers, promotions and releases happen at once,
\* until a promotion is tricked.
THEOREM KeepsPromise == Spec => ImplementsShared
<1>1. Spec => Shared!Init /\ [][Shared!Next]_(Shared!vars)
  BY SharedInit, SharedStep, Invariance, PTL DEF Spec
<1> QED
  BY <1>1 DEF ImplementsShared, Shared!Spec

\* An object without owners is taken by a promotion only where three threads meet.
THEOREM TricksAreRare == Spec => TricksTakeThree
<1>1. IInv /\ [Next]_vars =>
        [\A p \in Strong : state[p] # "misled" /\ state'[p] = "misled" /\ ref /\ ~tricked =>
           \E q, r \in Strong :
              /\ state[q] = "last" /\ state[r] \in {"lost", "losing", "misled"}
              /\ at[p] # at[q] /\ at[q] # at[r] /\ at[p] # at[r]]_vars
  <2> SUFFICES ASSUME IInv, Next,
                      NEW p \in Strong, state[p] # "misled", state'[p] = "misled", ref, ~tricked
               PROVE  \E q, r \in Strong :
                        /\ state[q] = "last" /\ state[r] \in {"lost", "losing", "misled"}
                        /\ at[p] # at[q] /\ at[q] # at[r] /\ at[p] # at[r]
    OBVIOUS
  <2>1. PICK q \in Pointers : Operate(q) \/ \E t \in Threads : Carry(q, t)
    BY DEF Next
  <2>2. Operate(q)
    BY <2>1 DEF Carry
  <2>3. q = p
    BY <2>2, OthersStay DEF Pointers
  <2> QED
    BY <2>2, <2>3, MisledStep
<1> QED
  BY <1>1, Invariance, PTL DEF TricksTakeThree, Spec

=============================================================================
