------------------------- MODULE EditorViews_proofs -------------------------
(***************************************************************************)
(* What is proved of the editor's two views.                               *)
(*                                                                         *)
(* The sample's document and the waveform view that edits it, for all      *)
(* sounds, selections, tolerances, grids, zooms and any number of edits    *)
(* and gestures.                                                           *)
(*                                                                         *)
(* The inductive invariant (EditorInv) has three parts.  The slot holds    *)
(* what the builder makes of the document it names, a weight for every     *)
(* slice, and an edit on its way carries the list and the weights it began *)
(* with (SampleInv).  The view's drag and its one-step undo are well       *)
(* formed (MouseOK).  While a second press may still complete a double     *)
(* click, the undo step leads back to the weights from before the first    *)
(* press (Restorable).                                                     *)
(*                                                                         *)
(* That the list tiles its trim is a fact about the builder, not about     *)
(* histories: cutting a trim at an ascending list of starts gives a chain  *)
(* of slices (Chain), whatever the detector, the markers, the exclusions   *)
(* and the quantizer made of the starts, and clipping a chain to a         *)
(* narrower trim covers that trim once.  A set of frames is listed by      *)
(* rank, hence the lemmas on ranks at the beginning.                       *)
(*                                                                         *)
(* The grid's viewport is geometry: its invariant is its type, and both of *)
(* its properties follow from that by arithmetic on products and quotients *)
(* of whole numbers, for all sizes of view, grids, zooms and pixels.       *)
(***************************************************************************)
EXTENDS WaveformGestures, GridViewport, FiniteSetTheorems, SequenceTheorems, TLAPS

(* Every set of natural numbers that is not empty has a least element, and *)
(* it is what Min names; the like of Max where the set is bounded.         *)
LEMMA LeastElement ==
    ASSUME NEW S \in SUBSET Nat, S # {}
    PROVE  \E n \in S : \A m \in S : n <= m
  <1>1. PICK n \in S : \A m \in S : ~(<<m, n>> \in OpToRel(<, Nat))
    BY NatLessThanWellFounded, WFMin
  <1>2. \A m \in S : ~(m < n)
    BY <1>1 DEF OpToRel
  <1>. QED  BY <1>2

LEMMA MinOfNaturals ==
    ASSUME NEW S \in SUBSET Nat, S # {}
    PROVE  Min(S) \in S /\ \A m \in S : Min(S) <= m
  BY LeastElement DEF Min

LEMMA MinOfTwo ==
    ASSUME NEW a \in Int, NEW b \in Int
    PROVE  Min({a, b}) = IF a <= b THEN a ELSE b
  <1>. DEFINE m == IF a <= b THEN a ELSE b
  <1>1. m \in {a, b} /\ \A x \in {a, b} : m <= x
    OBVIOUS
  <1>2. \A y \in {a, b} : (\A x \in {a, b} : y <= x) => y = m
    OBVIOUS
  <1>. HIDE DEF m
  <1>3. Min({a, b}) = m
    BY <1>1, <1>2 DEF Min
  <1>. QED  BY <1>3 DEF m

LEMMA MaxOfTwo ==
    ASSUME NEW a \in Int, NEW b \in Int
    PROVE  Max({a, b}) = IF a >= b THEN a ELSE b
  <1>. DEFINE m == IF a >= b THEN a ELSE b
  <1>1. m \in {a, b} /\ \A x \in {a, b} : m >= x
    OBVIOUS
  <1>2. \A y \in {a, b} : (\A x \in {a, b} : y >= x) => y = m
    OBVIOUS
  <1>. HIDE DEF m
  <1>3. Max({a, b}) = m
    BY <1>1, <1>2 DEF Max
  <1>. QED  BY <1>3 DEF m

(***************************************************************************)
(* Ascending lists a finite set of numbers in order and without a gap: the *)
(* rank of a member, the number of members up to it, is an injection into  *)
(* as many ranks as there are members, so every rank is taken.             *)
(***************************************************************************)
Ranks(S) == [f \in S |-> Cardinality({g \in S : g <= f})]

LEMMA RankRises ==
    ASSUME NEW S \in SUBSET Nat, IsFiniteSet(S), NEW f \in S
    PROVE  /\ Ranks(S)[f] \in 1..Cardinality(S)
           /\ \A h \in S : f < h => Ranks(S)[f] < Ranks(S)[h]
  <1>. DEFINE upTo(h) == {g \in S : g <= h}
  <1>1. \A h \in S : IsFiniteSet(upTo(h)) /\ Cardinality(upTo(h)) \in Nat
                       /\ Cardinality(upTo(h)) <= Cardinality(S)
    <2>. TAKE h \in S
    <2>1. upTo(h) \in SUBSET S
      OBVIOUS
    <2>. HIDE DEF upTo
    <2>. QED  BY <2>1, FS_Subset, FS_CardinalityType
  <1>2. Cardinality(upTo(f)) # 0
    <2>1. f \in upTo(f)
      OBVIOUS
    <2>. HIDE DEF upTo
    <2>. QED  BY <2>1, <1>1, FS_EmptySet
  <1>3. ASSUME NEW h \in S, f < h
        PROVE  Cardinality(upTo(f)) < Cardinality(upTo(h))
    <2>1. upTo(f) \in SUBSET upTo(h) /\ upTo(f) # upTo(h)
      <3>1. h \in upTo(h) /\ h \notin upTo(f)
        BY <1>3
      <3>2. upTo(f) \subseteq upTo(h)
        <4>1. \A g \in S : g <= f => g <= h
          BY <1>3
        <4>. QED  BY <4>1
      <3>. QED  BY <3>1, <3>2
    <2>. HIDE DEF upTo
    <2>2. /\ Cardinality(upTo(f)) <= Cardinality(upTo(h))
          /\ Cardinality(upTo(h)) # Cardinality(upTo(f))
      BY <2>1, <1>1, FS_Subset
    <2>. QED  BY <2>2, <1>1
  <1>4. Cardinality(S) \in Nat
    BY FS_CardinalityType
  <1>5. \A h \in S : Ranks(S)[h] = Cardinality(upTo(h))
    BY DEF Ranks
  <1>. HIDE DEF upTo
  <1>. QED  BY <1>1, <1>2, <1>3, <1>4, <1>5

LEMMA EveryRankTaken ==
    ASSUME NEW S \in SUBSET Nat, IsFiniteSet(S)
    PROVE  \A i \in 1..Cardinality(S) : \E f \in S : Ranks(S)[f] = i
  <1>. DEFINE n == Cardinality(S)
  <1>1. n \in Nat /\ IsFiniteSet(1..n) /\ Cardinality(1..n) = n
    BY FS_CardinalityType, FS_Interval
  <1>2. Ranks(S) \in Injection(S, 1..n)
    <2>1. Ranks(S) \in [S -> 1..n]
      BY RankRises DEF Ranks
    <2>2. \A f, h \in S : Ranks(S)[f] = Ranks(S)[h] => f = h
      <3>. SUFFICES ASSUME NEW f \in S, NEW h \in S, f # h
                    PROVE  Ranks(S)[f] # Ranks(S)[h]
        OBVIOUS
      <3>1. f < h \/ h < f
        OBVIOUS
      <3>. QED  BY <3>1, RankRises
    <2>. QED  BY <2>1, <2>2 DEF Injection, IsInjective
  <1>3. Ranks(S) \in Surjection(S, 1..n)
    <2>. HIDE DEF n
    <2>1. Cardinality(S) = Cardinality(1..n)
      BY <1>1 DEF n
    <2>. QED  BY <1>1, <1>2, <2>1, FS_Injection
  <1>. QED  BY <1>3 DEF Surjection

LEMMA AscendingFacts ==
    ASSUME NEW S \in SUBSET Nat, IsFiniteSet(S)
    PROVE  /\ DOMAIN Ascending(S) = 1..Cardinality(S)
           /\ Cardinality(S) \in Nat
           /\ Ascending(S) \in Seq(S) /\ Len(Ascending(S)) = Cardinality(S)
           /\ \A i \in 1..Cardinality(S) : Ascending(S)[i] \in S
           /\ \A i, j \in 1..Cardinality(S) :
                 i < j => Ascending(S)[i] < Ascending(S)[j]
           /\ \A f \in S : \E i \in 1..Cardinality(S) : Ascending(S)[i] = f
  <1>. DEFINE n == Cardinality(S)
              a == Ascending(S)
  <1>1. n \in Nat
    BY FS_CardinalityType
  <1>2. DOMAIN a = 1..n
    BY DEF Ascending
  <1>3. \A i \in 1..n : a[i] \in S /\ Ranks(S)[a[i]] = i
    <2>. TAKE i \in 1..n
    <2>1. \A f \in S : Ranks(S)[f] = Cardinality({g \in S : g <= f})
      BY DEF Ranks
    <2>2. \E f \in S : Cardinality({g \in S : g <= f}) = i
      BY <2>1, EveryRankTaken
    <2>3. a[i] = CHOOSE f \in S : Cardinality({g \in S : g <= f}) = i
      BY DEF Ascending
    <2>. QED  BY <2>1, <2>2, <2>3
  <1>4. \A f, h \in S : Ranks(S)[f] = Ranks(S)[h] => f = h
    <2>. SUFFICES ASSUME NEW f \in S, NEW h \in S, f # h
                  PROVE  Ranks(S)[f] # Ranks(S)[h]
      OBVIOUS
    <2>1. f < h \/ h < f
      OBVIOUS
    <2>. QED  BY <2>1, RankRises
  <1>5. \A i, j \in 1..n : i < j => a[i] < a[j]
    <2>. SUFFICES ASSUME NEW i \in 1..n, NEW j \in 1..n, i < j
                  PROVE  a[i] < a[j]
      OBVIOUS
    <2>. HIDE DEF n, a
    <2>1. /\ a[i] \in S /\ a[j] \in S /\ i \in Nat /\ j \in Nat
          /\ Ranks(S)[a[i]] = i /\ Ranks(S)[a[j]] = j
      BY <1>1, <1>3
    <2>2. ~(a[j] < a[i])
      <3>1. a[j] < a[i] => Ranks(S)[a[j]] < Ranks(S)[a[i]]
        BY <2>1, RankRises
      <3>. QED  BY <2>1, <3>1
    <2>3. a[j] # a[i]
      <3>1. i # j
        OBVIOUS
      <3>. QED  BY <2>1, <3>1
    <2>4. a[i] \in Nat /\ a[j] \in Nat
      BY <2>1
    <2>. QED  BY <2>2, <2>3, <2>4
  <1>6. \A f \in S : \E i \in 1..n : a[i] = f
    <2>. TAKE f \in S
    <2>1. Ranks(S)[f] \in 1..n
      BY RankRises
    <2>. QED  BY <2>1, <1>3, <1>4
  <1>7. a \in [1..n -> S]
    BY <1>2, <1>3 DEF Ascending
  <1>8. a \in Seq(S) /\ Len(a) = n
    BY <1>1, <1>7
  <1>. QED  BY <1>1, <1>2, <1>3, <1>5, <1>6, <1>8

-----------------------------------------------------------------------------
(* A chain: slices that are not empty and follow each other from one frame *)
(* to another.                                                             *)
Pieces == [lo : Nat, hi : Nat]
ATrim(t) == t \in Pieces /\ t.lo < t.hi

Chain(list, from, to) ==
    /\ list \in Seq(Pieces) /\ Len(list) \in Nat \ {0}
    /\ list[1].lo = from /\ list[Len(list)].hi = to
    /\ \A i \in 1..Len(list) : list[i].lo < list[i].hi
    /\ \A i \in 1..(Len(list) - 1) : list[i].hi = list[i + 1].lo

Starts(list) == {list[i].lo : i \in DOMAIN list}

(* The slices between the starts of a set are a chain, and start there.    *)
LEMMA SlicesFromChain ==
    ASSUME NEW trim, ATrim(trim), NEW S \in SUBSET (trim.lo..(trim.hi - 1)),
           trim.lo \in S
    PROVE  /\ Chain(SlicesFrom(S, trim.hi), trim.lo, trim.hi)
           /\ Starts(SlicesFrom(S, trim.hi)) = S
  <1>. DEFINE a == Ascending(S)
              n == Cardinality(S)
              list == SlicesFrom(S, trim.hi)
  <1>1. trim.lo \in Nat /\ trim.hi \in Nat /\ trim.lo < trim.hi
    BY DEF ATrim, Pieces
  <1>2. S \in SUBSET Nat /\ IsFiniteSet(S)
    <2>1. IsFiniteSet(trim.lo..(trim.hi - 1))
      BY <1>1, FS_Interval
    <2>2. IsFiniteSet(S)
      BY <2>1, FS_Subset
    <2>. QED  BY <1>1, <2>2
  <1>3. /\ DOMAIN a = 1..n /\ n \in Nat /\ Len(a) = n
        /\ \A i \in 1..n : a[i] \in S
        /\ \A i, j \in 1..n : i < j => a[i] < a[j]
        /\ \A f \in S : \E i \in 1..n : a[i] = f
    BY <1>2, AscendingFacts
  <1>4. list = [i \in 1..n |->
                  [lo |-> a[i], hi |-> IF i < n THEN a[i + 1] ELSE trim.hi]]
    BY <1>3 DEF SlicesFrom
  <1>5. PICK one \in 1..n : a[one] = trim.lo
    BY <1>3
  <1>. HIDE DEF a, n, list
  <1>6. n # 0 /\ n \in Nat
    BY <1>3, <1>5
  <1>7. \A i \in 1..n : a[i] \in Nat /\ trim.lo <= a[i] /\ a[i] < trim.hi
    <2>1. \A f \in S : f \in Nat /\ trim.lo <= f /\ f < trim.hi
      BY <1>1
    <2>. QED  BY <1>3, <2>1
  <1>8. a[1] = trim.lo
    <2>1. one = 1 \/ a[1] < a[one]
      BY <1>3, <1>6
    <2>2. 1 \in 1..n
      BY <1>6
    <2>. QED  BY <1>5, <1>7, <1>1, <2>1, <2>2
  <1>9. \A i \in 1..n : /\ list[i].lo = a[i] /\ list[i] \in Pieces
                        /\ list[i].hi = IF i < n THEN a[i + 1] ELSE trim.hi
    <2>. TAKE i \in 1..n
    <2>1. list[i] = [lo |-> a[i], hi |-> IF i < n THEN a[i + 1] ELSE trim.hi]
      BY <1>4
    <2>2. i < n => i + 1 \in 1..n
      BY <1>6
    <2>3. a[i] \in Nat /\ (IF i < n THEN a[i + 1] ELSE trim.hi) \in Nat
      BY <1>7, <2>2, <1>1
    <2>. QED  BY <2>1, <2>3 DEF Pieces
  <1>10. list \in Seq(Pieces) /\ Len(list) = n /\ DOMAIN list = 1..n
    <2>1. list \in [1..n -> Pieces]
      BY <1>4, <1>9
    <2>. QED  BY <2>1, <1>6
  <1>11. \A i \in 1..n : list[i].lo < list[i].hi
    <2>. TAKE i \in 1..n
    <2>1. i < n => i + 1 \in 1..n /\ i < i + 1
      BY <1>6
    <2>2. i < n => a[i] < a[i + 1]
      BY <2>1, <1>3
    <2>. QED  BY <1>9, <2>2, <1>7
  <1>12. \A i \in 1..(n - 1) : list[i].hi = list[i + 1].lo
    <2>. TAKE i \in 1..(n - 1)
    <2>1. i \in 1..n /\ i + 1 \in 1..n /\ i < n
      BY <1>6
    <2>. QED  BY <2>1, <1>9
  <1>13. list[1].lo = trim.lo /\ list[n].hi = trim.hi
    <2>1. 1 \in 1..n /\ n \in 1..n /\ ~(n < n)
      BY <1>6
    <2>. QED  BY <2>1, <1>8, <1>9
  <1>14. Chain(list, trim.lo, trim.hi)
    BY <1>6, <1>10, <1>11, <1>12, <1>13 DEF Chain
  <1>15. Starts(list) = S
    <2>1. Starts(list) = {a[i] : i \in 1..n}
      BY <1>9, <1>10 DEF Starts
    <2>. QED  BY <2>1, <1>3
  <1>. QED  BY <1>14, <1>15 DEF list

(* Dropping the boundary between the first two slices leaves a chain, and  *)
(* takes away that start and no other.                                     *)
LEMMA JoinedChain ==
    ASSUME NEW trim, ATrim(trim), NEW list, NEW to \in Nat,
           Chain(list, trim.lo, to), Len(list) > 1
    PROVE  /\ Chain(Joined(list, trim), trim.lo, to)
           /\ Starts(Joined(list, trim)) \subseteq Starts(list)
           /\ Starts(list) \subseteq Starts(Joined(list, trim)) \cup {list[1].hi}
  <1>. DEFINE n == Len(list)
              first == <<[lo |-> trim.lo, hi |-> list[2].hi]>>
              rest == SubSeq(list, 3, n)
              new == Joined(list, trim)
  <1>1. /\ list \in Seq(Pieces) /\ n \in Nat /\ n > 1 /\ DOMAIN list = 1..n
        /\ list[1].lo = trim.lo /\ list[n].hi = to
        /\ \A i \in 1..n : list[i] \in Pieces /\ list[i].lo < list[i].hi
        /\ \A i \in 1..(n - 1) : list[i].hi = list[i + 1].lo
    BY DEF Chain
  <1>2. first \in Seq(Pieces) /\ Len(first) = 1
    <2>1. list[2] \in Pieces
      BY <1>1
    <2>. QED  BY <2>1 DEF Pieces, ATrim
  <1>3. /\ rest \in Seq(Pieces) /\ Len(rest) = n - 2
        /\ \A i \in 1..(n - 2) : rest[i] = list[i + 2]
    BY <1>1
  <1>4. new = first \o rest
    BY DEF Joined
  <1>5. /\ new \in Seq(Pieces) /\ Len(new) = n - 1 /\ DOMAIN new = 1..(n - 1)
        /\ new[1] = [lo |-> trim.lo, hi |-> list[2].hi]
        /\ \A i \in 2..(n - 1) : new[i] = list[i + 1]
    <2>. HIDE DEF first, rest, new, n
    <2>0. /\ first \o rest \in Seq(Pieces)
          /\ Len(first \o rest) = Len(first) + Len(rest)
          /\ \A i \in 1..(Len(first) + Len(rest)) :
                (first \o rest)[i] = IF i <= Len(first) THEN first[i]
                                     ELSE rest[i - Len(first)]
      BY <1>2, <1>3, ConcatProperties
    <2>1. /\ new \in Seq(Pieces) /\ Len(new) = n - 1
          /\ \A i \in 1..(n - 1) : new[i] = IF i <= 1 THEN first[i] ELSE rest[i - 1]
      BY <2>0, <1>1, <1>2, <1>3, <1>4
    <2>2. new[1] = [lo |-> trim.lo, hi |-> list[2].hi]
      <3>1. new[1] = first[1]
        BY <2>1, <1>1
      <3>. QED  BY <3>1 DEF first
    <2>3. ASSUME NEW i \in 2..(n - 1)
          PROVE  new[i] = list[i + 1]
      <3>1. new[i] = rest[i - 1]
        BY <2>1, <1>1
      <3>2. i - 1 \in 1..(n - 2)
        BY <1>1
      <3>. QED  BY <3>1, <3>2, <1>3
    <2>. QED  BY <2>1, <2>2, <2>3
  <1>. HIDE DEF new, n, first, rest
  <1>6. \A i \in 2..(n - 1) : i + 1 \in 1..n
    BY <1>1
  <1>7. new[1].lo = trim.lo /\ new[1].hi = list[2].hi
    BY <1>5
  <1>8. list[1].lo < list[1].hi /\ list[1].hi = list[2].lo /\ list[2].lo < list[2].hi
    <2>1. 1 \in 1..n /\ 2 \in 1..n /\ 1 \in 1..(n - 1)
      BY <1>1
    <2>. QED  BY <2>1, <1>1
  <1>9. trim.lo \in Nat /\ list[1] \in Pieces /\ list[2] \in Pieces
    BY <1>1 DEF ATrim, Pieces
  <1>10. \A i \in 1..(n - 1) : new[i].lo < new[i].hi
    <2>. TAKE i \in 1..(n - 1)
    <2>1. CASE i = 1
      BY <2>1, <1>1, <1>7, <1>8, <1>9 DEF Pieces
    <2>2. CASE i # 1
      <3>1. i \in 2..(n - 1)
        BY <2>2, <1>1
      <3>. QED  BY <3>1, <1>1, <1>5, <1>6
    <2>. QED  BY <2>1, <2>2
  <1>11. \A i \in 1..(n - 2) : new[i].hi = new[i + 1].lo
    <2>. TAKE i \in 1..(n - 2)
    <2>0. i + 1 \in 2..(n - 1) /\ i + 1 \in 1..(n - 1) /\ (i + 1) + 1 = i + 2
      BY <1>1
    <2>1. new[i + 1] = list[i + 2]
      BY <2>0, <1>5
    <2>2. new[i].hi = list[i + 1].hi
      BY <2>0, <1>1, <1>5, <1>7
    <2>3. list[i + 1].hi = list[(i + 1) + 1].lo
      BY <2>0, <1>1
    <2>. QED  BY <2>0, <2>1, <2>2, <2>3
  <1>12. new[n - 1].hi = to
    <2>1. CASE n = 2
      BY <2>1, <1>1, <1>7
    <2>2. CASE n # 2
      <3>1. n - 1 \in 2..(n - 1) /\ (n - 1) + 1 = n
        BY <2>2, <1>1
      <3>. QED  BY <3>1, <1>1, <1>5
    <2>. QED  BY <2>1, <2>2
  <1>13. Chain(new, trim.lo, to)
    <2>1. (n - 1) - 1 = n - 2 /\ n - 1 \in Nat \ {0}
      BY <1>1
    <2>. QED  BY <2>1, <1>5, <1>7, <1>10, <1>11, <1>12 DEF Chain
  <1>13a. /\ Starts(list) = {list[k].lo : k \in 1..n}
          /\ Starts(new) = {new[i].lo : i \in 1..(n - 1)}
    BY <1>1, <1>5 DEF Starts
  <1>14. Starts(new) \subseteq Starts(list)
    <2>. SUFFICES ASSUME NEW i \in 1..(n - 1)
                  PROVE  \E k \in 1..n : new[i].lo = list[k].lo
      BY <1>13a
    <2>1. CASE i = 1
      <3>1. 1 \in 1..n
        BY <1>1
      <3>. QED  BY <2>1, <3>1, <1>1, <1>7
    <2>2. CASE i # 1
      <3>1. i \in 2..(n - 1)
        BY <2>2, <1>1
      <3>. QED  BY <3>1, <1>5, <1>6
    <2>. QED  BY <2>1, <2>2
  <1>15. Starts(list) \subseteq Starts(new) \cup {list[1].hi}
    <2>. SUFFICES ASSUME NEW k \in 1..n, list[k].lo # list[1].hi
                  PROVE  \E i \in 1..(n - 1) : new[i].lo = list[k].lo
      BY <1>13a
    <2>1. CASE k = 1
      <3>1. 1 \in 1..(n - 1)
        BY <1>1
      <3>. QED  BY <2>1, <3>1, <1>1, <1>7
    <2>2. CASE k # 1
      <3>1. k - 1 \in 2..(n - 1) /\ (k - 1) + 1 = k /\ k - 1 \in 1..(n - 1)
        BY <2>2, <1>1, <1>8
      <3>. QED  BY <3>1, <1>5
    <2>. QED  BY <2>1, <2>2
  <1>. QED  BY <1>13, <1>14, <1>15 DEF new

(* So does dropping the last slice, which ends the chain where it began.   *)
LEMMA FrontChain ==
    ASSUME NEW list, NEW from \in Nat, NEW to \in Nat,
           Chain(list, from, to), Len(list) > 1
    PROVE  /\ Chain(Front(list), from, Last(list).lo)
           /\ Last(list).hi = to /\ Last(list).lo < to /\ Last(list).lo \in Nat
           /\ Starts(Front(list)) \subseteq Starts(list)
           /\ Starts(list) \subseteq Starts(Front(list)) \cup {Last(list).lo}
  <1>. DEFINE n == Len(list)
              new == Front(list)
  <1>1. /\ list \in Seq(Pieces) /\ n \in Nat /\ n > 1 /\ DOMAIN list = 1..n
        /\ list[1].lo = from /\ list[n].hi = to
        /\ \A i \in 1..n : list[i] \in Pieces /\ list[i].lo < list[i].hi
        /\ \A i \in 1..(n - 1) : list[i].hi = list[i + 1].lo
    BY DEF Chain
  <1>2. /\ new \in Seq(Pieces) /\ Len(new) = n - 1 /\ DOMAIN new = 1..(n - 1)
        /\ \A i \in 1..(n - 1) : new[i] = list[i]
    <2>1. new = SubSeq(list, 1, n - 1)
      BY DEF Front
    <2>. HIDE DEF new
    <2>2. /\ SubSeq(list, 1, n - 1) \in Seq(Pieces)
          /\ Len(SubSeq(list, 1, n - 1)) = n - 1
          /\ \A i \in 1..(n - 1) : SubSeq(list, 1, n - 1)[i] = list[i]
      BY <1>1
    <2>. QED  BY <2>1, <2>2, <1>1
  <1>3. Last(list) = list[n]
    BY DEF Last
  <1>. HIDE DEF new, n
  <1>4. /\ n - 1 \in 1..(n - 1) /\ n \in 1..n /\ (n - 1) + 1 = n /\ 1 \in 1..(n - 1)
        /\ \A i \in 1..(n - 1) : i \in 1..n
        /\ \A i \in 1..((n - 1) - 1) : i \in 1..(n - 1) /\ i + 1 \in 1..(n - 1)
        /\ n - 1 \in Nat \ {0}
    BY <1>1
  <1>5. list[n - 1].hi = list[n].lo
    BY <1>1, <1>4
  <1>6. Chain(new, from, list[n].lo)
    BY <1>1, <1>2, <1>4, <1>5 DEF Chain
  <1>7. /\ Starts(new) \subseteq Starts(list)
        /\ Starts(list) \subseteq Starts(new) \cup {list[n].lo}
    <2>1. \A i \in 1..n : i \in 1..(n - 1) \/ i = n
      BY <1>1
    <2>. QED  BY <1>1, <1>2, <1>4, <2>1 DEF Starts
  <1>8. list[n].lo \in Nat /\ list[n].lo < list[n].hi
    BY <1>1, <1>4 DEF Pieces
  <1>. QED  BY <1>1, <1>3, <1>6, <1>7, <1>8 DEF new

-----------------------------------------------------------------------------
(* Where a rebuild may start a slice: inside the trim, whatever is         *)
(* detected, excluded, quantized or added.                                 *)
Inside(trim) == trim.lo..(trim.hi - 1)

LEMMA InsideFacts ==
    ASSUME NEW trim, ATrim(trim)
    PROVE  /\ trim.lo \in Nat /\ trim.hi \in Nat /\ trim.lo < trim.hi
           /\ Span(trim) \in Nat \ {0}
           /\ trim.lo \in Inside(trim) /\ trim.hi - 1 \in Inside(trim)
           /\ \A f \in Inside(trim) : /\ f \in Nat /\ trim.lo <= f /\ f < trim.hi
                                      /\ f <= trim.hi - 1
  <1>1. trim.lo \in Nat /\ trim.hi \in Nat /\ trim.lo < trim.hi
    BY DEF ATrim, Pieces
  <1>. QED  BY <1>1 DEF Span, Inside

LEMMA DetectedInside ==
    ASSUME NEW peaks, NEW trim, ATrim(trim)
    PROVE  DetectSlices(peaks, trim) \subseteq Inside(trim)
  <1>1. /\ trim.lo \in Nat /\ trim.hi \in Nat /\ trim.lo < trim.hi
        /\ trim.lo \in Inside(trim)
    BY InsideFacts
  <1>. DEFINE first == Max({1, trim.lo})
              kept[f \in first..(trim.hi - 1)] ==
                 /\ f \in peaks
                 /\ \A g \in first..(f - 1) : kept[g] => f - g >= Holdoff(trim)
  <1>2. DetectSlices(peaks, trim) =
            {trim.lo} \cup {f \in first..(trim.hi - 1) : kept[f]}
    BY DEF DetectSlices
  <1>. HIDE DEF kept
  <1>3. first \in Nat /\ first >= trim.lo
    BY <1>1, MaxOfTwo
  <1>. HIDE DEF first
  <1>4. first..(trim.hi - 1) \subseteq Inside(trim)
    BY <1>1, <1>3 DEF Inside
  <1>. QED  BY <1>1, <1>2, <1>4

LEMMA RoundNatural ==
    ASSUME NEW num \in Nat, NEW den \in Nat \ {0}
    PROVE  Round(num, den) \in Nat
  <1>. DEFINE a == 2 * num + den
              b == 2 * den
  <1>1. a \in Nat /\ b \in Nat \ {0}
    OBVIOUS
  <1>. HIDE DEF a, b
  <1>2. a \div b \in Nat
    BY <1>1
  <1>. QED  BY <1>2 DEF Round, a, b

LEMMA QuantizedInside ==
    ASSUME NEW trim, ATrim(trim), NEW f \in Inside(trim)
    PROVE  QuantizeFrameToGrid(f, trim) \in Inside(trim)
  <1>. DEFINE step == Round((f - trim.lo) * GridDiv, Span(trim))
              at == trim.lo + Round(step * Span(trim), GridDiv)
  <1>1. /\ trim.lo \in Nat /\ trim.hi \in Nat /\ trim.lo < trim.hi
        /\ Span(trim) \in Nat \ {0}
        /\ f \in Nat /\ trim.lo <= f /\ trim.hi - 1 \in Inside(trim)
    BY InsideFacts
  <1>2. GridDiv \in Nat \ {0}
    BY SliceBuilderAssumption
  <1>3. \A m, n \in Nat : m * n \in Nat
    OBVIOUS
  <1>4. step \in Nat
    <2>1. (f - trim.lo) * GridDiv \in Nat
      <3>1. f - trim.lo \in Nat /\ GridDiv \in Nat
        BY <1>1, <1>2
      <3>. QED  BY <3>1, <1>3
    <2>. QED  BY <2>1, <1>1, RoundNatural
  <1>. HIDE DEF step
  <1>5. Round(step * Span(trim), GridDiv) \in Nat
    <2>1. step * Span(trim) \in Nat
      BY <1>1, <1>3, <1>4
    <2>. QED  BY <2>1, <1>2, RoundNatural
  <1>6. at \in Nat /\ at >= trim.lo
    BY <1>1, <1>5
  <1>. HIDE DEF at
  <1>7. QuantizeFrameToGrid(f, trim) = Min({at, trim.hi - 1})
    BY DEF QuantizeFrameToGrid, at, step
  <1>. QED  BY <1>1, <1>6, <1>7, MinOfTwo DEF Inside

(* The starts of a rebuild before the ghost rules.                         *)
MergedStarts(autos, manual, excluded, quantize, trim) ==
    {trim.lo} \cup AutoOnsets(autos \ {trim.lo}, excluded, quantize, trim)
              \cup {m \in manual : trim.lo < m /\ m < trim.hi}

LEMMA MergedInside ==
    ASSUME NEW trim, ATrim(trim), NEW autos \in SUBSET Inside(trim),
           NEW manual \in SUBSET Nat, NEW excluded, NEW quantize
    PROVE  MergedStarts(autos, manual, excluded, quantize, trim)
               \subseteq Inside(trim)
  <1>1. /\ trim.lo \in Nat /\ trim.hi \in Nat /\ trim.lo < trim.hi
        /\ trim.lo \in Inside(trim)
    BY InsideFacts
  <1>2. AutoOnsets(autos \ {trim.lo}, excluded, quantize, trim) \subseteq Inside(trim)
    BY QuantizedInside DEF AutoOnsets
  <1>3. \A m \in Nat : trim.lo < m /\ m < trim.hi => m \in Inside(trim)
    BY <1>1 DEF Inside
  <1>. QED  BY <1>1, <1>2, <1>3 DEF MergedStarts

(***************************************************************************)
(* What a rebuild makes of a trim: a chain from the start of the trim to   *)
(* its end or to where nothing but silence is left.  It starts slices only *)
(* where merging did, and a start that it gave up is the end of a slice,   *)
(* unless no manual point can have been there.                             *)
(***************************************************************************)
LEMMA FilteredChain ==
    ASSUME NEW trim, ATrim(trim), NEW list, Chain(list, trim.lo, trim.hi),
           NEW manual, NEW quiet
    PROVE  LET new == FilterGhostSlices(list, manual, trim, quiet)
           IN  \E to \in Nat :
                  /\ to <= trim.hi /\ to..(trim.hi - 1) \subseteq quiet
                  /\ Chain(new, trim.lo, to)
                  /\ Starts(new) \subseteq Starts(list)
                  /\ \A m \in manual : trim.lo < m /\ m \in Starts(list)
                        => m \in Starts(new) \cup {to}
  <1>. DEFINE sliver == HasSliver(list, manual, trim)
              kept == IF sliver THEN Joined(list, trim) ELSE list
              new == FilterGhostSlices(list, manual, trim, quiet)
              Ends(to) == /\ to <= trim.hi /\ to..(trim.hi - 1) \subseteq quiet
                          /\ Chain(new, trim.lo, to)
                          /\ Starts(new) \subseteq Starts(list)
                          /\ \A m \in manual : trim.lo < m /\ m \in Starts(list)
                                => m \in Starts(new) \cup {to}
              drop == Len(kept) > 1 /\ Silent(Last(kept), quiet) /\ ~Silent(trim, quiet)
  <1>. SUFFICES \E to \in Nat : Ends(to)
    OBVIOUS
  <1>1. trim.lo \in Nat /\ trim.hi \in Nat /\ trim.lo < trim.hi
    BY InsideFacts
  <1>2. /\ Chain(kept, trim.lo, trim.hi) /\ Starts(kept) \subseteq Starts(list)
        /\ \A m \in manual : trim.lo < m /\ m \in Starts(list) => m \in Starts(kept)
    <2>1. CASE sliver
      <3>0. Len(list) > 1 /\ Head(list) = list[1]
        BY <2>1 DEF HasSliver, Chain
      <3>1. /\ Chain(kept, trim.lo, trim.hi) /\ Starts(kept) \subseteq Starts(list)
            /\ Starts(list) \subseteq Starts(kept) \cup {list[1].hi}
        BY <2>1, <3>0, <1>1, JoinedChain
      <3>2. list[1].hi \in Nat
        <4>1. list \in Seq(Pieces) /\ 1 \in 1..Len(list)
          BY <3>0 DEF Chain
        <4>2. list[1] \in Pieces
          BY <4>1
        <4>. QED  BY <4>2 DEF Pieces
      <3>3. \A m \in manual : ~(trim.lo < m /\ m = list[1].hi)
        BY <2>1, <3>0, <3>2 DEF HasSliver, PointMadeSliver
      <3>. HIDE DEF kept, sliver
      <3>. QED  BY <3>1, <3>3
    <2>2. CASE ~sliver
      BY <2>2
    <2>. QED  BY <2>1, <2>2
  <1>3. new = IF drop THEN Front(kept) ELSE kept
    BY DEF FilterGhostSlices
  <1>. HIDE DEF sliver, kept, new
  <1>4. CASE drop
    <2>1. /\ Chain(Front(kept), trim.lo, Last(kept).lo)
          /\ Last(kept).hi = trim.hi /\ Last(kept).lo < trim.hi /\ Last(kept).lo \in Nat
          /\ Starts(Front(kept)) \subseteq Starts(kept)
          /\ Starts(kept) \subseteq Starts(Front(kept)) \cup {Last(kept).lo}
      BY <1>1, <1>2, <1>4, FrontChain
    <2>2. Last(kept).lo..(trim.hi - 1) \subseteq quiet
      BY <2>1, <1>4 DEF Silent
    <2>3. new = Front(kept)
      BY <1>3, <1>4
    <2>. DEFINE to == Last(kept).lo
    <2>4. to \in Nat /\ to <= trim.hi /\ to..(trim.hi - 1) \subseteq quiet
      BY <1>1, <2>1, <2>2
    <2>5. Chain(new, trim.lo, to)
      BY <2>1, <2>3
    <2>6. /\ Starts(new) \subseteq Starts(kept)
          /\ Starts(kept) \subseteq Starts(new) \cup {to}
      BY <2>1, <2>3
    <2>. HIDE DEF to
    <2>7. Ends(to)
      BY <1>2, <2>4, <2>5, <2>6
    <2>. HIDE DEF Ends
    <2>. QED  BY <2>4, <2>7
  <1>5. CASE ~drop
    <2>1. new = kept
      BY <1>3, <1>5
    <2>2. trim.hi..(trim.hi - 1) \subseteq quiet
      BY <1>1
    <2>3. trim.hi \in Nat /\ trim.hi <= trim.hi
      BY <1>1
    <2>4. Ends(trim.hi)
      BY <1>2, <2>1, <2>2, <2>3
    <2>. HIDE DEF Ends
    <2>. QED  BY <2>3, <2>4
  <1>. HIDE DEF Ends, drop
  <1>. QED  BY <1>4, <1>5

LEMMA BuiltChain ==
    ASSUME NEW trim, ATrim(trim), NEW peaks, NEW quiet,
           NEW manual \in SUBSET Nat, NEW excluded, NEW quantize
    PROVE  LET new == BuildSlices(peaks, quiet, manual, excluded, quantize, trim)
               starts == MergedStarts(DetectSlices(peaks, trim), manual, excluded,
                                      quantize, trim)
           IN  /\ \E to \in Nat :
                    /\ to <= trim.hi /\ to..(trim.hi - 1) \subseteq quiet
                    /\ Chain(new, trim.lo, to)
                    /\ \A m \in manual : trim.lo < m /\ m < trim.hi
                          => m \in Starts(new) \cup {to}
               /\ Starts(new) \subseteq starts
  <1>. DEFINE autos == DetectSlices(peaks, trim)
              starts == MergedStarts(autos, manual, excluded, quantize, trim)
              list == SlicesFrom(starts, trim.hi)
              new == BuildSlices(peaks, quiet, manual, excluded, quantize, trim)
  <1>1. new = FilterGhostSlices(list, manual, trim, quiet)
    BY DEF BuildSlices, MergeOnsetsIntoSlices, MergedStarts
  <1>2. starts \in SUBSET Inside(trim) /\ trim.lo \in starts
    <2>1. autos \in SUBSET Inside(trim)
      BY DetectedInside
    <2>. HIDE DEF autos
    <2>2. starts \in SUBSET Inside(trim)
      BY <2>1, MergedInside
    <2>. QED  BY <2>2 DEF MergedStarts
  <1>3. \A m \in manual : trim.lo < m /\ m < trim.hi => m \in starts
    BY DEF MergedStarts
  <1>. HIDE DEF starts
  <1>4. Chain(list, trim.lo, trim.hi) /\ Starts(list) = starts
    BY <1>2, SlicesFromChain DEF Inside
  <1>. HIDE DEF list
  <1>5. \E to \in Nat :
           /\ to <= trim.hi /\ to..(trim.hi - 1) \subseteq quiet
           /\ Chain(FilterGhostSlices(list, manual, trim, quiet), trim.lo, to)
           /\ Starts(FilterGhostSlices(list, manual, trim, quiet)) \subseteq Starts(list)
           /\ \A m \in manual : trim.lo < m /\ m \in Starts(list)
                 => m \in Starts(FilterGhostSlices(list, manual, trim, quiet)) \cup {to}
    BY <1>4, FilteredChain
  <1>. HIDE DEF new
  <1>. QED  BY <1>1, <1>3, <1>4, <1>5 DEF new, starts

-----------------------------------------------------------------------------
(* The slices of a chain do not overlap, stay between its ends, and leave  *)
(* no frame between them out.                                              *)
LEMMA ChainFacts ==
    ASSUME NEW list, NEW from \in Nat, NEW to \in Nat, Chain(list, from, to)
    PROVE  /\ list \in Seq(Pieces) /\ Len(list) \in Nat \ {0}
           /\ DOMAIN list = 1..Len(list)
           /\ \A i \in 1..Len(list) :
                 /\ list[i].lo \in Nat /\ list[i].hi \in Nat
                 /\ list[i].lo < list[i].hi
           /\ list[1].lo = from /\ list[Len(list)].hi = to
           /\ \A i \in 1..(Len(list) - 1) : list[i].hi = list[i + 1].lo
  <1>1. list \in Seq(Pieces) /\ Len(list) \in Nat \ {0} /\ DOMAIN list = 1..Len(list)
    BY DEF Chain
  <1>2. \A i \in 1..Len(list) : list[i] \in Pieces
    BY <1>1
  <1>. QED  BY <1>1, <1>2 DEF Chain, Pieces

LEMMA ChainOrder ==
    ASSUME NEW list, NEW from \in Nat, NEW to \in Nat, Chain(list, from, to)
    PROVE  /\ \A i, j \in 1..Len(list) : i < j => list[i].hi <= list[j].lo
           /\ \A i \in 1..Len(list) : from <= list[i].lo /\ list[i].hi <= to
  <1>. DEFINE n == Len(list)
  <1>1. /\ n \in Nat \ {0} /\ list[1].lo = from /\ list[n].hi = to
        /\ \A i \in 1..n : /\ list[i].lo \in Nat /\ list[i].hi \in Nat
                           /\ list[i].lo < list[i].hi
        /\ \A i \in 1..(n - 1) : list[i].hi = list[i + 1].lo
    BY ChainFacts
  <1>. HIDE DEF n
  <1>2. \A i, j \in 1..n : i < j => list[i].hi <= list[j].lo
    <2>. SUFFICES ASSUME NEW i \in 1..n,
                         {j \in 1..n : i < j /\ ~(list[i].hi <= list[j].lo)} # {}
                  PROVE  FALSE
      OBVIOUS
    <2>. DEFINE Bad == {j \in 1..n : i < j /\ ~(list[i].hi <= list[j].lo)}
    <2>1. Bad \in SUBSET Nat /\ Bad # {}
      OBVIOUS
    <2>. HIDE DEF Bad
    <2>2. PICK j \in Bad : \A k \in Bad : j <= k
      BY <2>1, LeastElement
    <2>3. j \in 1..n /\ i < j /\ ~(list[i].hi <= list[j].lo)
      BY DEF Bad
    <2>4. j - 1 \in 1..(n - 1) /\ (j - 1) + 1 = j /\ j - 1 \in 1..n
      BY <1>1, <2>3
    <2>5. list[j - 1].hi = list[j].lo
      BY <1>1, <2>4
    <2>6. CASE j - 1 = i
      BY <2>3, <2>5, <2>6, <1>1
    <2>7. CASE j - 1 # i
      <3>1. i < j - 1 /\ ~(j <= j - 1)
        BY <2>3, <2>7
      <3>2. j - 1 \notin Bad
        BY <3>1, <2>2
      <3>3. list[i].hi <= list[j - 1].lo
        BY <3>1, <3>2, <2>4 DEF Bad
      <3>. QED  BY <3>3, <2>3, <2>4, <2>5, <1>1
    <2>. QED  BY <2>6, <2>7
  <1>3. \A i \in 1..n : from <= list[i].lo /\ list[i].hi <= to
    <2>. TAKE i \in 1..n
    <2>0. 1 \in 1..n /\ n \in 1..n /\ (i = 1 \/ 1 < i) /\ (i = n \/ i < n)
      BY <1>1
    <2>1. from <= list[i].lo
      BY <2>0, <1>1, <1>2
    <2>2. list[i].hi <= to
      BY <2>0, <1>1, <1>2
    <2>. QED  BY <2>1, <2>2
  <1>. QED  BY <1>2, <1>3 DEF n

LEMMA ChainCovers ==
    ASSUME NEW list, NEW from \in Nat, NEW to \in Nat, Chain(list, from, to),
           NEW f \in Nat, from <= f, f < to
    PROVE  \E i \in 1..Len(list) : list[i].lo <= f /\ f < list[i].hi
  <1>. DEFINE n == Len(list)
              After == {i \in 1..n : f < list[i].hi}
  <1>1. /\ n \in Nat \ {0} /\ list[1].lo = from /\ list[n].hi = to
        /\ \A i \in 1..n : list[i].lo \in Nat /\ list[i].hi \in Nat
        /\ \A i \in 1..(n - 1) : list[i].hi = list[i + 1].lo
    BY ChainFacts
  <1>. HIDE DEF n
  <1>2. After \in SUBSET Nat /\ n \in After
    BY <1>1
  <1>3. PICK i \in After : \A k \in After : i <= k
    <2>. HIDE DEF After
    <2>. QED  BY <1>2, LeastElement
  <1>4. i \in 1..n /\ f < list[i].hi
    OBVIOUS
  <1>5. CASE i = 1
    BY <1>1, <1>4, <1>5 DEF n
  <1>6. CASE i # 1
    <2>1. i - 1 \in 1..(n - 1) /\ (i - 1) + 1 = i /\ i - 1 \in 1..n /\ ~(i <= i - 1)
      BY <1>1, <1>4, <1>6
    <2>2. i - 1 \notin After
      BY <1>3, <2>1
    <2>3. list[i].lo <= f
      BY <2>1, <2>2, <1>1
    <2>. QED  BY <1>4, <2>3 DEF n
  <1>. QED  BY <1>5, <1>6

LEMMA ChainTiles ==
    ASSUME NEW trim, ATrim(trim), NEW list, NEW to \in Nat, NEW quiet,
           Chain(list, trim.lo, to), to <= trim.hi,
           to..(trim.hi - 1) \subseteq quiet
    PROVE  Tiles(list, trim, quiet)
  <1>1. trim.lo \in Nat /\ trim.hi \in Nat
    BY InsideFacts
  <1>2. /\ Len(list) \in Nat \ {0} /\ DOMAIN list = 1..Len(list)
        /\ list \in Seq(Pieces)
        /\ \A i \in 1..Len(list) : list[i].lo < list[i].hi
        /\ list[1].lo = trim.lo /\ list[Len(list)].hi = to
        /\ \A i \in 1..(Len(list) - 1) : list[i].hi = list[i + 1].lo
    BY <1>1, ChainFacts
  <1>3. list # <<>> /\ Head(list) = list[1] /\ Last(list) = list[Len(list)]
    BY <1>2 DEF Last
  <1>. QED  BY <1>2, <1>3 DEF Tiles

(***************************************************************************)
(* What a block plays of a chain inside a narrower trim: every frame of    *)
(* the trim once, up to the end of the chain.                              *)
(***************************************************************************)
LEMMA ClippedOnce ==
    ASSUME NEW list, NEW from \in Nat, NEW to \in Nat, Chain(list, from, to),
           NEW w, NEW trim \in Pieces, from <= trim.lo,
           NEW end \in Nat, NEW quiet, to..(end - 1) \subseteq quiet, trim.hi <= end
    PROVE  CoveredOnce(ClipSlicesToTrim(list, trim, w), trim, quiet)
  <1>. DEFINE n == Len(list)
              I == {i \in DOMAIN list : Overlaps(list[i], trim)}
              m == Cardinality(I)
              a == Ascending(I)
              new == ClipSlicesToTrim(list, trim, w)
  <1>1. /\ n \in Nat \ {0} /\ DOMAIN list = 1..n
        /\ \A i \in 1..n : list[i].lo \in Nat /\ list[i].hi \in Nat
    BY ChainFacts
  <1>2. /\ \A i, j \in 1..n : i < j => list[i].hi <= list[j].lo
        /\ \A i \in 1..n : from <= list[i].lo /\ list[i].hi <= to
    BY ChainOrder
  <1>3. trim.lo \in Nat /\ trim.hi \in Nat
    BY DEF Pieces
  <1>4. I \in SUBSET Nat /\ IsFiniteSet(I) /\ I \subseteq 1..n
    <2>1. I \subseteq 1..n /\ IsFiniteSet(1..n)
      BY <1>1, FS_Interval
    <2>. HIDE DEF I
    <2>2. IsFiniteSet(I)
      BY <2>1, FS_Subset
    <2>. QED  BY <2>1, <2>2
  <1>5. /\ DOMAIN a = 1..m /\ m \in Nat
        /\ \A i \in 1..m : a[i] \in I
        /\ \A i, j \in 1..m : i < j => a[i] < a[j]
        /\ \A f \in I : \E i \in 1..m : a[i] = f
    <2>. HIDE DEF I
    <2>. QED  BY <1>4, AscendingFacts
  <1>6. /\ DOMAIN new = 1..m
        /\ \A j \in 1..m : /\ new[j].lo = Max({list[a[j]].lo, trim.lo})
                           /\ new[j].hi = Min({list[a[j]].hi, trim.hi})
    BY <1>5 DEF ClipSlicesToTrim
  <1>7. \A i \in I : i \in 1..n /\ Overlaps(list[i], trim)
    BY <1>1
  <1>. HIDE DEF n, m, a, new
  <1>. SUFFICES ASSUME NEW f \in trim.lo..(trim.hi - 1)
                PROVE  LET c == Cardinality({j \in DOMAIN new :
                                               new[j].lo <= f /\ f < new[j].hi})
                       IN  c = 1 \/ (c = 0 /\ f \in quiet)
    BY DEF CoveredOnce, new
  <1>. DEFINE Plays(j) == new[j].lo <= f /\ f < new[j].hi
              Has(i) == list[i].lo <= f /\ f < list[i].hi
              P == {j \in DOMAIN new : Plays(j)}
  <1>8. f \in Nat /\ trim.lo <= f /\ f < trim.hi
    BY <1>3
  <1>9. \A j \in 1..m : Plays(j) <=> Has(a[j])
    <2>. TAKE j \in 1..m
    <2>1. a[j] \in 1..n
      BY <1>5, <1>7
    <2>2. list[a[j]].lo \in Nat /\ list[a[j]].hi \in Nat
      BY <2>1, <1>1
    <2>3. /\ new[j].lo = IF list[a[j]].lo >= trim.lo THEN list[a[j]].lo ELSE trim.lo
          /\ new[j].hi = IF list[a[j]].hi <= trim.hi THEN list[a[j]].hi ELSE trim.hi
      <3>1. /\ new[j].lo = Max({list[a[j]].lo, trim.lo})
            /\ new[j].hi = Min({list[a[j]].hi, trim.hi})
        BY <1>6
      <3>2. PICK lo \in Int, hi \in Int : lo = list[a[j]].lo /\ hi = list[a[j]].hi
        BY <2>2
      <3>3. /\ Max({lo, trim.lo}) = IF lo >= trim.lo THEN lo ELSE trim.lo
            /\ Min({hi, trim.hi}) = IF hi <= trim.hi THEN hi ELSE trim.hi
        BY <1>3, MinOfTwo, MaxOfTwo
      <3>. QED  BY <3>1, <3>2, <3>3
    <2>. QED  BY <2>2, <2>3, <1>3, <1>8
  <1>. HIDE DEF Plays
  <1>10. CASE f < to
    <2>1. PICK i \in 1..n : Has(i)
      <3>1. from <= f
        BY <1>3, <1>8
      <3>. QED  BY <3>1, <1>8, <1>10, ChainCovers DEF n
    <2>2. i \in I
      BY <2>1, <1>1, <1>3, <1>8 DEF Overlaps
    <2>3. PICK j \in 1..m : a[j] = i
      BY <2>2, <1>5
    <2>4. \A k \in 1..n : Has(k) => k = i
      <3>. SUFFICES ASSUME NEW k \in 1..n, Has(k), k # i PROVE FALSE
        OBVIOUS
      <3>1. k < i \/ i < k
        OBVIOUS
      <3>. QED  BY <3>1, <2>1, <1>1, <1>2, <1>8
    <2>. HIDE DEF Has, I
    <2>5. \A k \in 1..m : a[k] = i => k = j
      <3>. SUFFICES ASSUME NEW k \in 1..m, a[k] = i, k # j PROVE FALSE
        OBVIOUS
      <3>1. k < j \/ j < k
        OBVIOUS
      <3>2. i \in Nat /\ ~(i < i)
        OBVIOUS
      <3>. QED  BY <3>1, <3>2, <2>3, <1>5
    <2>6. \A k \in 1..m : Plays(k) <=> k = j
      BY <2>1, <2>3, <2>4, <2>5, <1>5, <1>7, <1>9
    <2>7. P = {j}
      BY <2>6, <1>6
    <2>8. Cardinality({j}) = 1
      BY FS_Singleton
    <2>. QED  BY <2>7, <2>8 DEF Plays
  <1>11. CASE ~(f < to)
    <2>1. f \in quiet
      BY <1>3, <1>8, <1>11
    <2>2. \A k \in 1..n : ~Has(k)
      BY <1>1, <1>2, <1>8, <1>11
    <2>. HIDE DEF Has, I
    <2>3. P = {}
      BY <2>2, <1>5, <1>6, <1>7, <1>9
    <2>4. Cardinality(P) = 0
      BY <2>3, FS_EmptySet
    <2>. QED  BY <2>1, <2>4 DEF Plays
  <1>. QED  BY <1>10, <1>11

-----------------------------------------------------------------------------
(* Frames reaches to the end of the longest sound.                         *)
LEMMA MaxOfFinite ==
    ASSUME NEW S \in SUBSET Nat, IsFiniteSet(S), S # {}
    PROVE  Max(S) \in S /\ \A x \in S : x <= Max(S)
  <1>. DEFINE n == Cardinality(S)
              a == Ascending(S)
  <1>1. /\ n \in Nat /\ \A i \in 1..n : a[i] \in S
        /\ \A i, j \in 1..n : i < j => a[i] < a[j]
        /\ \A f \in S : \E i \in 1..n : a[i] = f
    BY AscendingFacts
  <1>. HIDE DEF n, a
  <1>2. n \in 1..n
    <2>1. PICK f \in S : TRUE
      OBVIOUS
    <2>2. PICK i \in 1..n : a[i] = f
      BY <1>1, <2>1
    <2>. QED  BY <1>1, <2>2
  <1>3. \A x \in S : a[n] >= x
    <2>. TAKE x \in S
    <2>1. PICK i \in 1..n : a[i] = x
      BY <1>1
    <2>2. i = n \/ i < n
      BY <1>1
    <2>3. i < n => a[i] < a[n]
      BY <1>1, <1>2
    <2>4. a[n] \in Nat /\ x \in Nat
      BY <1>1, <1>2
    <2>. QED  BY <2>1, <2>2, <2>3, <2>4
  <1>4. \E m \in S : \A x \in S : m >= x
    BY <1>1, <1>2, <1>3
  <1>5. Max(S) \in S /\ \A x \in S : Max(S) >= x
    BY <1>4 DEF Max
  <1>6. Max(S) \in Nat /\ \A x \in S : x \in Nat
    BY <1>5
  <1>. QED  BY <1>5, <1>6

LEMMA FramesFacts ==
    /\ Frames \subseteq Nat
    /\ \A s \in Sounds : /\ Length[s] \in Nat /\ Length[s] >= MinGap
                         /\ \A f \in Nat : f <= Length[s] => f \in Frames
  <1>1. Frames \subseteq Nat
    BY DEF Frames
  <1>2. ASSUME NEW s \in Sounds
        PROVE  /\ Length[s] \in Nat /\ Length[s] >= MinGap
               /\ \A f \in Nat : f <= Length[s] => f \in Frames
    <2>. DEFINE lengths == {Length[t] : t \in Sounds}
    <2>1. lengths \in SUBSET Nat /\ Length[s] \in lengths /\ lengths # {}
      BY EditingAssumption
    <2>2. IsFiniteSet(lengths)
      <3>1. Length \in Surjection(Sounds, lengths)
        BY EditingAssumption DEF Surjection
      <3>. HIDE DEF lengths
      <3>. QED  BY <3>1, EditingAssumption, FS_Surjection
    <2>. HIDE DEF lengths
    <2>3. Max(lengths) \in Nat /\ Length[s] <= Max(lengths)
      BY <2>1, <2>2, MaxOfFinite
    <2>4. Frames = 0..Max(lengths)
      BY DEF Frames, lengths
    <2>. QED  BY <2>1, <2>3, <2>4, EditingAssumption
  <1>. QED  BY <1>1, <1>2

(* A trim that may be selected: not empty, and inside the sound.           *)
LEMMA SelectionFacts ==
    ASSUME NEW t \in Selections
    PROVE  /\ ATrim(t) /\ t.lo \in Frames /\ t.hi \in Frames
           /\ t.lo \in Nat /\ t.hi \in Nat /\ t.hi - t.lo >= MinGap
  <1>1. t \in [lo : Frames, hi : Frames] /\ Span(t) >= MinGap
    BY DEF Selections
  <1>2. t.lo \in Nat /\ t.hi \in Nat /\ t \in Pieces
    BY <1>1, FramesFacts DEF Pieces
  <1>. QED  BY <1>1, <1>2, EditingAssumption DEF Span, ATrim

(* The frames a trim inside a sound has are frames.                        *)
LEMMA InsideFrames ==
    ASSUME NEW s \in Sounds, NEW t \in Selections, t.hi <= Length[s]
    PROVE  Inside(t) \subseteq Frames
  <1>1. \A f \in Inside(t) : f \in Nat /\ f < t.hi
    BY SelectionFacts, InsideFacts
  <1>2. t.hi \in Nat /\ Length[s] \in Nat
    BY SelectionFacts, FramesFacts
  <1>3. \A f \in Inside(t) : f <= Length[s]
    BY <1>1, <1>2
  <1>. QED  BY <1>1, <1>3, FramesFacts

(***************************************************************************)
(* What the slot holds after a rebuild of a document.                      *)
(***************************************************************************)
Manuals == UNION {[ids -> Frames] : ids \in SUBSET (1..MaxManual)}

LEMMA DocFacts ==
    ASSUME NEW d \in Docs
    PROVE  /\ d.trim \in Selections \cup {NoTrim} /\ d.manual \in Manuals
           /\ d.excluded \in SUBSET Frames /\ d.sensitivity \in Sensitivities
           /\ d.quantize \in BOOLEAN
           /\ Points(d) \in SUBSET Nat
           /\ DOMAIN d.manual \subseteq 1..MaxManual
           /\ \A id \in DOMAIN d.manual : d.manual[id] \in Frames
  <1>1. /\ d.trim \in Selections \cup {NoTrim} /\ d.manual \in Manuals
        /\ d.excluded \in SUBSET Frames /\ d.sensitivity \in Sensitivities
        /\ d.quantize \in BOOLEAN
    BY DEF Docs, Manuals
  <1>2. PICK ids \in SUBSET (1..MaxManual) : d.manual \in [ids -> Frames]
    BY <1>1 DEF Manuals
  <1>3. DOMAIN d.manual = ids /\ \A id \in ids : d.manual[id] \in Frames
    BY <1>2
  <1>4. Points(d) \in SUBSET Nat
    BY <1>3, FramesFacts DEF Points
  <1>. QED  BY <1>1, <1>3, <1>4

LEMMA SlicesOfChain ==
    ASSUME NEW s, NEW d \in Docs, d.trim \in Selections
    PROVE  \E to \in Nat :
              /\ to <= d.trim.hi /\ to..(d.trim.hi - 1) \subseteq Quiet[s]
              /\ Chain(SlicesOf(s, d), d.trim.lo, to)
              /\ \A m \in Points(d) : d.trim.lo < m /\ m < d.trim.hi
                    => m \in Starts(SlicesOf(s, d)) \cup {to}
  <1>1. ATrim(d.trim) /\ Points(d) \in SUBSET Nat
    BY SelectionFacts, DocFacts
  <1>. QED  BY <1>1, BuiltChain DEF SlicesOf

LEMMA SlicesOfTyped ==
    ASSUME NEW s \in Sounds, NEW d \in Docs, d.trim \in Selections,
           d.trim.hi <= Length[s]
    PROVE  SlicesOf(s, d) \in Seq(Slices)
  <1>. DEFINE list == SlicesOf(s, d)
  <1>1. PICK to \in Nat : to <= d.trim.hi /\ Chain(list, d.trim.lo, to)
    BY SlicesOfChain
  <1>2. /\ d.trim.lo \in Nat /\ d.trim.hi \in Nat /\ Length[s] \in Nat
    BY SelectionFacts, FramesFacts
  <1>. HIDE DEF list
  <1>3. /\ list \in Seq(Pieces) /\ Len(list) \in Nat
        /\ \A i \in 1..Len(list) : list[i].lo \in Nat /\ list[i].hi \in Nat
                                   /\ list[i].lo < list[i].hi
    BY <1>1, <1>2, ChainFacts
  <1>4. \A i \in 1..Len(list) : list[i].hi <= to
    BY <1>1, <1>2, ChainOrder
  <1>5. \A i \in 1..Len(list) : list[i].lo \in Frames /\ list[i].hi \in Frames
    <2>. TAKE i \in 1..Len(list)
    <2>1. list[i].lo <= Length[s] /\ list[i].hi <= Length[s]
      BY <1>1, <1>2, <1>3, <1>4
    <2>. QED  BY <2>1, <1>3, FramesFacts
  <1>6. \A i \in 1..Len(list) : list[i] \in Slices
    <2>. TAKE i \in 1..Len(list)
    <2>1. list[i] \in Pieces
      BY <1>3
    <2>2. list[i] = [lo |-> list[i].lo, hi |-> list[i].hi]
      BY <2>1 DEF Pieces
    <2>. QED  BY <2>2, <1>5 DEF Slices
  <1>. QED  BY <1>3, <1>6 DEF list

(* A slice starts at the trim, at an onset nobody excluded or at a marker. *)
LEMMA SlicesOfStarts ==
    ASSUME NEW s, NEW d \in Docs, d.trim \in Selections, ~d.quantize,
           NEW f \in Starts(SlicesOf(s, d))
    PROVE  f \in Points(d) \cup {d.trim.lo} \/ ~Excluded(f, d.excluded)
  <1>. DEFINE autos == DetectSlices(Peaks[s][d.sensitivity], d.trim)
  <1>1. ATrim(d.trim) /\ Points(d) \in SUBSET Nat
    BY SelectionFacts, DocFacts
  <1>2. f \in MergedStarts(autos, Points(d), d.excluded, d.quantize, d.trim)
    BY <1>1, BuiltChain DEF SlicesOf
  <1>. HIDE DEF autos
  <1>3. \/ f \in {d.trim.lo} \cup Points(d)
        \/ f \in AutoOnsets(autos \ {d.trim.lo}, d.excluded, d.quantize, d.trim)
    BY <1>2 DEF MergedStarts
  <1>4. f \in AutoOnsets(autos \ {d.trim.lo}, d.excluded, d.quantize, d.trim)
            => ~Excluded(f, d.excluded)
    BY DEF AutoOnsets
  <1>. QED  BY <1>3, <1>4

-----------------------------------------------------------------------------
(* The inductive invariant of the document: what the slot holds is what    *)
(* the document it was built from gives, and the weights are parallel to   *)
(* the slices, those of the unfinished edit to the slices it replaced.     *)
Loaded ==
    /\ sound = NoSound => slices = <<>> /\ weights = <<>> /\ ~edit.busy
    /\ sound # NoSound =>
          /\ slices = SlicesOf(sound, built)
          /\ built.trim \in Selections /\ built.trim.hi <= Length[sound]
          /\ doc.trim \in Selections /\ doc.trim.hi <= Length[sound]

Paired ==
    /\ ~edit.busy => Len(weights) = Len(slices)
    /\ edit.busy => Len(edit.weights) = Len(edit.slices)
    /\ \A i, k \in DOMAIN edit.slices :
          i < k => edit.slices[i].hi <= edit.slices[k].lo

SampleInv == TypeOK /\ Loaded /\ Paired

(* Every edit, whatever makes it: a load, a rebuild of a document with the *)
(* same trim, the second half of either, a trim, a painted probability.    *)
RebuildOf(d) == Editable /\ d.trim = doc.trim /\ Rebuild(d)

Edits ==
    \/ \E s \in Sounds : RequestSampleLoad(s)
    \/ \E d \in Docs : RebuildOf(d)
    \/ Finish
    \/ \E t \in Selections : SetTrimFrames(t)
    \/ \E i \in DOMAIN weights, w \in Weights : SetSliceProbability(i, w)
    \/ Acquire \/ Clip
    \/ UNCHANGED vars

LEMMA DocUpdates ==
    ASSUME NEW d \in Docs
    PROVE  /\ \A t \in Selections : /\ [d EXCEPT !.trim = t] \in Docs
                                    /\ [d EXCEPT !.trim = t].trim = t
           /\ \A m \in Manuals : /\ [d EXCEPT !.manual = m] \in Docs
                                 /\ [d EXCEPT !.manual = m].trim = d.trim
           /\ \A e \in SUBSET Frames : /\ [d EXCEPT !.excluded = e] \in Docs
                                       /\ [d EXCEPT !.excluded = e].trim = d.trim
           /\ \A v \in Sensitivities : /\ [d EXCEPT !.sensitivity = v] \in Docs
                                       /\ [d EXCEPT !.sensitivity = v].trim = d.trim
           /\ \A q \in BOOLEAN : /\ [d EXCEPT !.quantize = q] \in Docs
                                 /\ [d EXCEPT !.quantize = q].trim = d.trim
  <1>1. d \in [trim : Selections \cup {NoTrim}, sensitivity : Sensitivities,
               quantize : BOOLEAN, manual : Manuals, excluded : SUBSET Frames]
    BY DEF Docs, Manuals
  <1>2. Docs = [trim : Selections \cup {NoTrim}, sensitivity : Sensitivities,
                quantize : BOOLEAN, manual : Manuals, excluded : SUBSET Frames]
    BY DEF Docs, Manuals
  <1>. QED  BY <1>1, <1>2

LEMMA SampleInit == Init => SampleInv
  <1>. SUFFICES ASSUME Init PROVE SampleInv
    OBVIOUS
  <1>1. PICK v \in Sensitivities :
           doc = [trim |-> NoTrim, sensitivity |-> v, quantize |-> FALSE,
                  manual |-> <<>>, excluded |-> {}]
    BY DEF Init
  <1>2. doc \in Docs /\ built \in Docs
    <2>1. <<>> \in [{} -> Frames] /\ {} \in SUBSET (1..MaxManual)
      OBVIOUS
    <2>2. <<>> \in UNION {[ids -> Frames] : ids \in SUBSET (1..MaxManual)}
      BY <2>1
    <2>. QED  BY <1>1, <2>2 DEF Init, Docs
  <1>3. TypeOK
    <2>1. /\ sound = NoSound /\ slices \in Seq(Slices) /\ weights \in Seq(Weights)
          /\ rows = 0 /\ 0 \in 0..MaxRows /\ 0 \in 0..MaxMeanwhile
      BY EditingAssumption DEF Init
    <2>2. /\ published = [trim |-> NoTrim, weights |-> <<>>]
          /\ edit = [busy |-> FALSE, slices |-> <<>>, weights |-> <<>>]
          /\ block = [in |-> FALSE, trim |-> NoTrim, weights |-> <<>>, of |-> <<>>,
                      meanwhile |-> 0]
      BY DEF Init, NoEdit, NoBlock
    <2>3. <<>> \in Seq(Slices) /\ <<>> \in Seq(Weights)
      OBVIOUS
    <2>. QED  BY <1>2, <2>1, <2>2, <2>3 DEF TypeOK
  <1>4. Loaded /\ Paired
    BY DEF Init, Loaded, Paired, NoEdit
  <1>. QED  BY <1>3, <1>4 DEF SampleInv

LEMMA UIStepTyped ==
    ASSUME TypeOK, UIStep
    PROVE  block' \in [in : BOOLEAN, trim : Selections \cup {NoTrim},
                       weights : Seq(Weights), of : Seq(Slices),
                       meanwhile : 0..MaxMeanwhile]
  <1>. DEFINE Blocks == [in : BOOLEAN, trim : Selections \cup {NoTrim},
                         weights : Seq(Weights), of : Seq(Slices),
                         meanwhile : 0..MaxMeanwhile]
  <1>1. block \in Blocks /\ MaxMeanwhile \in Nat
    BY EditingAssumption DEF TypeOK
  <1>2. CASE block.in
    <2>1. /\ block.meanwhile < MaxMeanwhile
          /\ block' = [block EXCEPT !.meanwhile = block.meanwhile + 1]
      BY <1>2 DEF UIStep
    <2>2. block.meanwhile + 1 \in 0..MaxMeanwhile
      BY <1>1, <2>1
    <2>. QED  BY <1>1, <2>1, <2>2
  <1>3. CASE ~block.in
    BY <1>1, <1>3 DEF UIStep
  <1>. QED  BY <1>2, <1>3

(* Remapping gives every new slice a weight.                               *)
LEMMA RemappedTyped ==
    ASSUME NEW old, NEW w \in Seq(Weights), NEW new, Len(new) \in Nat,
           DOMAIN new = 1..Len(new)
    PROVE  Remapped(old, w, new) \in Seq(Weights)
             /\ Len(Remapped(old, w, new)) = Len(new)
  <1>. DEFINE r == Remapped(old, w, new)
  <1>1. 1 \in Weights /\ \A i \in DOMAIN w : w[i] \in Weights
    BY EditingAssumption
  <1>2. r \in [1..Len(new) -> Weights]
    BY <1>1 DEF Remapped
  <1>. HIDE DEF r
  <1>3. r \in Seq(Weights) /\ Len(r) = Len(new)
    BY <1>2
  <1>. QED  BY <1>3 DEF r

LEMMA StoreTyped ==
    ASSUME TypeOK, NEW s \in Sounds, NEW d \in Docs, d.trim \in Selections,
           d.trim.hi <= Length[s], Store(s, d)
    PROVE  /\ sound' \in Sounds \cup {NoSound} /\ slices' \in Seq(Slices)
           /\ doc' \in Docs /\ built' \in Docs
           /\ weights' \in Seq(Weights) /\ rows' \in 0..MaxRows
           /\ published' \in [trim : Selections \cup {NoTrim}, weights : Seq(Weights)]
           /\ block' \in [in : BOOLEAN, trim : Selections \cup {NoTrim},
                          weights : Seq(Weights), of : Seq(Slices),
                          meanwhile : 0..MaxMeanwhile]
  <1>1. slices' \in Seq(Slices)
    BY SlicesOfTyped DEF Store
  <1>2. block' \in [in : BOOLEAN, trim : Selections \cup {NoTrim},
                    weights : Seq(Weights), of : Seq(Slices),
                    meanwhile : 0..MaxMeanwhile]
    BY UIStepTyped DEF Store
  <1>3. /\ sound' = s /\ doc' = d /\ built' = d /\ weights' = weights
        /\ rows' = rows /\ published' = published
    BY DEF Store
  <1>. QED  BY <1>1, <1>2, <1>3 DEF TypeOK

LEMMA EditsTyped == SampleInv /\ Edits => TypeOK'
  <1>. SUFFICES ASSUME SampleInv, Edits PROVE TypeOK'
    OBVIOUS
  <1>0. TypeOK /\ Loaded
    BY DEF SampleInv
  <1>t. /\ sound \in Sounds \cup {NoSound} /\ slices \in Seq(Slices)
        /\ doc \in Docs /\ built \in Docs
        /\ weights \in Seq(Weights) /\ rows \in 0..MaxRows
        /\ published \in [trim : Selections \cup {NoTrim}, weights : Seq(Weights)]
        /\ edit \in [busy : BOOLEAN, slices : Seq(Slices), weights : Seq(Weights)]
        /\ block \in [in : BOOLEAN, trim : Selections \cup {NoTrim},
                      weights : Seq(Weights), of : Seq(Slices),
                      meanwhile : 0..MaxMeanwhile]
    BY <1>0 DEF TypeOK
  <1>e. <<>> \in Seq(Slices) /\ <<>> \in Seq(Weights)
    OBVIOUS
  <1>1. ASSUME NEW s \in Sounds, RequestSampleLoad(s)
        PROVE  TypeOK'
    <2>. DEFINE t == [lo |-> 0, hi |-> Length[s]]
    <2>1. t \in Selections /\ t.hi <= Length[s]
      <3>1. Length[s] \in Nat /\ Length[s] >= MinGap /\ 0 \in Frames /\ Length[s] \in Frames
        BY FramesFacts, EditingAssumption
      <3>. QED  BY <3>1, EditingAssumption DEF Selections, Span
    <2>2. /\ Store(s, [doc EXCEPT !.trim = t])
          /\ edit' = [busy |-> TRUE, slices |-> <<>>, weights |-> <<>>]
      BY <1>1 DEF RequestSampleLoad
    <2>. HIDE DEF t
    <2>3. [doc EXCEPT !.trim = t] \in Docs /\ [doc EXCEPT !.trim = t].trim = t
      BY <1>t, <2>1, DocUpdates
    <2>4. edit' \in [busy : BOOLEAN, slices : Seq(Slices), weights : Seq(Weights)]
      BY <2>2, <1>e
    <2>5. PICK d \in Docs : d = [doc EXCEPT !.trim = t]
      BY <2>3
    <2>. QED  BY <1>0, <2>1, <2>2, <2>3, <2>4, <2>5, StoreTyped DEF TypeOK
  <1>2. ASSUME NEW d \in Docs, RebuildOf(d)
        PROVE  TypeOK'
    <2>1. /\ Store(sound, d)
          /\ edit' = [busy |-> TRUE, slices |-> slices, weights |-> weights]
          /\ sound # NoSound /\ d.trim = doc.trim
      BY <1>2 DEF RebuildOf, Rebuild, Editable
    <2>2. sound \in Sounds /\ d.trim \in Selections /\ d.trim.hi <= Length[sound]
      BY <1>0, <1>t, <2>1 DEF Loaded
    <2>3. edit' \in [busy : BOOLEAN, slices : Seq(Slices), weights : Seq(Weights)]
      BY <2>1, <1>t
    <2>. QED  BY <1>0, <2>1, <2>2, <2>3, StoreTyped DEF TypeOK
  <1>3. CASE Finish
    <2>1. /\ weights' = Remapped(edit.slices, edit.weights, slices)
          /\ rows' = RowsFor(Len(slices))
          /\ published' = [trim |-> doc.trim, weights |-> weights']
          /\ edit' = [busy |-> FALSE, slices |-> <<>>, weights |-> <<>>]
          /\ UIStep /\ UNCHANGED <<sound, slices, doc, built>>
      BY <1>3 DEF Finish, Publish, NoEdit
    <2>2. weights' \in Seq(Weights)
      BY <1>t, <2>1, RemappedTyped
    <2>3. rows' \in 0..MaxRows
      <3>1. Len(slices) \in Nat /\ MaxRows \in Nat
        BY <1>t, EditingAssumption
      <3>2. rows' = IF Len(slices) <= MaxRows THEN Len(slices) ELSE MaxRows
        BY <2>1, <3>1, MinOfTwo DEF RowsFor
      <3>. QED  BY <3>1, <3>2
    <2>4. doc.trim \in Selections \cup {NoTrim}
      BY <1>t, DocFacts
    <2>5. /\ published' \in [trim : Selections \cup {NoTrim}, weights : Seq(Weights)]
          /\ edit' \in [busy : BOOLEAN, slices : Seq(Slices), weights : Seq(Weights)]
      BY <2>1, <2>2, <2>4, <1>e
    <2>6. block' \in [in : BOOLEAN, trim : Selections \cup {NoTrim},
                      weights : Seq(Weights), of : Seq(Slices),
                      meanwhile : 0..MaxMeanwhile]
      BY <1>0, <2>1, UIStepTyped
    <2>. QED  BY <1>t, <2>1, <2>2, <2>3, <2>5, <2>6 DEF TypeOK
  <1>4. ASSUME NEW t \in Selections, SetTrimFrames(t)
        PROVE  TypeOK'
    <2>1. /\ doc' = [doc EXCEPT !.trim = t]
          /\ published' = [trim |-> doc'.trim, weights |-> weights]
          /\ UIStep /\ UNCHANGED <<sound, slices, weights, rows, edit, built>>
      BY <1>4 DEF SetTrimFrames, Publish
    <2>2. doc' \in Docs /\ doc'.trim = t
      BY <1>t, <2>1, DocUpdates
    <2>3. published' \in [trim : Selections \cup {NoTrim}, weights : Seq(Weights)]
      BY <2>1, <2>2, <1>t
    <2>4. block' \in [in : BOOLEAN, trim : Selections \cup {NoTrim},
                      weights : Seq(Weights), of : Seq(Slices),
                      meanwhile : 0..MaxMeanwhile]
      BY <1>0, <2>1, UIStepTyped
    <2>. QED  BY <1>t, <2>1, <2>2, <2>3, <2>4 DEF TypeOK
  <1>5. ASSUME NEW i \in DOMAIN weights, NEW w \in Weights, SetSliceProbability(i, w)
        PROVE  TypeOK'
    <2>1. /\ weights' = [weights EXCEPT ![i] = w]
          /\ published' = [trim |-> doc.trim, weights |-> weights']
          /\ UIStep /\ UNCHANGED <<sound, slices, doc, rows, edit, built>>
      BY <1>5 DEF SetSliceProbability, Publish
    <2>2. weights' \in Seq(Weights)
      BY <1>t, <2>1
    <2>3. doc.trim \in Selections \cup {NoTrim}
      BY <1>t, DocFacts
    <2>4. published' \in [trim : Selections \cup {NoTrim}, weights : Seq(Weights)]
      BY <2>1, <2>2, <2>3
    <2>5. block' \in [in : BOOLEAN, trim : Selections \cup {NoTrim},
                      weights : Seq(Weights), of : Seq(Slices),
                      meanwhile : 0..MaxMeanwhile]
      BY <1>0, <2>1, UIStepTyped
    <2>. QED  BY <1>t, <2>1, <2>2, <2>4, <2>5 DEF TypeOK
  <1>6. CASE Acquire
    <2>1. /\ block' = [in |-> TRUE, trim |-> published.trim,
                       weights |-> published.weights,
                       of |-> IF edit.busy THEN edit.slices ELSE slices,
                       meanwhile |-> 0]
          /\ UNCHANGED <<sound, slices, doc, weights, rows, published, edit, built>>
      BY <1>6 DEF Acquire
    <2>2. 0 \in 0..MaxMeanwhile
      BY EditingAssumption
    <2>3. (IF edit.busy THEN edit.slices ELSE slices) \in Seq(Slices)
      BY <1>t
    <2>4. block' \in [in : BOOLEAN, trim : Selections \cup {NoTrim},
                      weights : Seq(Weights), of : Seq(Slices),
                      meanwhile : 0..MaxMeanwhile]
      BY <1>t, <2>1, <2>2, <2>3
    <2>. QED  BY <1>t, <2>1, <2>4 DEF TypeOK
  <1>7. CASE Clip
    <2>1. /\ block' = [in |-> FALSE, trim |-> NoTrim, weights |-> <<>>, of |-> <<>>,
                       meanwhile |-> 0]
          /\ UNCHANGED <<sound, slices, doc, weights, rows, published, edit, built>>
      BY <1>7 DEF Clip, NoBlock
    <2>2. 0 \in 0..MaxMeanwhile
      BY EditingAssumption
    <2>3. block' \in [in : BOOLEAN, trim : Selections \cup {NoTrim},
                      weights : Seq(Weights), of : Seq(Slices),
                      meanwhile : 0..MaxMeanwhile]
      BY <1>e, <2>1, <2>2
    <2>. QED  BY <1>t, <2>1, <2>3 DEF TypeOK
  <1>8. CASE UNCHANGED vars
    BY <1>0, <1>8 DEF vars, TypeOK
  <1>. QED  BY <1>1, <1>2, <1>3, <1>4, <1>5, <1>6, <1>7, <1>8 DEF Edits

LEMMA EditsLoaded == SampleInv /\ Edits => Loaded'
  <1>. SUFFICES ASSUME SampleInv, Edits PROVE Loaded'
    OBVIOUS
  <1>0. TypeOK /\ Loaded /\ doc \in Docs
    BY DEF SampleInv, TypeOK
  <1>1. ASSUME NEW s \in Sounds, RequestSampleLoad(s)
        PROVE  Loaded'
    <2>. DEFINE t == [lo |-> 0, hi |-> Length[s]]
    <2>1. t \in Selections /\ t.hi <= Length[s]
      <3>1. Length[s] \in Nat /\ Length[s] >= MinGap /\ 0 \in Frames /\ Length[s] \in Frames
        BY FramesFacts, EditingAssumption
      <3>. QED  BY <3>1, EditingAssumption DEF Selections, Span
    <2>2. Store(s, [doc EXCEPT !.trim = t])
      BY <1>1 DEF RequestSampleLoad
    <2>. HIDE DEF t
    <2>3. [doc EXCEPT !.trim = t].trim = t
      BY <1>0, <2>1, DocUpdates
    <2>4. /\ sound' = s /\ built' = [doc EXCEPT !.trim = t] /\ doc' = built'
          /\ slices' = SlicesOf(sound', built')
      BY <2>2 DEF Store
    <2>. QED  BY <2>1, <2>3, <2>4, EditingAssumption DEF Loaded
  <1>2. ASSUME NEW d \in Docs, RebuildOf(d)
        PROVE  Loaded'
    <2>1. /\ sound' = sound /\ built' = d /\ doc' = d
          /\ slices' = SlicesOf(sound', built')
          /\ sound # NoSound /\ d.trim = doc.trim
      BY <1>2 DEF RebuildOf, Rebuild, Store, Editable
    <2>. QED  BY <1>0, <2>1 DEF Loaded
  <1>3. CASE Finish
    <2>1. edit.busy /\ UNCHANGED <<sound, slices, doc, built>>
      BY <1>3 DEF Finish
    <2>2. sound # NoSound
      BY <1>0, <2>1 DEF Loaded
    <2>3. SlicesOf(sound, built)' = SlicesOf(sound', built')
      OBVIOUS
    <2>. QED  BY <1>0, <2>1, <2>2, <2>3 DEF Loaded
  <1>4. ASSUME NEW t \in Selections, SetTrimFrames(t)
        PROVE  Loaded'
    <2>1. /\ doc' = [doc EXCEPT !.trim = t] /\ t.hi <= Length[sound] /\ sound # NoSound
          /\ UNCHANGED <<sound, slices, weights, edit, built>>
      BY <1>4 DEF SetTrimFrames, Editable
    <2>2. doc'.trim = t
      BY <1>0, <2>1, DocUpdates
    <2>. QED  BY <1>0, <2>1, <2>2 DEF Loaded
  <1>5. ASSUME NEW i \in DOMAIN weights, NEW w \in Weights, SetSliceProbability(i, w)
        PROVE  Loaded'
    <2>1. sound # NoSound /\ UNCHANGED <<sound, slices, doc, edit, built>>
      BY <1>5 DEF SetSliceProbability, Editable
    <2>. QED  BY <1>0, <2>1 DEF Loaded
  <1>6. CASE Acquire \/ Clip \/ UNCHANGED vars
    <2>1. UNCHANGED <<sound, slices, weights, doc, edit, built>>
      BY <1>6 DEF Acquire, Clip, vars
    <2>. QED  BY <1>0, <2>1 DEF Loaded
  <1>. QED  BY <1>1, <1>2, <1>3, <1>4, <1>5, <1>6 DEF Edits

(* The slices of a rebuild do not overlap.                                 *)
LEMMA SlicesDisjoint ==
    ASSUME SampleInv
    PROVE  \A i, k \in DOMAIN slices : i < k => slices[i].hi <= slices[k].lo
  <1>1. CASE sound = NoSound
    BY <1>1 DEF SampleInv, Loaded
  <1>2. CASE sound # NoSound
    <2>1. slices = SlicesOf(sound, built) /\ built.trim \in Selections /\ built \in Docs
      BY <1>2 DEF SampleInv, Loaded, TypeOK
    <2>2. PICK to \in Nat : Chain(slices, built.trim.lo, to)
      BY <2>1, SlicesOfChain
    <2>3. built.trim.lo \in Nat
      BY <2>1, SelectionFacts
    <2>4. DOMAIN slices = 1..Len(slices)
      BY <2>2, <2>3, ChainFacts
    <2>. QED  BY <2>2, <2>3, <2>4, ChainOrder
  <1>. QED  BY <1>1, <1>2

LEMMA EditsPaired == SampleInv /\ Edits => Paired'
  <1>. SUFFICES ASSUME SampleInv, Edits PROVE Paired'
    OBVIOUS
  <1>0. /\ Paired /\ slices \in Seq(Slices) /\ weights \in Seq(Weights)
        /\ edit.slices \in Seq(Slices) /\ edit.weights \in Seq(Weights)
    BY DEF SampleInv, TypeOK
  <1>1. ASSUME NEW s \in Sounds, RequestSampleLoad(s)
        PROVE  Paired'
    <2>1. edit' = [busy |-> TRUE, slices |-> <<>>, weights |-> <<>>]
      BY <1>1 DEF RequestSampleLoad
    <2>. QED  BY <2>1 DEF Paired
  <1>2. ASSUME NEW d \in Docs, RebuildOf(d)
        PROVE  Paired'
    <2>1. /\ edit' = [busy |-> TRUE, slices |-> slices, weights |-> weights]
          /\ ~edit.busy
      BY <1>2 DEF RebuildOf, Rebuild, Editable, Idle
    <2>2. /\ edit'.busy /\ edit'.slices = slices /\ edit'.weights = weights
      BY <2>1
    <2>3. Len(weights) = Len(slices)
      BY <1>0, <2>1 DEF Paired
    <2>. QED  BY <2>2, <2>3, SlicesDisjoint DEF Paired
  <1>3. CASE Finish
    <2>1. /\ weights' = Remapped(edit.slices, edit.weights, slices)
          /\ edit' = [busy |-> FALSE, slices |-> <<>>, weights |-> <<>>]
          /\ slices' = slices
      BY <1>3 DEF Finish, NoEdit
    <2>2. Len(weights') = Len(slices')
      BY <1>0, <2>1, RemappedTyped
    <2>. QED  BY <2>1, <2>2 DEF Paired
  <1>4. ASSUME NEW t \in Selections, SetTrimFrames(t)
        PROVE  Paired'
    <2>1. UNCHANGED <<slices, weights, edit>>
      BY <1>4 DEF SetTrimFrames
    <2>. QED  BY <1>0, <2>1 DEF Paired
  <1>5. ASSUME NEW i \in DOMAIN weights, NEW w \in Weights, SetSliceProbability(i, w)
        PROVE  Paired'
    <2>1. weights' = [weights EXCEPT ![i] = w] /\ UNCHANGED <<slices, edit>>
      BY <1>5 DEF SetSliceProbability
    <2>2. Len(weights') = Len(weights)
      BY <1>0, <2>1
    <2>. QED  BY <1>0, <2>1, <2>2 DEF Paired
  <1>6. CASE Acquire \/ Clip \/ UNCHANGED vars
    <2>1. UNCHANGED <<slices, weights, edit>>
      BY <1>6 DEF Acquire, Clip, vars
    <2>. QED  BY <1>0, <2>1 DEF Paired
  <1>. QED  BY <1>1, <1>2, <1>3, <1>4, <1>5, <1>6 DEF Edits

LEMMA EditsPreserve == SampleInv /\ Edits => SampleInv'
  BY EditsTyped, EditsLoaded, EditsPaired DEF SampleInv

-----------------------------------------------------------------------------
(* Each edit of the document rebuilds one that is as well-formed.          *)

(* A marker is set inside the trim, wherever the pointer was.              *)
LEMMA ResolvedFrames ==
    ASSUME SampleInv, sound # NoSound, NEW f \in Nat, NEW snap \in BOOLEAN
    PROVE  ResolveManualFrame(f, snap) \subseteq Frames
  <1>. DEFINE p == Min({Max({f, doc.trim.lo}), doc.trim.hi - 1})
  <1>1. /\ sound \in Sounds /\ doc.trim \in Selections /\ doc.trim.hi <= Length[sound]
    BY DEF SampleInv, TypeOK, Loaded
  <1>2. /\ doc.trim.lo \in Nat /\ doc.trim.hi \in Nat /\ doc.trim.lo < doc.trim.hi
        /\ ATrim(doc.trim)
    BY <1>1, SelectionFacts, InsideFacts
  <1>3. Inside(doc.trim) \subseteq Frames
    BY <1>1, InsideFrames
  <1>4. p \in Inside(doc.trim)
    <2>1. Max({f, doc.trim.lo}) = IF f >= doc.trim.lo THEN f ELSE doc.trim.lo
      BY <1>2, MaxOfTwo
    <2>2. PICK m \in Nat : m = Max({f, doc.trim.lo}) /\ m >= doc.trim.lo
      BY <1>2, <2>1
    <2>3. p = IF m <= doc.trim.hi - 1 THEN m ELSE doc.trim.hi - 1
      <3>1. p = Min({m, doc.trim.hi - 1})
        BY <2>2
      <3>2. m \in Int /\ doc.trim.hi - 1 \in Int
        BY <1>2
      <3>. HIDE DEF p
      <3>. QED  BY <3>1, <3>2, MinOfTwo
    <2>. QED  BY <1>2, <2>2, <2>3 DEF Inside
  <1>. HIDE DEF p
  <1>5. LoudestNear(p) \subseteq Inside(doc.trim)
    BY DEF LoudestNear, Inside
  <1>. QED  BY <1>3, <1>4, <1>5 DEF ResolveManualFrame, p

LEMMA AddRebuilds ==
    ASSUME SampleInv, NEW f \in Nat, NEW snap \in BOOLEAN, AddManualPoint(f, snap)
    PROVE  \E d \in Docs : RebuildOf(d)
  <1>1. /\ Editable /\ sound # NoSound /\ doc \in Docs
    BY DEF AddManualPoint, Editable, SampleInv, TypeOK
  <1>2. PICK id \in 1..MaxManual \ DOMAIN doc.manual, p \in ResolveManualFrame(f, snap) :
           Rebuild([doc EXCEPT !.manual =
                      [i \in DOMAIN doc.manual \cup {id} |->
                          IF i = id THEN p ELSE doc.manual[i]]])
    BY DEF AddManualPoint
  <1>. DEFINE m == [i \in DOMAIN doc.manual \cup {id} |->
                       IF i = id THEN p ELSE doc.manual[i]]
  <1>3. m \in Manuals
    <2>1. /\ DOMAIN doc.manual \subseteq 1..MaxManual
          /\ \A i \in DOMAIN doc.manual : doc.manual[i] \in Frames
      BY <1>1, DocFacts
    <2>2. p \in Frames
      BY <1>1, ResolvedFrames
    <2>3. m \in [DOMAIN doc.manual \cup {id} -> Frames]
      BY <2>1, <2>2
    <2>4. DOMAIN doc.manual \cup {id} \in SUBSET (1..MaxManual)
      BY <2>1
    <2>. HIDE DEF m
    <2>. QED  BY <2>3, <2>4 DEF Manuals
  <1>. HIDE DEF m
  <1>4. /\ [doc EXCEPT !.manual = m] \in Docs
        /\ [doc EXCEPT !.manual = m].trim = doc.trim
    BY <1>1, <1>3, DocUpdates
  <1>5. Rebuild([doc EXCEPT !.manual = m])
    BY <1>2 DEF m
  <1>. QED  BY <1>1, <1>4, <1>5 DEF RebuildOf

LEMMA MoveRebuilds ==
    ASSUME SampleInv, NEW id, NEW f \in Nat, NEW snap \in BOOLEAN,
           MoveManualPoint(id, f, snap)
    PROVE  \E d \in Docs : RebuildOf(d)
  <1>1. /\ Editable /\ sound # NoSound /\ doc \in Docs /\ id \in DOMAIN doc.manual
    BY DEF MoveManualPoint, Editable, SampleInv, TypeOK
  <1>2. PICK p \in ResolveManualFrame(f, snap) : Rebuild([doc EXCEPT !.manual[id] = p])
    BY DEF MoveManualPoint
  <1>. DEFINE m == [doc.manual EXCEPT ![id] = p]
  <1>3. m \in Manuals
    <2>1. PICK ids \in SUBSET (1..MaxManual) : doc.manual \in [ids -> Frames]
      BY <1>1, DocFacts DEF Manuals
    <2>2. p \in Frames
      BY <1>1, ResolvedFrames
    <2>3. m \in [ids -> Frames]
      BY <2>1, <2>2
    <2>. HIDE DEF m
    <2>. QED  BY <2>3 DEF Manuals
  <1>4. [doc EXCEPT !.manual[id] = p] = [doc EXCEPT !.manual = m]
    BY <1>1 DEF Docs
  <1>. HIDE DEF m
  <1>5. /\ [doc EXCEPT !.manual = m] \in Docs
        /\ [doc EXCEPT !.manual = m].trim = doc.trim
    BY <1>1, <1>3, DocUpdates
  <1>. QED  BY <1>1, <1>2, <1>4, <1>5 DEF RebuildOf

LEMMA RemoveRebuilds ==
    ASSUME SampleInv, NEW id, RemoveManualPoint(id)
    PROVE  \E d \in Docs : RebuildOf(d)
  <1>. DEFINE m == [i \in DOMAIN doc.manual \ {id} |-> doc.manual[i]]
  <1>1. /\ Editable /\ doc \in Docs /\ Rebuild([doc EXCEPT !.manual = m])
    BY DEF RemoveManualPoint, SampleInv, TypeOK
  <1>2. m \in Manuals
    <2>1. /\ DOMAIN doc.manual \subseteq 1..MaxManual
          /\ \A i \in DOMAIN doc.manual : doc.manual[i] \in Frames
      BY <1>1, DocFacts
    <2>2. m \in [DOMAIN doc.manual \ {id} -> Frames]
      BY <2>1
    <2>3. DOMAIN doc.manual \ {id} \in SUBSET (1..MaxManual)
      BY <2>1
    <2>. HIDE DEF m
    <2>. QED  BY <2>2, <2>3 DEF Manuals
  <1>. HIDE DEF m
  <1>3. /\ [doc EXCEPT !.manual = m] \in Docs
        /\ [doc EXCEPT !.manual = m].trim = doc.trim
    BY <1>1, <1>2, DocUpdates
  <1>. QED  BY <1>1, <1>3 DEF RebuildOf

(* The onset nearest to a frame is one of the onsets.                      *)
LEMMA NearestIsOnset ==
    ASSUME NEW onsets \in SUBSET Nat, onsets # {}, NEW f \in Nat
    PROVE  Nearest(onsets, f) \in onsets
  <1>. DEFINE far == {Apart(o, f) : o \in onsets}
              nearest == {o \in onsets : \A p \in onsets : Apart(o, f) <= Apart(p, f)}
  <1>1. \A o \in onsets : Apart(o, f) \in Nat
    BY DEF Apart
  <1>2. far \in SUBSET Nat /\ far # {}
    BY <1>1
  <1>3. PICK a \in far : \A b \in far : a <= b
    <2>. HIDE DEF far
    <2>. QED  BY <1>2, LeastElement
  <1>4. PICK o \in onsets : a = Apart(o, f)
    OBVIOUS
  <1>5. o \in nearest
    BY <1>3, <1>4
  <1>6. nearest \in SUBSET Nat /\ nearest # {} /\ nearest \subseteq onsets
    BY <1>5
  <1>. HIDE DEF nearest
  <1>7. Min(nearest) \in onsets
    BY <1>6, MinOfNaturals
  <1>. QED  BY <1>7 DEF Nearest, nearest

LEMMA ExcludeRebuilds ==
    ASSUME SampleInv, NEW f \in Nat, ExcludeNearestAutoPoint(f)
    PROVE  \E d \in Docs : RebuildOf(d)
  <1>. DEFINE e == doc.excluded \cup {Nearest(Excludable, f)}
  <1>1. /\ Editable /\ sound # NoSound /\ doc \in Docs /\ Excludable # {}
        /\ Rebuild([doc EXCEPT !.excluded = e])
    BY DEF ExcludeNearestAutoPoint, Editable, SampleInv, TypeOK
  <1>2. Excludable \subseteq Frames
    <2>1. sound \in Sounds /\ doc.trim \in Selections /\ doc.trim.hi <= Length[sound]
      BY <1>1 DEF SampleInv, TypeOK, Loaded
    <2>2. Inside(doc.trim) \subseteq Frames /\ ATrim(doc.trim)
      BY <2>1, InsideFrames, SelectionFacts
    <2>. QED  BY <2>2, DetectedInside DEF Excludable
  <1>3. Nearest(Excludable, f) \in Frames
    BY <1>1, <1>2, FramesFacts, NearestIsOnset
  <1>4. e \in SUBSET Frames
    BY <1>1, <1>3, DocFacts
  <1>. HIDE DEF e
  <1>5. /\ [doc EXCEPT !.excluded = e] \in Docs
        /\ [doc EXCEPT !.excluded = e].trim = doc.trim
    BY <1>1, <1>4, DocUpdates
  <1>. QED  BY <1>1, <1>5 DEF RebuildOf

LEMMA SettingsRebuild ==
    ASSUME SampleInv, SetSensitivity \/ SetQuantizeTransients
    PROVE  \E d \in Docs : RebuildOf(d)
  <1>1. doc \in Docs
    BY DEF SampleInv, TypeOK
  <1>2. CASE SetSensitivity
    <2>1. PICK v \in Sensitivities : Rebuild([doc EXCEPT !.sensitivity = v])
      BY <1>2 DEF SetSensitivity
    <2>2. Editable
      BY <1>2 DEF SetSensitivity
    <2>. QED  BY <1>1, <2>1, <2>2, DocUpdates DEF RebuildOf
  <1>3. CASE SetQuantizeTransients
    <2>1. PICK q \in BOOLEAN : Rebuild([doc EXCEPT !.quantize = q])
      BY <1>3 DEF SetQuantizeTransients
    <2>2. Editable
      BY <1>3 DEF SetQuantizeTransients
    <2>. QED  BY <1>1, <2>1, <2>2, DocUpdates DEF RebuildOf
  <1>. QED  BY <1>2, <1>3

-----------------------------------------------------------------------------
(* The mouse: what it remembers, and what a double click can rely on.      *)
Drags == {"none", "trimStart", "trimEnd", "marker", "paint", "pan", "again"}

FirstZoom == CHOOSE z \in Zooms : TRUE
Undos == {NoUndo} \cup (Nat \X Weights)
Mice == [drag : Drags, marker : Nat, moved : BOOLEAN, undo : Undos,
         at : Nat, zoom : Zooms \cup {FirstZoom}]
Presses == [armed : {TRUE}, at : Nat, zoom : Zooms, weights : Seq(Weights)]

MouseOK ==
    /\ followed \in {"mouse", "blocks"}
    /\ mouse \in Mice
    /\ clicked \in {NoClick} \cup Presses

(* After a press that a double click may follow the weights are those from *)
(* before it, but for the slice it painted, which the mouse remembers.     *)
Restorable ==
    clicked.armed =>
        /\ followed = "mouse" /\ ~edit.busy
        /\ mouse.drag # "again" /\ ~mouse.moved
        /\ DOMAIN weights = DOMAIN clicked.weights
        /\ \A k \in DOMAIN weights :
              weights[k] # clicked.weights[k] =>
                  mouse.undo # NoUndo /\ mouse.undo[1] = k
        /\ (mouse.undo # NoUndo /\ mouse.undo[1] \in DOMAIN weights) =>
              mouse.undo[2] = clicked.weights[mouse.undo[1]]

EditorInv == SampleInv /\ MouseOK /\ Restorable

(* The point closest to a frame is one of the points.                      *)
LEMMA ClosestIsPoint ==
    ASSUME NEW points \in SUBSET Nat, points # {}, NEW x \in Nat
    PROVE  Closest(points, x) \in points
  <1>. DEFINE far == {Apart(p, x) : p \in points}
              nearest(a) == {p \in points : Apart(p, x) = a}
              Best(p) == \A q \in points :
                            \/ Apart(p, x) < Apart(q, x)
                            \/ Apart(p, x) = Apart(q, x) /\ p <= q
  <1>1. \A p \in points : Apart(p, x) \in Nat
    BY DEF Apart
  <1>2. far \in SUBSET Nat /\ far # {}
    BY <1>1
  <1>3. PICK a \in far : \A b \in far : a <= b
    <2>. HIDE DEF far
    <2>. QED  BY <1>2, LeastElement
  <1>4. nearest(a) \in SUBSET Nat /\ nearest(a) # {}
    OBVIOUS
  <1>5. PICK p \in nearest(a) : \A q \in nearest(a) : p <= q
    <2>. HIDE DEF nearest
    <2>. QED  BY <1>4, LeastElement
  <1>6. p \in points /\ Apart(p, x) = a /\ a \in Nat
    BY <1>2
  <1>7. Best(p)
    <2>. SUFFICES ASSUME NEW q \in points, ~(Apart(p, x) < Apart(q, x))
                  PROVE  Apart(p, x) = Apart(q, x) /\ p <= q
      OBVIOUS
    <2>1. Apart(q, x) \in far /\ Apart(q, x) \in Nat
      BY <1>1
    <2>2. a <= Apart(q, x)
      BY <1>3, <2>1
    <2>3. Apart(q, x) = a
      BY <2>1, <2>2, <1>6
    <2>. QED  BY <2>3, <1>5, <1>6
  <1>8. Closest(points, x) = CHOOSE c \in points : Best(c)
    BY DEF Closest
  <1>. HIDE DEF Best
  <1>. QED  BY <1>6, <1>7, <1>8

(* The boundaries that show lie at frames.                                 *)
LEMMA BoundaryFrames ==
    ASSUME SampleInv
    PROVE  Boundaries(slices) \subseteq Frames /\ AutoPoints \subseteq Frames
  <1>1. \A i \in DOMAIN slices : slices[i] \in [lo : Frames, hi : Frames]
    <2>1. slices \in Seq(Slices)
      BY DEF SampleInv, TypeOK
    <2>2. \A i \in DOMAIN slices : slices[i] \in Slices
      BY <2>1
    <2>. QED  BY <2>2 DEF Slices
  <1>2. \A i \in DOMAIN slices : slices[i].lo \in Frames /\ slices[i].hi \in Frames
    BY <1>1
  <1>3. Boundaries(slices) \subseteq Frames
    BY <1>2 DEF Boundaries
  <1>4. AutoPoints \subseteq Frames
    BY <1>2 DEF AutoPoints
  <1>. QED  BY <1>3, <1>4

LEMMA SnappedFrames ==
    ASSUME SampleInv, NEW x \in Nat, NEW z, NEW f \in SnappedTo(x, z)
    PROVE  f \in Nat
  <1>. DEFINE near == {g \in Boundaries(slices) : Apart(x, g) <= z.handle}
  <1>1. near \in SUBSET Nat
    BY BoundaryFrames, FramesFacts
  <1>2. f = x \/ (near # {} /\ f = Closest(near, x))
    BY DEF SnappedTo
  <1>. HIDE DEF near
  <1>3. near # {} => Closest(near, x) \in near
    BY <1>1, ClosestIsPoint
  <1>. QED  BY <1>1, <1>2, <1>3

LEMMA AutoPointFrames ==
    ASSUME SampleInv, NEW x \in Nat, NEW z, NEW f \in AutoPointsAt(x, z)
    PROVE  f \in Nat
  <1>. DEFINE near == {g \in AutoPoints : Apart(x, g) <= z.marker}
  <1>1. near \in SUBSET Nat
    BY BoundaryFrames, FramesFacts
  <1>2. near # {} /\ f = Closest(near, x)
    BY DEF AutoPointsAt
  <1>. HIDE DEF near
  <1>3. Closest(near, x) \in near
    BY <1>1, <1>2, ClosestIsPoint
  <1>. QED  BY <1>1, <1>2, <1>3

(* A handle that is dragged keeps the trim a selection of the sound.       *)
LEMMA LoadedTrim ==
    ASSUME SampleInv, sound # NoSound
    PROVE  /\ sound \in Sounds /\ Length[sound] \in Nat
           /\ doc.trim \in [lo : Frames, hi : Frames]
           /\ doc.trim.lo \in Nat /\ doc.trim.hi \in Nat
           /\ doc.trim.hi - doc.trim.lo >= MinGap /\ doc.trim.hi <= Length[sound]
           /\ MinGap \in Nat
  <1>1. /\ sound \in Sounds /\ doc.trim \in Selections /\ doc.trim.hi <= Length[sound]
    BY DEF SampleInv, TypeOK, Loaded
  <1>. QED  BY <1>1, SelectionFacts, FramesFacts, EditingAssumption DEF Selections

LEMMA HandleEdits ==
    ASSUME SampleInv, MouseOK, NEW x \in Nat, NEW z, MoveHandle(x, z)
    PROVE  Edits
  <1>1. Editable /\ sound # NoSound
    BY DEF MoveHandle, Moving, Followed, Editable
  <1>2. /\ sound \in Sounds /\ Length[sound] \in Nat
        /\ doc.trim \in [lo : Frames, hi : Frames]
        /\ doc.trim.lo \in Nat /\ doc.trim.hi \in Nat
        /\ doc.trim.hi - doc.trim.lo >= MinGap /\ doc.trim.hi <= Length[sound]
        /\ MinGap \in Nat
    BY <1>1, LoadedTrim
  <1>3. ASSUME NEW t \in Selections, DragTrim(t)
        PROVE  Edits
    BY <1>3 DEF DragTrim, Edits
  <1>4. ASSUME NEW f \in SnappedTo(x, z),
               DragTrim([doc.trim EXCEPT !.lo = Min({f, doc.trim.hi - MinGap})])
        PROVE  Edits
    <2>. DEFINE lo == Min({f, doc.trim.hi - MinGap})
                t == [doc.trim EXCEPT !.lo = lo]
    <2>1. f \in Nat /\ f \in Int /\ doc.trim.hi - MinGap \in Int
      <3>1. f \in Nat
        BY <1>2, SnappedFrames
      <3>2. doc.trim.hi - MinGap \in Int
        <4>. HIDE DEF lo, t
        <4>. QED  BY <1>2
      <3>. QED  BY <3>1, <3>2
    <2>2. lo = IF f <= doc.trim.hi - MinGap THEN f ELSE doc.trim.hi - MinGap
      BY <2>1, MinOfTwo
    <2>. HIDE DEF lo
    <2>3. lo \in Nat /\ lo <= Length[sound] /\ doc.trim.hi - lo >= MinGap
      BY <1>2, <2>1, <2>2
    <2>4. lo \in Frames
      BY <1>2, <2>3, FramesFacts
    <2>5. t \in [lo : Frames, hi : Frames] /\ t.lo = lo /\ t.hi = doc.trim.hi
      BY <1>2, <2>4
    <2>6. t \in Selections
      BY <2>3, <2>5 DEF Selections, Span
    <2>. QED  BY <1>3, <1>4, <2>6 DEF lo
  <1>5. ASSUME NEW f \in SnappedTo(x, z),
               DragTrim([doc.trim EXCEPT
                    !.hi = Min({Max({f, doc.trim.lo + MinGap}), Length[sound]})])
        PROVE  Edits
    <2>. DEFINE far == Max({f, doc.trim.lo + MinGap})
                hi == Min({far, Length[sound]})
                t == [doc.trim EXCEPT !.hi = hi]
    <2>1. f \in Nat /\ f \in Int /\ doc.trim.lo + MinGap \in Int
      <3>1. f \in Nat
        BY <1>2, SnappedFrames
      <3>2. doc.trim.lo + MinGap \in Int
        <4>. HIDE DEF far, hi, t
        <4>. QED  BY <1>2
      <3>. QED  BY <3>1, <3>2
    <2>2. far = IF f >= doc.trim.lo + MinGap THEN f ELSE doc.trim.lo + MinGap
      BY <2>1, MaxOfTwo
    <2>3. far \in Int /\ Length[sound] \in Int /\ far >= doc.trim.lo + MinGap
      BY <1>2, <2>1, <2>2
    <2>. HIDE DEF far
    <2>4. hi = IF far <= Length[sound] THEN far ELSE Length[sound]
      BY <2>3, MinOfTwo
    <2>. HIDE DEF hi
    <2>5. hi \in Nat /\ hi <= Length[sound] /\ hi - doc.trim.lo >= MinGap
      BY <1>2, <2>3, <2>4
    <2>6. hi \in Frames
      BY <1>2, <2>5, FramesFacts
    <2>7. t \in [lo : Frames, hi : Frames] /\ t.hi = hi /\ t.lo = doc.trim.lo
      BY <1>2, <2>6
    <2>8. t \in Selections
      BY <2>5, <2>7 DEF Selections, Span
    <2>. QED  BY <1>3, <1>5, <2>8 DEF hi, far
  <1>. QED  BY <1>4, <1>5 DEF MoveHandle

LEMMA PaintEdits ==
    ASSUME NEW i, NEW w \in Weights, Paint(i, w)
    PROVE  Edits
  BY DEF Paint, Edits

LEMMA MarkerEdits ==
    ASSUME SampleInv, NEW id, NEW f \in Nat, NEW snap \in BOOLEAN,
           DragMarker(id, f, snap)
    PROVE  Edits
  BY MoveRebuilds DEF DragMarker, Edits

LEMMA DoubleClickEdits ==
    ASSUME SampleInv, MouseOK, DoubleClick
    PROVE  Edits
  <1>1. mouse.at \in Nat
    BY DEF MouseOK, Mice
  <1>2. ASSUME NEW id, RemoveManualPoint(id)
        PROVE  Edits
    BY <1>2, RemoveRebuilds DEF Edits
  <1>3. ASSUME NEW f \in AutoPointsAt(mouse.at, mouse.zoom), ExcludeNearestAutoPoint(f)
        PROVE  Edits
    BY <1>1, <1>3, AutoPointFrames, ExcludeRebuilds DEF Edits
  <1>4. ASSUME NEW snap \in BOOLEAN, AddManualPoint(mouse.at, snap)
        PROVE  Edits
    BY <1>1, <1>4, AddRebuilds DEF Edits
  <1>5. ASSUME UNCHANGED vars PROVE Edits
    BY <1>5 DEF Edits
  <1>. QED  BY <1>2, <1>3, <1>4, <1>5 DEF DoubleClick

(* Without the mouse the edits come in any order.                          *)
LEMMA NextEdits ==
    ASSUME SampleInv, Next
    PROVE  Edits
  <1>1. ASSUME NEW f \in Clicks, NEW snap \in BOOLEAN, AddManualPoint(f, snap)
        PROVE  Edits
    BY <1>1, AddRebuilds, EditingAssumption DEF Edits
  <1>2. ASSUME NEW id, RemoveManualPoint(id)
        PROVE  Edits
    BY <1>2, RemoveRebuilds DEF Edits
  <1>3. ASSUME NEW id, NEW f \in Clicks, NEW snap \in BOOLEAN,
               MoveManualPoint(id, f, snap)
        PROVE  Edits
    BY <1>3, MoveRebuilds, EditingAssumption DEF Edits
  <1>4. ASSUME NEW f \in AutoPoints, ExcludeNearestAutoPoint(f)
        PROVE  Edits
    <2>1. f \in Nat
      BY BoundaryFrames, FramesFacts
    <2>. QED  BY <1>4, <2>1, ExcludeRebuilds DEF Edits
  <1>5. ASSUME NEW t \in Trims, SetTrimFrames(t)
        PROVE  Edits
    <2>1. t.hi <= Length[sound] /\ sound # NoSound
      BY <1>5 DEF SetTrimFrames, Editable
    <2>2. sound \in Sounds /\ Length[sound] \in Nat
      BY <2>1, LoadedTrim
    <2>3. Edges \subseteq Nat
      BY EditingAssumption DEF Edges
    <2>4. t.lo \in Nat /\ t.hi \in Nat /\ t.hi - t.lo >= MinGap
          /\ t \in [lo : Edges, hi : Edges] /\ MinGap \in Nat
      BY <2>3, EditingAssumption DEF Trims, Span
    <2>5. t.lo <= Length[sound]
      BY <2>1, <2>2, <2>4
    <2>6. t.lo \in Frames /\ t.hi \in Frames
      BY <2>1, <2>2, <2>4, <2>5, FramesFacts
    <2>7. t \in Selections
      BY <2>4, <2>6 DEF Selections, Span
    <2>. QED  BY <1>5, <2>7 DEF Edits
  <1>6. ASSUME \/ \E s \in Sounds : RequestSampleLoad(s)
               \/ SetSensitivity \/ SetQuantizeTransients \/ Finish
               \/ \E i \in DOMAIN weights, w \in Weights : SetSliceProbability(i, w)
               \/ Acquire \/ Clip
        PROVE  Edits
    BY <1>6, SettingsRebuild DEF Edits
  <1>. QED  BY <1>1, <1>2, <1>3, <1>4, <1>5, <1>6 DEF Next

LEMMA GestureEdits ==
    ASSUME SampleInv, MouseOK, [GestureNext]_gestureVars
    PROVE  Edits
  <1>1. ASSUME UNCHANGED vars PROVE Edits
    BY <1>1 DEF Edits
  <1>2. Pointer \subseteq Nat
    BY GestureAssumption
  <1>3. ASSUME NEW x \in Pointer, NEW z \in Zooms,
               PressHandle(x, z) \/ PressMarker(x, z) \/ PressNothing(x, z)
        PROVE  Edits
    BY <1>1, <1>3 DEF PressHandle, PressMarker, PressNothing
  <1>4. ASSUME NEW x \in Pointer, NEW z \in Zooms, NEW w \in Weights, PressSlice(x, z, w)
        PROVE  Edits
    BY <1>4, PaintEdits DEF PressSlice
  <1>5. CASE PressOther \/ Cancel
    BY <1>1, <1>5 DEF PressOther, Cancel
  <1>6. CASE PressAgain
    <2>1. CASE mouse.undo = NoUndo
      BY <1>1, <1>6, <2>1 DEF PressAgain
    <2>2. CASE mouse.undo # NoUndo
      <3>1. mouse.undo \in Nat \X Weights
        BY <2>2 DEF MouseOK, Mice, Undos
      <3>2. mouse.undo[2] \in Weights
        BY <3>1
      <3>3. Paint(mouse.undo[1], mouse.undo[2])
        BY <1>6, <2>2 DEF PressAgain
      <3>. QED  BY <3>2, <3>3, PaintEdits
    <2>. QED  BY <2>1, <2>2
  <1>7. CASE DoubleClick
    BY <1>7, DoubleClickEdits
  <1>8. ASSUME NEW x \in Pointer, NEW z \in Zooms, MoveHandle(x, z)
        PROVE  Edits
    BY <1>2, <1>8, HandleEdits
  <1>9. ASSUME NEW x \in Pointer, NEW w \in Weights, MovePaint(x, w)
        PROVE  Edits
    BY <1>9, PaintEdits DEF MovePaint
  <1>10. ASSUME NEW x \in Pointer, MoveMarker(x) PROVE Edits
    BY <1>2, <1>10, MarkerEdits DEF MoveMarker
  <1>11. ASSUME NEW x \in Pointer, Release(x) PROVE Edits
    <2>1. CASE mouse.drag = "marker" /\ mouse.moved
      BY <1>2, <1>11, <2>1, MarkerEdits DEF Release
    <2>2. CASE ~(mouse.drag = "marker" /\ mouse.moved)
      BY <1>1, <1>11, <2>2 DEF Release
    <2>. QED  BY <2>1, <2>2
  <1>12. CASE Elsewhere
    BY <1>12, SettingsRebuild DEF Elsewhere, Edits
  <1>13. CASE Finish
    BY <1>13 DEF Edits
  <1>14. CASE Next
    BY <1>14, NextEdits
  <1>15. CASE UNCHANGED gestureVars
    BY <1>1, <1>15 DEF gestureVars
  <1>. QED  BY <1>3, <1>4, <1>5, <1>6, <1>7, <1>8, <1>9, <1>10, <1>11, <1>12,
               <1>13, <1>14, <1>15 DEF GestureNext

-----------------------------------------------------------------------------
(* The mouse and its memory, action by action.                             *)
LEMMA RestFields ==
    /\ AtRest = [drag |-> "none", marker |-> 0, moved |-> FALSE, undo |-> NoUndo,
                 at |-> 0, zoom |-> FirstZoom]
    /\ AtRest \in Mice
    /\ NoUndo \in Undos
  <1>1. AtRest = [drag |-> "none", marker |-> 0, moved |-> FALSE, undo |-> NoUndo,
                  at |-> 0, zoom |-> FirstZoom]
    BY DEF AtRest, FirstZoom
  <1>2. NoUndo \in Undos
    BY DEF Undos
  <1>. QED  BY <1>1, <1>2 DEF Mice, Drags

(* A press that may be followed up is remembered whole.                    *)
LEMMA ArmedPress ==
    ASSUME MouseOK, clicked.armed
    PROVE  clicked \in Presses /\ followed \in {"mouse", "blocks"}
  BY DEF MouseOK, NoClick

LEMMA MouseInit == GestureInit => MouseOK /\ Restorable
  <1>. SUFFICES ASSUME GestureInit PROVE MouseOK /\ Restorable
    OBVIOUS
  <1>2. mouse = AtRest /\ clicked = NoClick /\ followed \in {"mouse", "blocks"}
    BY DEF GestureInit
  <1>3. MouseOK
    BY <1>2, RestFields DEF MouseOK
  <1>4. Restorable
    BY <1>2 DEF Restorable, NoClick
  <1>. QED  BY <1>3, <1>4

LEMMA PressedFields ==
    ASSUME NEW drag \in Drags, NEW id \in Nat, NEW undo \in Undos
    PROVE  LET m == Pressed(drag, id, undo)
           IN  m \in Mice /\ m.drag = drag /\ m.undo = undo /\ m.moved = FALSE
  <1>1. PICK rest \in Mice : rest = AtRest /\ rest.moved = FALSE
    BY RestFields
  <1>2. Pressed(drag, id, undo) =
            [rest EXCEPT !.drag = drag, !.marker = id, !.undo = undo]
    BY <1>1 DEF Pressed
  <1>. QED  BY <1>1, <1>2 DEF Mice

(* A press that paints nothing: the weights are those of the press.        *)
LEMMA PlainPress ==
    ASSUME SampleInv, MouseOK, NEW x \in Nat, NEW z \in Zooms, LeftPress,
           NEW drag \in Drags \ {"again"}, NEW id \in Nat,
           mouse' = Pressed(drag, id, NoUndo), Click(x, z), UNCHANGED vars
    PROVE  MouseOK' /\ Restorable'
  <1>1. /\ followed = "mouse" /\ followed' = followed /\ ~edit.busy
        /\ weights \in Seq(Weights) /\ weights' = weights /\ edit' = edit
        /\ clicked' = [armed |-> TRUE, at |-> x, zoom |-> z, weights |-> weights]
    BY DEF LeftPress, Followed, Editable, Idle, Click, vars, SampleInv, TypeOK
  <1>2. /\ mouse'.drag = drag /\ mouse'.undo = NoUndo /\ ~mouse'.moved
        /\ mouse' \in Mice
    BY RestFields, PressedFields
  <1>3. clicked' \in Presses
    BY <1>1 DEF Presses
  <1>4. MouseOK'
    BY <1>1, <1>2, <1>3 DEF MouseOK
  <1>5. Restorable'
    BY <1>1, <1>2 DEF Restorable
  <1>. QED  BY <1>4, <1>5

(* A paint changes one weight at most.                                     *)
LEMMA PaintOne ==
    ASSUME SampleInv, NEW i, NEW w, Paint(i, w)
    PROVE  /\ edit' = edit /\ DOMAIN weights' = DOMAIN weights
           /\ \A k \in DOMAIN weights : k # i => weights'[k] = weights[k]
           /\ i \in DOMAIN weights => weights'[i] = w
  <1>1. weights \in Seq(Weights)
    BY DEF SampleInv, TypeOK
  <1>2. CASE i \in DOMAIN weights /\ weights[i] # w
    BY <1>1, <1>2 DEF Paint, SetSliceProbability
  <1>3. CASE ~(i \in DOMAIN weights /\ weights[i] # w)
    BY <1>3 DEF Paint, vars
  <1>. QED  BY <1>2, <1>3

LEMMA PaintingPress ==
    ASSUME SampleInv, MouseOK, NEW x \in Nat, NEW z \in Zooms, NEW w \in Weights,
           PressSlice(x, z, w)
    PROVE  MouseOK' /\ Restorable'
  <1>1. PICK i \in SlicesAt(x) :
           /\ mouse' = Pressed("paint", 0,
                               <<i, IF i \in DOMAIN weights THEN weights[i] ELSE 1>>)
           /\ Paint(i, w)
    BY DEF PressSlice
  <1>. DEFINE before == IF i \in DOMAIN weights THEN weights[i] ELSE 1
  <1>2. /\ followed = "mouse" /\ followed' = followed /\ ~edit.busy
        /\ weights \in Seq(Weights) /\ slices \in Seq(Slices)
        /\ clicked' = [armed |-> TRUE, at |-> x, zoom |-> z, weights |-> weights]
    BY DEF PressSlice, LeftPress, Followed, Editable, Idle, Click, SampleInv, TypeOK
  <1>3. i \in Nat /\ before \in Weights
    <2>1. i \in DOMAIN slices /\ 1 \in Weights
      BY EditingAssumption DEF SlicesAt
    <2>. QED  BY <1>2, <2>1
  <1>4. i \in DOMAIN weights => before = weights[i]
    OBVIOUS
  <1>. HIDE DEF before
  <1>5. <<i, before>> \in Undos /\ "paint" \in Drags /\ 0 \in Nat
    BY <1>3 DEF Undos, Drags
  <1>6. /\ mouse'.drag = "paint" /\ mouse'.undo = <<i, before>> /\ ~mouse'.moved
        /\ mouse' \in Mice
    <2>1. mouse' = Pressed("paint", 0, <<i, before>>)
      BY <1>1 DEF before
    <2>. QED  BY <1>5, <2>1, PressedFields
  <1>7. clicked' \in Presses
    BY <1>2 DEF Presses
  <1>8. MouseOK'
    BY <1>2, <1>6, <1>7 DEF MouseOK
  <1>9. /\ edit' = edit /\ DOMAIN weights' = DOMAIN weights
        /\ \A k \in DOMAIN weights : k # i => weights'[k] = weights[k]
    BY <1>1, PaintOne
  <1>10. /\ mouse'.undo # NoUndo /\ mouse'.undo[1] = i /\ mouse'.undo[2] = before
         /\ mouse'.drag # "again" /\ ~mouse'.moved
    BY <1>6 DEF NoUndo
  <1>11. /\ clicked'.weights = weights
    BY <1>2
  <1>12. Restorable'
    BY <1>2, <1>4, <1>9, <1>10, <1>11 DEF Restorable
  <1>. QED  BY <1>8, <1>12

(* A drag of the painted slice paints it again.                            *)
LEMMA PaintingMove ==
    ASSUME SampleInv, MouseOK, Restorable, NEW x, NEW w \in Weights, MovePaint(x, w)
    PROVE  MouseOK' /\ Restorable'
  <1>1. PICK i \in SlicesAt(x) :
           /\ Paint(i, w)
           /\ clicked' = IF mouse.undo # NoUndo /\ mouse.undo[1] = i
                         THEN clicked ELSE NoClick
    BY DEF MovePaint
  <1>2. mouse' = mouse /\ followed' = followed
    BY DEF MovePaint, Moving
  <1>3. MouseOK'
    BY <1>1, <1>2 DEF MouseOK
  <1>4. /\ edit' = edit /\ DOMAIN weights' = DOMAIN weights
        /\ \A k \in DOMAIN weights : k # i => weights'[k] = weights[k]
    BY <1>1, PaintOne
  <1>5. CASE mouse.undo # NoUndo /\ mouse.undo[1] = i
    <2>1. clicked' = clicked /\ mouse' = mouse /\ followed' = followed
      BY <1>1, <1>2, <1>5
    <2>2. CASE clicked.armed
      BY <2>1, <2>2, <1>3, <1>4, <1>5 DEF Restorable
    <2>3. CASE ~clicked.armed
      BY <2>1, <2>3, <1>3 DEF Restorable
    <2>. QED  BY <1>3, <2>2, <2>3
  <1>6. CASE ~(mouse.undo # NoUndo /\ mouse.undo[1] = i)
    <2>1. clicked' = NoClick
      BY <1>1, <1>6
    <2>. QED  BY <1>3, <2>1 DEF Restorable, NoClick
  <1>. QED  BY <1>3, <1>5, <1>6

LEMMA MouseStep ==
    ASSUME SampleInv, MouseOK, Restorable, [GestureNext]_gestureVars
    PROVE  MouseOK' /\ Restorable'
  <1>. DEFINE Dragging == {"trimStart", "trimEnd", "marker", "none"}
  <1>p. Pointer \subseteq Nat
    BY GestureAssumption
  <1>m. /\ mouse \in Mice /\ followed \in {"mouse", "blocks"}
        /\ clicked \in {NoClick} \cup Presses
    BY DEF MouseOK
  <1>d. Dragging \subseteq Drags \ {"again"}
    BY DEF Drags
  <1>r. ASSUME followed' = followed, mouse' \in Mice, clicked' = NoClick
        PROVE  MouseOK' /\ Restorable'
    BY <1>m, <1>r DEF MouseOK, Restorable, NoClick
  <1>a. \A undo \in Undos : [AtRest EXCEPT !.undo = undo] \in Mice
    BY RestFields DEF Mice
  <1>1. ASSUME NEW x \in Pointer, NEW z \in Zooms, PressHandle(x, z)
        PROVE  MouseOK' /\ Restorable'
    <2>1. /\ TrimHandleAt(x, z) \in Dragging
          /\ LeftPress /\ mouse' = Pressed(TrimHandleAt(x, z), 0, NoUndo)
          /\ Click(x, z) /\ UNCHANGED vars /\ x \in Nat
      BY <1>p, <1>1 DEF PressHandle, TrimHandleAt
    <2>. QED  BY <1>d, <2>1, PlainPress
  <1>2. ASSUME NEW x \in Pointer, NEW z \in Zooms, PressMarker(x, z)
        PROVE  MouseOK' /\ Restorable'
    <2>1. PICK id \in ManualPointsAt(x, z) : mouse' = Pressed("marker", id, NoUndo)
      BY <1>2 DEF PressMarker
    <2>2. LeftPress /\ Click(x, z) /\ UNCHANGED vars /\ x \in Nat
      BY <1>p, <1>2 DEF PressMarker
    <2>3. id \in Nat
      <3>1. id \in DOMAIN doc.manual /\ doc \in Docs
        BY DEF ManualPointsAt, SampleInv, TypeOK
      <3>. QED  BY <3>1, DocFacts
    <2>. QED  BY <1>d, <2>1, <2>2, <2>3, PlainPress
  <1>3. ASSUME NEW x \in Pointer, NEW z \in Zooms, PressNothing(x, z)
        PROVE  MouseOK' /\ Restorable'
    <2>1. /\ LeftPress /\ mouse' = Pressed("none", 0, NoUndo)
          /\ Click(x, z) /\ UNCHANGED vars /\ x \in Nat
      BY <1>p, <1>3 DEF PressNothing
    <2>. QED  BY <1>d, <2>1, PlainPress
  <1>4. ASSUME NEW x \in Pointer, NEW z \in Zooms, NEW w \in Weights, PressSlice(x, z, w)
        PROVE  MouseOK' /\ Restorable'
    BY <1>p, <1>4, PaintingPress
  <1>5. CASE PressOther
    <2>1. PICK drag \in {mouse.drag, "pan"} :
             mouse' = [mouse EXCEPT !.drag = drag, !.undo = NoUndo]
      BY <1>5 DEF PressOther
    <2>2. drag \in Drags
      BY <1>m DEF Mice, Drags
    <2>3. mouse' \in Mice
      BY <1>m, <2>1, <2>2, RestFields DEF Mice
    <2>4. followed' = followed /\ clicked' = NoClick
      BY <1>5 DEF PressOther
    <2>. QED  BY <1>r, <2>3, <2>4
  <1>6. CASE PressAgain
    <2>1. /\ mouse' = [Pressed("again", 0, NoUndo) EXCEPT
                         !.at = clicked.at, !.zoom = clicked.zoom]
          /\ clicked.armed /\ clicked' = NoClick /\ followed' = followed
      BY <1>6 DEF PressAgain, LeftPress
    <2>2. clicked.at \in Nat /\ clicked.zoom \in Zooms
      BY <2>1, ArmedPress DEF Presses
    <2>3. Pressed("again", 0, NoUndo) \in Mice
      BY PressedFields, RestFields DEF Drags
    <2>4. PICK m \in Mice : m = Pressed("again", 0, NoUndo)
      BY <2>3
    <2>5. mouse' = [m EXCEPT !.at = clicked.at, !.zoom = clicked.zoom]
      BY <2>1, <2>4
    <2>6. mouse' \in Mice
      BY <2>2, <2>5 DEF Mice
    <2>. QED  BY <1>r, <2>1, <2>6
  <1>7. CASE DoubleClick
    <2>1. mouse.drag = "again" /\ mouse' = AtRest /\ UNCHANGED <<followed, clicked>>
      BY <1>7 DEF DoubleClick, HandlerDone
    <2>2. ~clicked.armed
      BY <2>1 DEF Restorable
    <2>. QED  BY <1>m, <2>1, <2>2, RestFields DEF MouseOK, Restorable
  <1>8. ASSUME NEW x \in Pointer, NEW z \in Zooms, MoveHandle(x, z)
        PROVE  MouseOK' /\ Restorable'
    <2>1. followed' = followed /\ mouse' = mouse /\ clicked' = NoClick
      BY <1>8 DEF MoveHandle, Moving
    <2>. QED  BY <1>m, <1>r, <2>1
  <1>9. ASSUME NEW x \in Pointer, NEW w \in Weights, MovePaint(x, w)
        PROVE  MouseOK' /\ Restorable'
    BY <1>9, PaintingMove
  <1>10. ASSUME NEW x \in Pointer, MoveMarker(x)
         PROVE  MouseOK' /\ Restorable'
    <2>1. /\ followed' = followed /\ mouse' = [mouse EXCEPT !.moved = TRUE]
          /\ clicked' = NoClick
      BY <1>10 DEF MoveMarker, Moving
    <2>2. mouse' \in Mice
      BY <1>m, <2>1 DEF Mice
    <2>. QED  BY <1>r, <2>1, <2>2
  <1>11. ASSUME NEW x \in Pointer, Release(x)
         PROVE  MouseOK' /\ Restorable'
    <2>1. /\ mouse' = [AtRest EXCEPT !.undo = mouse.undo]
          /\ UNCHANGED <<followed, clicked>>
      BY <1>11 DEF Release
    <2>2. mouse.undo \in Undos
      BY <1>m DEF Mice
    <2>3. mouse' \in Mice
      BY <1>a, <2>1, <2>2
    <2>4. MouseOK'
      BY <1>m, <2>1, <2>3 DEF MouseOK
    <2>5. mouse'.undo = mouse.undo /\ mouse'.drag = "none" /\ mouse'.moved = FALSE
      BY <2>1 DEF AtRest
    <2>6. CASE clicked.armed
      <3>1. ~mouse.moved
        BY <2>6 DEF Restorable
      <3>2. UNCHANGED vars
        BY <1>11, <3>1 DEF Release
      <3>3. weights' = weights /\ edit' = edit
        BY <3>2 DEF vars
      <3>. QED  BY <2>1, <2>4, <2>5, <3>3 DEF Restorable
    <2>7. CASE ~clicked.armed
      BY <2>1, <2>4, <2>7 DEF Restorable
    <2>. QED  BY <2>6, <2>7
  <1>12. CASE Cancel
    <2>1. /\ mouse' = [AtRest EXCEPT !.undo = mouse.undo]
          /\ followed' = followed /\ clicked' = NoClick
      BY <1>12 DEF Cancel
    <2>2. mouse.undo \in Undos
      BY <1>m DEF Mice
    <2>3. mouse' \in Mice
      BY <1>a, <2>1, <2>2
    <2>. QED  BY <1>r, <2>1, <2>3
  <1>13. CASE Elsewhere
    <2>1. followed' = followed /\ mouse' = mouse /\ clicked' = NoClick
      BY <1>13 DEF Elsewhere
    <2>. QED  BY <1>m, <1>r, <2>1
  <1>14. CASE Finish /\ UNCHANGED <<followed, mouse, clicked>>
    <2>1. ~clicked.armed
      BY <1>14 DEF Finish, Restorable
    <2>. QED  BY <1>14, <2>1 DEF MouseOK, Restorable
  <1>15. CASE followed = "blocks" /\ UNCHANGED <<followed, mouse, clicked>>
    <2>1. ~clicked.armed
      BY <1>15 DEF Restorable
    <2>. QED  BY <1>15, <2>1 DEF MouseOK, Restorable
  <1>16. CASE UNCHANGED gestureVars
    BY <1>16 DEF gestureVars, vars, MouseOK, Restorable
  <1>. HIDE DEF Dragging
  <1>. QED  BY <1>1, <1>2, <1>3, <1>4, <1>5, <1>6, <1>7, <1>8, <1>9, <1>10, <1>11,
               <1>12, <1>13, <1>14, <1>15, <1>16 DEF GestureNext

(***************************************************************************)
(* The theorems.                                                           *)
(***************************************************************************)
(* What holds between any two steps: the slot is what the builder made of  *)
(* its document, weights run parallel to slices, and what the view may     *)
(* undo is the paint of its last press (rebuildSlicesPreservingWeights and *)
(* the mouse handlers of WaveformView).                                    *)
THEOREM EditorInvariant == GestureSpec => []EditorInv
  <1>1. GestureInit => EditorInv
    BY SampleInit, MouseInit DEF GestureInit, EditorInv
  <1>2. EditorInv /\ [GestureNext]_gestureVars => EditorInv'
    BY GestureEdits, EditsPreserve, MouseStep DEF EditorInv
  <1>. QED  BY <1>1, <1>2, PTL DEF GestureSpec

(* The document, the slot, the block's copy and the edit on its way keep   *)
(* their types, whatever is loaded, edited or painted.                     *)
THEOREM SampleTypes == GestureSpec => []TypeOK
  <1>1. EditorInv => TypeOK
    BY DEF EditorInv, SampleInv
  <1>. QED  BY <1>1, EditorInvariant, PTL

(* What the slot holds is a chain of slices.                               *)
LEMMA SlotChain ==
    ASSUME SampleInv, sound # NoSound
    PROVE  /\ built \in Docs /\ ATrim(built.trim) /\ built.trim \in Selections
           /\ slices = SlicesOf(sound, built)
           /\ \E to \in Nat :
                 /\ to <= built.trim.hi
                 /\ to..(built.trim.hi - 1) \subseteq Quiet[sound]
                 /\ Chain(slices, built.trim.lo, to)
                 /\ \A m \in Points(built) :
                       built.trim.lo < m /\ m < built.trim.hi
                           => m \in Starts(slices) \cup {to}
  <1>1. built \in Docs /\ built.trim \in Selections /\ slices = SlicesOf(sound, built)
    BY DEF SampleInv, TypeOK, Loaded
  <1>. QED  BY <1>1, SelectionFacts, SlicesOfChain

(* The published slices tile the trim they were built for, in order and    *)
(* without gaps but for a quiet tail: buildSlices, filterGhostSlices.      *)
THEOREM SlicesTile == GestureSpec => []SlicesTileTheirTrim
  <1>1. EditorInv => SlicesTileTheirTrim
    <2>. SUFFICES ASSUME SampleInv, sound # NoSound
                  PROVE  Tiles(slices, built.trim, Quiet[sound])
      BY DEF EditorInv, SlicesTileTheirTrim
    <2>. QED  BY SlotChain, ChainTiles
  <1>. QED  BY <1>1, EditorInvariant, PTL

(* Every manual point inside the trim is a boundary of the published       *)
(* slices: whatever the merge and the ghost rules join, never a marker.    *)
THEOREM MarkersBound == GestureSpec => []ManualPointsAreBoundaries
  <1>1. EditorInv => ManualPointsAreBoundaries
    <2>. SUFFICES ASSUME SampleInv, sound # NoSound, NEW m \in Points(built),
                         built.trim.lo < m, m < built.trim.hi
                  PROVE  m \in Boundaries(slices)
      BY DEF EditorInv, ManualPointsAreBoundaries
    <2>1. PICK to \in Nat : /\ Chain(slices, built.trim.lo, to)
                            /\ m \in Starts(slices) \cup {to}
      BY SlotChain
    <2>2. built.trim.lo \in Nat
      BY SlotChain, SelectionFacts
    <2>3. /\ Len(slices) \in Nat \ {0} /\ DOMAIN slices = 1..Len(slices)
          /\ slices[Len(slices)].hi = to
      BY <2>1, <2>2, ChainFacts
    <2>4. Len(slices) \in DOMAIN slices
      BY <2>3
    <2>. QED  BY <2>1, <2>3, <2>4 DEF Boundaries, Starts
  <1>. QED  BY <1>1, EditorInvariant, PTL

(* Without quantization no slice starts at an excluded onset, unless a     *)
(* marker or the trim puts a start there: mergeOnsetsIntoSlices.           *)
THEOREM ExclusionsHold == GestureSpec => []ExcludedStayOut
  <1>1. EditorInv => ExcludedStayOut
    <2>. SUFFICES ASSUME SampleInv, ~built.quantize, NEW i \in DOMAIN slices
                  PROVE  slices[i].lo \in Points(built) \cup {built.trim.lo}
                             \/ ~Excluded(slices[i].lo, built.excluded)
      BY DEF EditorInv, ExcludedStayOut
    <2>1. sound # NoSound
      BY DEF SampleInv, Loaded
    <2>2. slices[i].lo \in Starts(slices)
      BY DEF Starts
    <2>. QED  BY <2>1, <2>2, SlotChain, SlicesOfStarts
  <1>. QED  BY <1>1, EditorInvariant, PTL

(* A trim narrowed since the build leaves slices that cover it once: the   *)
(* audio thread clips the list it has, clipSlicesToTrim.                   *)
THEOREM NarrowedTrims == GestureSpec => []NarrowedTrimPlayable
  <1>1. EditorInv => NarrowedTrimPlayable
    <2>. SUFFICES ASSUME SampleInv, sound # NoSound,
                         built.trim.lo <= block.trim.lo,
                         block.trim.hi <= built.trim.hi
                  PROVE  CoveredOnce(Playable, block.trim, Quiet[sound])
      BY DEF EditorInv, NarrowedTrimPlayable
    <2>1. PICK to \in Nat : /\ Chain(slices, built.trim.lo, to)
                            /\ to..(built.trim.hi - 1) \subseteq Quiet[sound]
      BY SlotChain
    <2>2. built.trim.lo \in Nat /\ built.trim.hi \in Nat
      BY SlotChain, SelectionFacts
    <2>3. block.trim \in Pieces
      <3>1. block.trim \in Selections \cup {NoTrim}
        BY DEF SampleInv, TypeOK
      <3>2. NoTrim \in Pieces
        BY DEF NoTrim, Pieces
      <3>. QED  BY <3>1, <3>2, SelectionFacts DEF ATrim
    <2>. QED  BY <2>1, <2>2, <2>3, ClippedOnce DEF Playable
  <1>. QED  BY <1>1, EditorInvariant, PTL

(* A rebuild keeps what was painted: a slice that lies within an old one   *)
(* takes its weight, rebuildSlicesPreservingWeights.                       *)
THEOREM PaintKept == GestureSpec => PaintSurvives
  <1>. DEFINE Kept == (edit.busy /\ ~edit'.busy) =>
          \A j \in DOMAIN slices', k \in DOMAIN edit.slices :
              (/\ edit.slices[k].lo <= slices'[j].lo
               /\ slices'[j].hi <= edit.slices[k].hi)
                  => weights'[j] = edit.weights[k]
  <1>1. EditorInv /\ [GestureNext]_gestureVars => [Kept]_vars
    <2>. SUFFICES ASSUME EditorInv, Edits, edit.busy, ~edit'.busy,
                         NEW j \in DOMAIN slices', NEW k \in DOMAIN edit.slices,
                         edit.slices[k].lo <= slices'[j].lo,
                         slices'[j].hi <= edit.slices[k].hi
                  PROVE  weights'[j] = edit.weights[k]
      BY GestureEdits DEF EditorInv
    <2>1. Finish
      <3>1. ASSUME NEW s, RequestSampleLoad(s) PROVE FALSE
        BY <3>1 DEF RequestSampleLoad, Idle
      <3>2. ASSUME NEW d, RebuildOf(d) PROVE FALSE
        BY <3>2 DEF RebuildOf, Editable, Idle
      <3>3. ASSUME NEW t, SetTrimFrames(t) PROVE FALSE
        BY <3>3 DEF SetTrimFrames, Editable, Idle
      <3>4. ASSUME NEW i, NEW w, SetSliceProbability(i, w) PROVE FALSE
        BY <3>4 DEF SetSliceProbability, Editable, Idle
      <3>5. ~(Acquire \/ Clip \/ UNCHANGED vars)
        BY DEF Acquire, Clip, vars
      <3>. QED  BY <3>1, <3>2, <3>3, <3>4, <3>5 DEF Edits
    <2>2. /\ weights' = Remapped(edit.slices, edit.weights, slices)
          /\ slices' = slices
      BY <2>1 DEF Finish
    <2>3. /\ SampleInv /\ sound # NoSound
      BY DEF EditorInv, SampleInv, Loaded
    <2>4. /\ slices[j].lo \in Nat /\ slices[j].hi \in Nat
          /\ slices[j].lo < slices[j].hi /\ j \in DOMAIN slices
      <3>1. PICK to \in Nat : Chain(slices, built.trim.lo, to)
        BY <2>3, SlotChain
      <3>2. built.trim.lo \in Nat
        BY <2>3, SlotChain, SelectionFacts
      <3>. QED  BY <2>2, <3>1, <3>2, ChainFacts
    <2>5. /\ edit.slices \in Seq(Slices) /\ edit.weights \in Seq(Weights)
          /\ Len(edit.weights) = Len(edit.slices)
          /\ \A i, n \in DOMAIN edit.slices :
                i < n => edit.slices[i].hi <= edit.slices[n].lo
      BY <2>3 DEF SampleInv, TypeOK, Paired
    <2>6. \A i \in DOMAIN edit.slices :
             i \in Nat /\ edit.slices[i].lo \in Nat /\ edit.slices[i].hi \in Nat
      <3>1. \A i \in DOMAIN edit.slices : i \in Nat /\ edit.slices[i] \in Slices
        BY <2>5
      <3>2. \A s \in Slices : s.lo \in Nat /\ s.hi \in Nat
        BY FramesFacts DEF Slices
      <3>. QED  BY <3>1, <3>2
    <2>. DEFINE parents == {i \in DOMAIN edit.slices :
                              edit.slices[i].lo <= slices[j].lo
                                 /\ slices[j].lo < edit.slices[i].hi}
    <2>7. parents = {k}
      <3>1. k \in parents
        BY <2>2, <2>4, <2>6
      <3>2. ASSUME NEW i \in parents, i # k PROVE FALSE
        <4>1. i < k \/ k < i
          BY <2>6, <3>2
        <4>. QED  BY <2>2, <2>4, <2>5, <2>6, <3>1, <4>1
      <3>. QED  BY <3>1, <3>2
    <2>8. Min({k}) = k
      BY <2>6 DEF Min
    <2>9. k \in DOMAIN edit.weights
      BY <2>5
    <2>10. weights'[j] = IF parents = {} \/ Min(parents) \notin DOMAIN edit.weights THEN 1
                         ELSE edit.weights[Min(parents)]
      BY <2>2, <2>4 DEF Remapped
    <2>. QED  BY <2>7, <2>8, <2>9, <2>10
  <1>. QED  BY <1>1, EditorInvariant, PTL DEF GestureSpec, PaintSurvives

(* The second press of a double click undoes the paint of the first, so    *)
(* that adding a marker changes no weight: WaveformView::onMouseDown.      *)
THEOREM DoubleClickRestores == GestureSpec => DoubleClickKeepsPaint
  <1>1. EditorInv /\ [GestureNext]_gestureVars
            => [PressAgain => weights' = clicked.weights]_gestureVars
    <2>. SUFFICES ASSUME EditorInv, PressAgain PROVE weights' = clicked.weights
      OBVIOUS
    <2>1. SampleInv /\ Restorable /\ MouseOK /\ clicked.armed
      BY DEF EditorInv, PressAgain
    <2>2. /\ weights \in Seq(Weights) /\ clicked.weights \in Seq(Weights)
          /\ DOMAIN weights = DOMAIN clicked.weights
      BY <2>1, ArmedPress DEF SampleInv, TypeOK, Restorable, Presses
    <2>3. CASE mouse.undo = NoUndo
      <3>1. weights' = weights
        BY <2>3 DEF PressAgain, vars
      <3>2. \A k \in DOMAIN weights : weights[k] = clicked.weights[k]
        BY <2>1, <2>3 DEF Restorable
      <3>. QED  BY <2>2, <3>1, <3>2
    <2>4. CASE mouse.undo # NoUndo
      <3>1. Paint(mouse.undo[1], mouse.undo[2])
        BY <2>4 DEF PressAgain
      <3>2. /\ DOMAIN weights' = DOMAIN weights
            /\ \A k \in DOMAIN weights : k # mouse.undo[1] => weights'[k] = weights[k]
            /\ mouse.undo[1] \in DOMAIN weights => weights'[mouse.undo[1]] = mouse.undo[2]
        BY <2>1, <3>1, PaintOne
      <3>3. \A k \in DOMAIN weights : weights'[k] = clicked.weights[k]
        BY <2>1, <2>4, <3>2 DEF Restorable
      <3>4. weights' \in Seq(Weights)
        <4>1. Edits
          <5>1. mouse.undo[2] \in Weights
            BY <2>1, <2>4 DEF MouseOK, Mice, Undos
          <5>. QED  BY <3>1, <5>1, PaintEdits
        <4>. QED  BY <2>1, <4>1, EditsTyped DEF TypeOK
      <3>. QED  BY <2>2, <3>2, <3>3, <3>4
    <2>. QED  BY <2>3, <2>4
  <1>. QED  BY <1>1, EditorInvariant, PTL DEF GestureSpec, DoubleClickKeepsPaint

-----------------------------------------------------------------------------
(* The grid's viewport.  Products of variables are beyond the provers'     *)
(* arithmetic, so the facts about them that are needed come first.         *)
LEMMA DivBounds ==
    ASSUME NEW a \in Int, NEW b \in Nat \ {0}
    PROVE  /\ a \div b \in Int
           /\ (a \div b) * b <= a
           /\ a < (a \div b) * b + b
  OBVIOUS

LEMMA DivExact ==
    ASSUME NEW a \in Int, NEW b \in Nat \ {0}, a % b = 0
    PROVE  b * (a \div b) = a
  <1>1. a = b * (a \div b) + (a % b)
    OBVIOUS
  <1>. QED  BY <1>1, DivBounds

LEMMA ProductMonotone ==
    ASSUME NEW a \in Int, NEW b \in Int, NEW c \in Nat, a <= b
    PROVE  a * c <= b * c
  <1>1. (b - a) * c >= 0
    OBVIOUS
  <1>2. (b - a) * c = b * c - a * c
    OBVIOUS
  <1>. QED  BY <1>1, <1>2

LEMMA DivPositive ==
    ASSUME NEW a \in Nat \ {0}, NEW b \in Nat \ {0}, a % b = 0
    PROVE  b * (a \div b) = a /\ a \div b \in Nat \ {0}
  <1>. DEFINE q == a \div b
  <1>1. b * q = a
    BY DivExact
  <1>2. q \in Int /\ a < q * b + b
    BY DivBounds
  <1>3. q # 0
    <2>1. b * 0 = 0
      OBVIOUS
    <2>. HIDE DEF q
    <2>. QED  BY <1>1, <2>1
  <1>4. q >= 0
    <2>1. CASE q < 0
      <3>. HIDE DEF q
      <3>1. (q + 1) * b <= 0 * b
        BY <1>2, <2>1, ProductMonotone
      <3>2. (q + 1) * b = q * b + b /\ 0 * b = 0 /\ q * b \in Int
        BY <1>2
      <3>. QED  BY <1>2, <3>1, <3>2
    <2>. HIDE DEF q
    <2>. QED  BY <1>2, <2>1
  <1>. HIDE DEF q
  <1>5. q \in Nat \ {0}
    BY <1>2, <1>3, <1>4
  <1>. QED  BY <1>1, <1>5 DEF q

LEMMA ProductReflects ==
    ASSUME NEW a \in Int, NEW b \in Int, NEW c \in Nat \ {0}, a * c < b * c
    PROVE  a < b
  <1>1. CASE b <= a
    <2>1. b * c <= a * c
      BY <1>1, ProductMonotone
    <2>2. a * c \in Int /\ b * c \in Int
      OBVIOUS
    <2>. QED  BY <2>1, <2>2
  <1>. QED  BY <1>1

LEMMA ClampBounds ==
    ASSUME NEW n \in Int, NEW lo \in Int, NEW hi \in Int, lo <= hi
    PROVE  /\ Bounded(n, lo, hi) \in lo..hi
           /\ Bounded(n, lo, hi) \in {lo, n, hi}
  BY DEF Bounded

LEMMA RoundDivBounds ==
    ASSUME NEW a \in Int, NEW b \in Nat \ {0}
    PROVE  /\ RoundDiv(a, b) \in Int
           /\ 2 * (RoundDiv(a, b) * b) <= 2 * a + b
           /\ 2 * a < 2 * (RoundDiv(a, b) * b) + b
  <1>. DEFINE n == 2 * a + b
              d == 2 * b
              q == n \div d
  <1>1. n \in Int /\ d \in Nat \ {0}
    OBVIOUS
  <1>2. q \in Int /\ q * d <= n /\ n < q * d + d
    <2>. HIDE DEF n, d
    <2>. QED  BY <1>1, DivBounds
  <1>3. q * d = 2 * (q * b)
    <2>. HIDE DEF q
    <2>. QED  BY <1>2
  <1>4. q * b \in Int
    BY <1>2
  <1>5. RoundDiv(a, b) = q
    BY DEF RoundDiv
  <1>. HIDE DEF q
  <1>. QED  BY <1>2, <1>3, <1>4, <1>5

(* Cells are whole pixels wide and high.                                   *)
LEMMA CellSizes ==
    ASSUME dims \in Dims, NEW a \in Axes
    PROVE  /\ View[a] \in Nat \ {0} /\ dims[a] \in Nat /\ CellSize(a) \in Nat
           /\ dims.x \in Nat \ {0} /\ dims.y \in Nat
           /\ dims.y > 0 => dims[a] # 0 /\ CellSize(a) # 0
           /\ dims.x * CellSize("x") = View.x
           /\ (dims.y > 0 /\ View.y >= MinRowH * dims.y)
                 => dims.y * CellSize("y") = View.y
           /\ (dims.y > 0 /\ ~(View.y >= MinRowH * dims.y))
                 => CellSize("y") = MinRowH
  <1>1. /\ View.x \in Nat \ {0} /\ View.y \in Nat \ {0}
        /\ dims.x \in Nat \ {0} /\ dims.y \in Nat /\ MinRowH \in Nat \ {0}
        /\ View.x % dims.x = 0
        /\ (dims.y > 0 /\ View.y >= MinRowH * dims.y) => View.y % dims.y = 0
    BY ViewportAssumption
  <1>2. dims.x * (View.x \div dims.x) = View.x /\ View.x \div dims.x \in Nat \ {0}
    BY <1>1, DivPositive
  <1>3. ASSUME dims.y > 0, View.y >= MinRowH * dims.y
        PROVE  /\ dims.y * (View.y \div dims.y) = View.y
               /\ View.y \div dims.y \in Nat \ {0}
    <2>1. dims.y \in Nat \ {0} /\ View.y % dims.y = 0
      BY <1>1, <1>3
    <2>. QED  BY <1>1, <2>1, DivPositive
  <1>4. CellSize("x") = View.x \div dims.x
    BY DEF CellSize
  <1>5. CellSize("y") = IF dims.y > 0 /\ View.y >= MinRowH * dims.y
                        THEN View.y \div dims.y ELSE MinRowH
    BY DEF CellSize
  <1>6. CASE a = "x"
    BY <1>1, <1>2, <1>3, <1>4, <1>5, <1>6
  <1>7. CASE a = "y"
    BY <1>1, <1>2, <1>3, <1>4, <1>5, <1>7
  <1>. QED  BY <1>6, <1>7 DEF Axes

(* The least zoom lies in the band, and at a zoom no less the content      *)
(* fills the view.                                                         *)
LEMMA FitInBand ==
    ASSUME dims \in Dims, NEW a \in Axes
    PROVE  /\ Fit(a) \in MinZoom..MaxZoom
           /\ MinZoom \in Nat \ {0} /\ MaxZoom \in Nat /\ MinZoom <= MaxZoom
           /\ ZoomUnit \in Nat \ {0}
  <1>1. /\ MinZoom \in Nat \ {0} /\ MaxZoom \in Nat /\ MinZoom <= MaxZoom
        /\ ZoomUnit \in Nat \ {0}
    BY ViewportAssumption
  <1>2. Content(a, 1) \in Nat
    <2>1. CellSize(a) \in Nat /\ dims[a] \in Nat
      BY CellSizes
    <2>. QED  BY <2>1 DEF Content
  <1>3. CASE Content(a, 1) = 0
    BY <1>1, <1>3 DEF Fit
  <1>4. CASE Content(a, 1) # 0
    <2>1. View[a] * ZoomUnit \in Int
      BY <1>1, CellSizes
    <2>2. (View[a] * ZoomUnit) \div Content(a, 1) \in Int
      <3>. DEFINE p == View[a] * ZoomUnit
      <3>1. p \in Int
        BY <2>1
      <3>. HIDE DEF p
      <3>2. p \div Content(a, 1) \in Int
        BY <1>2, <1>4, <3>1, DivBounds
      <3>. QED  BY <3>2 DEF p
    <2>3. PICK n \in Int : n = (View[a] * ZoomUnit) \div Content(a, 1)
      BY <2>2
    <2>4. Fit(a) = Bounded(n, MinZoom, MaxZoom)
      BY <1>4, <2>3 DEF Fit
    <2>5. Bounded(n, MinZoom, MaxZoom) \in MinZoom..MaxZoom
      BY <1>1, ClampBounds
    <2>. QED  BY <1>1, <2>4, <2>5
  <1>. QED  BY <1>1, <1>3, <1>4

LEMMA FitFills ==
    ASSUME dims \in Dims, dims.y > 0, NEW a \in Axes, NEW z \in Nat, Fit(a) <= z
    PROVE  /\ Content(a, z) \in Nat
           /\ View[a] * ZoomUnit <= Content(a, z)
  <1>. DEFINE c == CellSize(a) * dims[a]
  <1>1. /\ View[a] \in Nat \ {0} /\ ZoomUnit \in Nat \ {0}
        /\ CellSize(a) \in Nat \ {0} /\ dims[a] \in Nat \ {0}
    BY CellSizes, FitInBand
  <1>2. c \in Nat \ {0}
    BY <1>1
  <1>3. Content(a, z) = c * z /\ Content(a, 1) = c
    <2>1. Content(a, z) = c * z /\ Content(a, 1) = c * 1
      BY DEF Content
    <2>. HIDE DEF c
    <2>. QED  BY <1>2, <2>1
  <1>4. (View[a] * ZoomUnit) % c = 0 /\ c * ((View[a] * ZoomUnit) \div c) = View[a] * ZoomUnit
    <2>1. (View[a] * ZoomUnit) % c = 0
      <3>1. CASE c = View[a]
        <4>1. View[a] * ZoomUnit = c * ZoomUnit /\ (c * ZoomUnit) % c = 0
          BY <1>1, <1>2, <3>1
        <4>. QED  BY <4>1
      <3>2. CASE a = "y" /\ ~(View.y >= MinRowH * dims.y)
        <4>1. c = MinRowH * dims.y
          BY <3>2, CellSizes
        <4>2. (View.y * ZoomUnit) % (MinRowH * dims.y) = 0
          BY <3>2, ViewportAssumption
        <4>. QED  BY <3>2, <4>1, <4>2
      <3>3. c = View[a] \/ (a = "y" /\ ~(View.y >= MinRowH * dims.y))
        <4>1. c = dims[a] * CellSize(a)
          BY <1>1
        <4>. HIDE DEF c
        <4>2. CASE a = "x"
          BY <4>1, <4>2, CellSizes
        <4>3. CASE a = "y"
          BY <4>1, <4>3, CellSizes
        <4>. QED  BY <4>2, <4>3 DEF Axes
      <3>. QED  BY <3>1, <3>2, <3>3
    <2>2. View[a] * ZoomUnit \in Int
      BY <1>1
    <2>. HIDE DEF c
    <2>. QED  BY <1>2, <2>1, <2>2, DivExact
  <1>. DEFINE f == (View[a] * ZoomUnit) \div c
              w == View[a] * ZoomUnit
  <1>5. w \in Nat \ {0}
    BY <1>1
  <1>6. f \in Int /\ c * f = w
    <2>1. f \in Int
      <3>. HIDE DEF c, w
      <3>. SUFFICES w \div c \in Int
        BY DEF w
      <3>. QED  BY <1>2, <1>5, DivBounds
    <2>. QED  BY <1>4, <2>1
  <1>. HIDE DEF c
  <1>7. f <= ZoomUnit
    \* the content at zoom 1 is no smaller than the view
    <2>1. View[a] <= c
      <3>1. CASE a = "y" /\ ~(View.y >= MinRowH * dims.y)
        <4>1. c = MinRowH * dims.y
          BY <3>1, CellSizes DEF c
        <4>. QED  BY <1>1, <1>2, <3>1, <4>1
      <3>2. CASE ~(a = "y" /\ ~(View.y >= MinRowH * dims.y))
        <4>1. c = dims[a] * CellSize(a)
          BY <1>1 DEF c
        <4>2. CASE a = "x"
          BY <1>1, <4>1, <4>2, CellSizes
        <4>3. CASE a = "y"
          BY <1>1, <3>2, <4>1, <4>3, CellSizes
        <4>. QED  BY <4>2, <4>3 DEF Axes
      <3>. QED  BY <3>1, <3>2
    <2>2. w <= c * ZoomUnit
      BY <1>1, <1>2, <2>1, ProductMonotone
    <2>3. CASE ZoomUnit < f
      <3>1. ZoomUnit + 1 <= f
        BY <1>1, <1>6, <2>3
      <3>2. (ZoomUnit + 1) * c <= f * c
        <4>. HIDE DEF f
        <4>. QED  BY <1>1, <1>2, <1>6, <3>1, ProductMonotone
      <3>3. (ZoomUnit + 1) * c = c * ZoomUnit + c
        BY <1>1, <1>2
      <3>4. f * c = c * f
        <4>. HIDE DEF f
        <4>. QED  BY <1>2, <1>6
      <3>5. c * ZoomUnit \in Int
        BY <1>1, <1>2
      <3>. HIDE DEF f, w
      <3>. QED  BY <1>2, <1>5, <1>6, <2>2, <3>2, <3>3, <3>4, <3>5
    <2>. HIDE DEF f, w
    <2>. QED  BY <1>1, <1>6, <2>3
  <1>8. f <= Fit(a)
    <2>1. Fit(a) = Bounded(f, MinZoom, MaxZoom)
      BY <1>2, <1>3 DEF Fit
    <2>2. ZoomUnit <= MaxZoom /\ MinZoom \in Int /\ MaxZoom \in Int
      BY ViewportAssumption
    <2>. HIDE DEF f
    <2>. QED  BY <1>1, <1>6, <1>7, <2>1, <2>2 DEF Bounded
  <1>9. Fit(a) \in Int
    BY FitInBand
  <1>10. f <= z
    <2>. HIDE DEF f
    <2>. QED  BY <1>6, <1>8, <1>9
  <1>11. f * c <= z * c /\ f * c = c * f /\ z * c = c * z /\ c * z \in Nat
    <2>. HIDE DEF f
    <2>. QED  BY <1>2, <1>6, <1>10, ProductMonotone
  <1>. HIDE DEF f, w
  <1>12. w <= c * z
    BY <1>6, <1>11
  <1>. QED  BY <1>3, <1>11, <1>12 DEF w

(* What is shown is typed, and fills the view.                             *)
LEMMA ShownTyped ==
    ASSUME ViewportTypeOK, NEW a \in Axes
    PROVE  /\ Shown[a].zoom \in MinZoom..MaxZoom /\ Shown[a].zoom \in Nat \ {0}
           /\ Fit(a) <= Shown[a].zoom
           /\ Shown[a].origin \in 0..OriginUnit
           /\ Shown[a] = [zoom |-> Shown[a].zoom, origin |-> Shown[a].origin]
           /\ Shown \in [Axes -> [zoom : MinZoom..MaxZoom, origin : 0..OriginUnit]]
  <1>1. dims \in Dims
        /\ viewport \in [Axes -> [zoom : MinZoom..MaxZoom, origin : 0..OriginUnit]]
    BY DEF ViewportTypeOK
  <1>2. \A b \in Axes : Fit(b) \in MinZoom..MaxZoom
    BY <1>1, FitInBand
  <1>3. MinZoom \in Nat \ {0} /\ MaxZoom \in Nat
    BY <1>1, FitInBand
  <1>. DEFINE raised(b) == IF viewport[b].zoom < Fit(b) THEN Fit(b) ELSE viewport[b].zoom
  <1>4. \A b \in Axes : /\ raised(b) \in MinZoom..MaxZoom /\ Fit(b) <= raised(b)
    BY <1>1, <1>2, <1>3
  <1>5. \A b \in Axes : Shown[b] = [viewport[b] EXCEPT !.zoom = raised(b)]
    BY DEF Shown
  <1>6. Shown = [b \in Axes |-> Shown[b]]
    BY DEF Shown
  <1>. HIDE DEF raised
  <1>7. \A b \in Axes : /\ Shown[b] = [zoom |-> raised(b), origin |-> viewport[b].origin]
                        /\ viewport[b].origin \in 0..OriginUnit
    BY <1>1, <1>5
  <1>8. Shown \in [Axes -> [zoom : MinZoom..MaxZoom, origin : 0..OriginUnit]]
    <2>. DEFINE V == [zoom : MinZoom..MaxZoom, origin : 0..OriginUnit]
    <2>1. ASSUME NEW b \in Axes PROVE Shown[b] \in V
      <3>1. PICK z \in MinZoom..MaxZoom, o \in 0..OriginUnit :
               Shown[b] = [zoom |-> z, origin |-> o]
        BY <1>4, <1>7
      <3>. QED  BY <3>1
    <2>. HIDE DEF V
    <2>2. [b \in Axes |-> Shown[b]] \in [Axes -> V]
      BY <2>1
    <2>3. Shown \in [Axes -> V]
      BY <1>6, <2>2, Zenon
    <2>. QED  BY <2>3 DEF V
  <1>9. Shown[a].zoom = raised(a) /\ Shown[a].origin = viewport[a].origin
    <2>1. Shown[a] = [zoom |-> raised(a), origin |-> viewport[a].origin]
      BY <1>7
    <2>. QED  BY <2>1
  <1>. QED  BY <1>3, <1>4, <1>7, <1>8, <1>9

(* How far the content is scrolled: never beyond its end.                  *)
LEMMA ScrolledInside ==
    ASSUME dims \in Dims, NEW a \in Axes, NEW v \in [zoom : Nat, origin : 0..OriginUnit]
    PROVE  /\ Content(a, v.zoom) \in Nat
           /\ MaxScroll(a, v) \in Nat
           /\ Offset(a, v) \in Nat
           /\ Offset(a, v) <= OriginUnit * MaxScroll(a, v)
           /\ MaxScroll(a, v) > 0
                 => MaxScroll(a, v) = Content(a, v.zoom) - View[a] * ZoomUnit
           /\ MaxScroll(a, v) = 0 => Content(a, v.zoom) <= View[a] * ZoomUnit
  <1>1. /\ View[a] \in Nat /\ ZoomUnit \in Nat /\ CellSize(a) \in Nat /\ dims[a] \in Nat
        /\ OriginUnit \in Nat /\ v.zoom \in Nat /\ v.origin \in 0..OriginUnit
    BY CellSizes, FitInBand, ViewportAssumption
  <1>2. Content(a, v.zoom) \in Nat /\ View[a] * ZoomUnit \in Nat
    <2>1. CellSize(a) * dims[a] \in Nat
      BY <1>1
    <2>. QED  BY <1>1, <2>1 DEF Content
  <1>3. PICK w \in Nat : w = View[a] * ZoomUnit
    BY <1>2
  <1>4. MaxScroll(a, v) = IF Content(a, v.zoom) - w > 0 THEN Content(a, v.zoom) - w ELSE 0
    BY <1>3 DEF MaxScroll
  <1>5. MaxScroll(a, v) \in Nat
    BY <1>2, <1>4
  <1>6. v.origin * MaxScroll(a, v) \in Nat
        /\ v.origin * MaxScroll(a, v) <= OriginUnit * MaxScroll(a, v)
    BY <1>1, <1>5, ProductMonotone
  <1>. QED  BY <1>2, <1>3, <1>4, <1>5, <1>6 DEF Offset

(* Of a zoom about a pixel.                                                *)
ContentAt(a, v, at) == Offset(a, v) + at * Scale
Kept(a, v, at, zoom) == (ContentAt(a, v, at) * zoom) \div v.zoom - at * Scale
ScrollAfter(a, v, zoom) == MaxScroll(a, [v EXCEPT !.zoom = zoom])

LEMMA ZoomedTyped ==
    ASSUME dims \in Dims, NEW a \in Axes,
           NEW v \in [zoom : Nat \ {0}, origin : 0..OriginUnit],
           NEW at \in Nat, NEW zoom \in Nat \ {0}
    PROVE  /\ Scale \in Nat \ {0} /\ ContentAt(a, v, at) \in Nat
           /\ Kept(a, v, at, zoom) \in Int
           /\ ScrollAfter(a, v, zoom) \in Nat
           /\ Zoomed(a, v, at, zoom).zoom = zoom
           /\ Zoomed(a, v, at, zoom) \in [zoom : {zoom}, origin : 0..OriginUnit]
           /\ Zoomed(a, v, at, zoom).origin =
                 IF ScrollAfter(a, v, zoom) > 0
                 THEN Bounded(RoundDiv(Kept(a, v, at, zoom), ScrollAfter(a, v, zoom)),
                            0, OriginUnit)
                 ELSE 0
  <1>1. PICK z \in Nat \ {0}, o \in 0..OriginUnit : v = [zoom |-> z, origin |-> o]
    OBVIOUS
  <1>2. OriginUnit \in Nat \ {0} /\ ZoomUnit \in Nat \ {0}
    BY ViewportAssumption
  <1>3. Scale \in Nat \ {0}
    BY <1>2 DEF Scale
  <1>4. v \in [zoom : Nat, origin : 0..OriginUnit]
    BY <1>1
  <1>5. Offset(a, v) \in Nat
    BY <1>4, ScrolledInside
  <1>6. at * Scale \in Nat
    BY <1>3
  <1>7. ContentAt(a, v, at) \in Nat
    BY <1>5, <1>6 DEF ContentAt
  <1>8. PICK c \in Nat : c = ContentAt(a, v, at) * zoom
    BY <1>7
  <1>9. c \div z \in Int
    BY DivBounds
  <1>10. Kept(a, v, at, zoom) \in Int
    BY <1>1, <1>6, <1>8, <1>9 DEF Kept
  <1>. DEFINE after == [v EXCEPT !.zoom = zoom]
  <1>11. after = [zoom |-> zoom, origin |-> o]
    BY <1>1
  <1>12. ScrollAfter(a, v, zoom) \in Nat
    <2>1. after \in [zoom : Nat, origin : 0..OriginUnit]
      BY <1>11
    <2>. HIDE DEF after
    <2>2. MaxScroll(a, after) \in Nat
      BY <2>1, ScrolledInside
    <2>. QED  BY <2>2 DEF ScrollAfter, after
  <1>. DEFINE n == IF ScrollAfter(a, v, zoom) > 0
                   THEN Bounded(RoundDiv(Kept(a, v, at, zoom), ScrollAfter(a, v, zoom)),
                              0, OriginUnit)
                   ELSE 0
  <1>13. Zoomed(a, v, at, zoom) = [after EXCEPT !.origin = n]
    BY DEF Zoomed, ScrollAfter, Kept, ContentAt
  <1>14. n \in 0..OriginUnit
    <2>1. CASE ScrollAfter(a, v, zoom) > 0
      <3>1. PICK k \in Int, scroll \in Nat \ {0} :
               k = Kept(a, v, at, zoom) /\ scroll = ScrollAfter(a, v, zoom)
        <4>. HIDE DEF after, n
        <4>. QED  BY <1>10, <1>12, <2>1
      <3>2. RoundDiv(k, scroll) \in Int
        BY RoundDivBounds
      <3>3. \A r \in Int : Bounded(r, 0, OriginUnit) \in 0..OriginUnit
        <4>1. 0 \in Int /\ OriginUnit \in Int /\ 0 <= OriginUnit
          BY <1>2
        <4>. QED  BY <4>1, ClampBounds
      <3>4. n = Bounded(RoundDiv(k, scroll), 0, OriginUnit)
        BY <2>1, <3>1
      <3>. HIDE DEF n, after
      <3>. QED  BY <3>2, <3>3, <3>4
    <2>2. CASE ~(ScrollAfter(a, v, zoom) > 0)
      BY <1>2, <2>2
    <2>. QED  BY <2>1, <2>2
  <1>. HIDE DEF n, after
  <1>15. Zoomed(a, v, at, zoom) = [zoom |-> zoom, origin |-> n]
    BY <1>11, <1>13
  <1>. QED  BY <1>3, <1>7, <1>10, <1>12, <1>14, <1>15 DEF n

LEMMA TurnedInBand ==
    ASSUME ViewportTypeOK, NEW a \in Axes, NEW up \in BOOLEAN
    PROVE  Turned(a, up) \in MinZoom..MaxZoom /\ Turned(a, up) \in Nat \ {0}
  <1>1. dims \in Dims
    BY DEF ViewportTypeOK
  <1>2. /\ Fit(a) \in MinZoom..MaxZoom
        /\ MinZoom \in Nat \ {0} /\ MaxZoom \in Nat
    BY <1>1, FitInBand
  <1>3. PICK z \in Nat \ {0} : z = Shown[a].zoom
    BY ShownTyped
  <1>4. Notch \in Nat \ {0}
    BY ViewportAssumption
  <1>5. z * Notch \in Int /\ z \div Notch \in Int
    BY <1>4, DivBounds
  <1>. DEFINE n == IF up THEN Shown[a].zoom * Notch ELSE Shown[a].zoom \div Notch
  <1>6. n \in Int
    BY <1>3, <1>5
  <1>7. Turned(a, up) = Bounded(n, Fit(a), MaxZoom)
    BY Zenon DEF Turned
  <1>. HIDE DEF n
  <1>8. Bounded(n, Fit(a), MaxZoom) \in Fit(a)..MaxZoom
    <2>1. Fit(a) \in Int /\ MaxZoom \in Int /\ Fit(a) <= MaxZoom
      BY <1>2
    <2>. QED  BY <1>6, <2>1, ClampBounds
  <1>. QED  BY <1>2, <1>7, <1>8

-----------------------------------------------------------------------------
(* The theorems of the viewport.                                           *)
Seen == [zoom : MinZoom..MaxZoom, origin : 0..OriginUnit]

LEMMA SeenIsTyped ==
    ASSUME dims \in Dims
    PROVE  \A v \in Seen : v \in [zoom : Nat \ {0}, origin : 0..OriginUnit]
  <1>1. dims.x > 0 /\ "x" \in Axes
    BY CellSizes DEF Axes
  <1>2. MinZoom..MaxZoom \subseteq Nat \ {0}
    BY <1>1, FitInBand
  <1>. QED  BY <1>2 DEF Seen

LEMMA OriginTyped ==
    ASSUME ViewportTypeOK, NEW a \in Axes, NEW n \in Int, Origin(a, n)
    PROVE  viewport' \in [Axes -> Seen]
  <1>1. Shown \in [Axes -> Seen]
    BY ShownTyped DEF Seen
  <1>2. Bounded(n, 0, OriginUnit) \in 0..OriginUnit
    <2>1. 0 \in Int /\ OriginUnit \in Int /\ 0 <= OriginUnit
      BY ViewportAssumption
    <2>. QED  BY <2>1, ClampBounds
  <1>3. PICK o \in 0..OriginUnit : o = Bounded(n, 0, OriginUnit)
    BY <1>2
  <1>4. viewport' = [Shown EXCEPT ![a].origin = o]
    BY <1>3 DEF Origin
  <1>5. [Shown[a] EXCEPT !.origin = o] \in Seen
    BY <1>1 DEF Seen
  <1>. QED  BY <1>1, <1>4, <1>5

LEMMA PannedTyped ==
    ASSUME dims \in Dims, NEW a \in Axes, NEW v \in Seen, NEW d \in Int
    PROVE  Panned(a, v, d) \in Seen
  <1>1. v \in [zoom : Nat \ {0}, origin : 0..OriginUnit]
    BY SeenIsTyped
  <1>2. MaxScroll(a, v) \in Nat
    <2>1. v \in [zoom : Nat, origin : 0..OriginUnit]
      BY <1>1
    <2>. QED  BY <2>1, ScrolledInside
  <1>3. CASE MaxScroll(a, v) > 0
    <2>1. PICK s \in Nat \ {0} : s = MaxScroll(a, v)
      BY <1>2, <1>3
    <2>2. d * Scale \in Int /\ 0 \in Int /\ OriginUnit \in Int /\ 0 <= OriginUnit
      BY ViewportAssumption DEF Scale
    <2>3. RoundDiv(d * Scale, s) \in Int
      BY <2>2, RoundDivBounds
    <2>4. v.origin - RoundDiv(d * Scale, s) \in Int
      BY <1>1, <2>3
    <2>5. PICK o \in 0..OriginUnit :
             o = Bounded(v.origin - RoundDiv(d * Scale, s), 0, OriginUnit)
      BY <2>2, <2>4, ClampBounds
    <2>6. Panned(a, v, d) = [v EXCEPT !.origin = o]
      BY <1>3, <2>1, <2>5 DEF Panned
    <2>. QED  BY <2>6 DEF Seen
  <1>4. CASE ~(MaxScroll(a, v) > 0)
    BY <1>4 DEF Panned
  <1>. QED  BY <1>3, <1>4

(* The knob never is longer than its track.                                *)
LEMMA TrackTyped ==
    ASSUME dims \in Dims, NEW a \in Axes, NEW v \in Seen, Scrollable(a, v)
    PROVE  KnobLength(a, v) \in Nat /\ Travel(a, v) \in Nat
  <1>1. v \in [zoom : Nat, origin : 0..OriginUnit]
    BY SeenIsTyped
  <1>2. /\ View[a] \in Nat \ {0} /\ ZoomUnit \in Nat \ {0}
        /\ MinKnob \in 0..View[a]
    <2>1. MinKnob \in 0..View.x /\ MinKnob \in 0..View.y
      BY ViewportAssumption
    <2>. QED  BY <2>1, CellSizes, FitInBand DEF Axes
  <1>3. Content(a, v.zoom) \in Nat \ {0}
    <2>1. Content(a, v.zoom) \in Nat
      BY <1>1, ScrolledInside
    <2>2. View[a] * ZoomUnit < Content(a, v.zoom) /\ View[a] * ZoomUnit \in Nat
      BY <1>2 DEF Scrollable
    <2>. QED  BY <2>1, <2>2
  <1>4. View[a] * View[a] * ZoomUnit \in Int
    BY <1>2
  <1>. DEFINE n == (View[a] * View[a] * ZoomUnit) \div Content(a, v.zoom)
  <1>5. n \in Int
    <2>1. PICK p \in Int, c \in Nat \ {0} :
             p = View[a] * View[a] * ZoomUnit /\ c = Content(a, v.zoom)
      BY <1>3, <1>4
    <2>2. p \div c \in Int
      BY DivBounds
    <2>. QED  BY <2>1, <2>2
  <1>6. KnobLength(a, v) = Bounded(n, MinKnob, View[a])
    BY DEF KnobLength
  <1>. HIDE DEF n
  <1>7. KnobLength(a, v) \in MinKnob..View[a]
    <2>1. MinKnob \in Int /\ View[a] \in Int /\ MinKnob <= View[a]
      BY <1>2
    <2>. QED  BY <1>5, <1>6, <2>1, ClampBounds
  <1>. QED  BY <1>2, <1>7 DEF Travel

LEMMA ViewportStep == ViewportTypeOK /\ [ViewportNext]_viewportVars => ViewportTypeOK'
  <1>. SUFFICES ASSUME ViewportTypeOK, [ViewportNext]_viewportVars
                PROVE  ViewportTypeOK'
    OBVIOUS
  <1>. DEFINE Knobs == {NoDrag} \cup
                 [active : {TRUE}, axis : Axes, along : Pointers,
                  origin : 0..OriginUnit, travel : Nat]
  <1>1. dims \in Dims /\ viewport \in [Axes -> Seen] /\ knob \in Knobs
    BY DEF ViewportTypeOK, Seen
  <1>2. Shown \in [Axes -> Seen]
    BY ShownTyped DEF Seen, Axes
  <1>3. SUFFICES dims' \in Dims /\ viewport' \in [Axes -> Seen] /\ knob' \in Knobs
    BY DEF ViewportTypeOK, Seen
  <1>4. Pointers \subseteq Nat
    BY ViewportAssumption
  <1>5. ASSUME NEW x \in Pointers, NEW y \in Pointers, NEW up \in BOOLEAN, Wheel(x, y, up)
        PROVE  dims' \in Dims /\ viewport' \in [Axes -> Seen] /\ knob' \in Knobs
    <2>1. PICK zoom \in [Axes -> MinZoom..MaxZoom], at \in [Axes -> Nat] :
             viewport' = [a \in Axes |-> Zoomed(a, Shown[a], at[a], zoom[a])]
      <3>. DEFINE locked == CASE Zone(x, y) = "horizontalBar" -> {"y"}
                              [] Zone(x, y) = "verticalBar" -> {"x"}
                              [] OTHER -> {}
                  to == [a \in Axes |-> IF a \in locked THEN Shown[a].zoom
                                        ELSE Turned(a, up)]
                  pixel == [a \in Axes |-> IF a = "x" THEN x ELSE y]
      <3>1. viewport' = [a \in Axes |-> Zoomed(a, Shown[a], pixel[a], to[a])]
        <4>1. \A a \in Axes : [x |-> x, y |-> y][a] = pixel[a]
          BY DEF Axes
        <4>2. viewport' = [a \in Axes |-> Zoomed(a, Shown[a], [x |-> x, y |-> y][a],
                                                 IF a \in locked THEN Shown[a].zoom
                                                 ELSE Turned(a, up))]
          BY <1>5, Zenon DEF Wheel
        <4>3. \A a \in Axes : to[a] = IF a \in locked THEN Shown[a].zoom
                                      ELSE Turned(a, up)
          OBVIOUS
        <4>. HIDE DEF pixel, to, locked
        <4>. QED  BY <4>1, <4>2, <4>3, Zenon
      <3>2. pixel \in [Axes -> Nat]
        BY <1>4
      <3>3. to \in [Axes -> MinZoom..MaxZoom]
        <4>1. \A a \in Axes : Shown[a].zoom \in MinZoom..MaxZoom
                              /\ Turned(a, up) \in MinZoom..MaxZoom
          BY ShownTyped, TurnedInBand
        <4>. HIDE DEF locked
        <4>. QED  BY <4>1
      <3>. HIDE DEF pixel, to
      <3>. QED  BY <3>1, <3>2, <3>3
    <2>2. ASSUME NEW a \in Axes PROVE Zoomed(a, Shown[a], at[a], zoom[a]) \in Seen
      <3>1. PICK z \in MinZoom..MaxZoom : z = zoom[a]
        OBVIOUS
      <3>2. z \in Nat \ {0}
        BY <1>1, FitInBand
      <3>3. Shown[a] \in [zoom : Nat \ {0}, origin : 0..OriginUnit]
        BY <1>1, <1>2, SeenIsTyped
      <3>4. Zoomed(a, Shown[a], at[a], z) \in [zoom : {z}, origin : 0..OriginUnit]
        BY <1>1, <3>2, <3>3, ZoomedTyped
      <3>. QED  BY <3>1, <3>4 DEF Seen
    <2>3. viewport' \in [Axes -> Seen]
      BY <2>1, <2>2
    <2>. QED  BY <1>1, <1>5, <2>3 DEF Wheel
  <1>6. ASSUME NEW dx \in {-3, 0, 3}, NEW dy \in {-3, 0, 3}, Pan(dx, dy)
        PROVE  dims' \in Dims /\ viewport' \in [Axes -> Seen] /\ knob' \in Knobs
    <2>1. Panned("x", Shown.x, dx) \in Seen /\ Panned("y", Shown.y, dy) \in Seen
      <3>1. Shown.x \in Seen /\ Shown.y \in Seen /\ "x" \in Axes /\ "y" \in Axes
        BY <1>2 DEF Axes
      <3>. QED  BY <1>1, <3>1, PannedTyped
    <2>2. \A p, q \in Seen : [x |-> p, y |-> q] \in [Axes -> Seen]
      BY DEF Axes
    <2>3. viewport' \in [Axes -> Seen]
      BY <1>6, <2>1, <2>2 DEF Pan
    <2>. QED  BY <1>1, <1>6, <2>3 DEF Pan
  <1>7. ASSUME NEW a \in Axes, NEW x \in Pointers, NEW y \in Pointers, PressBar(a, x, y)
        PROVE  dims' \in Dims /\ viewport' \in [Axes -> Seen] /\ knob' \in Knobs
    <2>. DEFINE v == Shown[a]
                along == IF a = "x" THEN x ELSE y
    <2>1. v \in Seen /\ along \in Pointers /\ along \in Nat
      BY <1>2, <1>4
    <2>2. Scrollable(a, v) /\ dims' = dims
      BY <1>7 DEF PressBar
    <2>3. KnobLength(a, v) \in Nat /\ Travel(a, v) \in Nat
      <3>. HIDE DEF v
      <3>. QED  BY <1>1, <2>1, <2>2, TrackTyped
    <2>. DEFINE n == IF Travel(a, v) = 0 THEN 0
                     ELSE RoundDiv((2 * along - KnobLength(a, v)) * OriginUnit,
                                   2 * Travel(a, v))
    <2>4. CASE /\ knob' = [active |-> TRUE, axis |-> a, along |-> along,
                           origin |-> v.origin, travel |-> Travel(a, v)]
               /\ UNCHANGED viewport
      <3>1. v.origin \in 0..OriginUnit
        BY <2>1 DEF Seen
      <3>. HIDE DEF v, along
      <3>2. knob' \in [active : {TRUE}, axis : Axes, along : Pointers,
                       origin : 0..OriginUnit, travel : Nat]
        BY <2>1, <2>3, <2>4, <3>1
      <3>. QED  BY <1>1, <2>2, <2>4, <3>2
    <2>5. CASE Origin(a, n) /\ UNCHANGED knob
      <3>1. n \in Int
        <4>1. CASE Travel(a, v) = 0
          BY <4>1
        <4>2. CASE Travel(a, v) # 0
          <5>1. PICK p \in Int, q \in Nat \ {0} :
                   /\ p = (2 * along - KnobLength(a, v)) * OriginUnit
                   /\ q = 2 * Travel(a, v)
            <6>1. OriginUnit \in Nat
              BY ViewportAssumption
            <6>. HIDE DEF v, along
            <6>. QED  BY <2>1, <2>3, <4>2, <6>1
          <5>2. RoundDiv(p, q) \in Int
            BY RoundDivBounds
          <5>. QED  BY <4>2, <5>1, <5>2
        <4>. QED  BY <4>1, <4>2
      <3>. HIDE DEF n
      <3>2. viewport' \in [Axes -> Seen]
        BY <2>5, <3>1, OriginTyped
      <3>. QED  BY <1>1, <2>2, <2>5, <3>2
    <2>. QED  BY <1>7, <2>4, <2>5 DEF PressBar
  <1>8. ASSUME NEW along \in Pointers, DragKnob(along)
        PROVE  dims' \in Dims /\ viewport' \in [Axes -> Seen] /\ knob' \in Knobs
    <2>1. knob.active /\ UNCHANGED <<dims, knob>>
      BY <1>8 DEF DragKnob
    <2>2. knob \in [active : {TRUE}, axis : Axes, along : Pointers,
                    origin : 0..OriginUnit, travel : Nat]
      <3>1. knob # NoDrag
        BY <2>1 DEF NoDrag
      <3>. QED  BY <1>1, <3>1
    <2>. DEFINE n == IF knob.travel = 0 THEN knob.origin
                     ELSE knob.origin + RoundDiv((along - knob.along) * OriginUnit,
                                                 knob.travel)
    <2>3. n \in Int
      <3>1. /\ knob.travel \in Nat /\ knob.origin \in Int /\ knob.along \in Nat
            /\ along \in Nat /\ OriginUnit \in Nat
        <4>1. OriginUnit \in Nat
          BY ViewportAssumption
        <4>2. knob.travel \in Nat /\ knob.origin \in 0..OriginUnit /\ knob.along \in Pointers
          BY <2>2
        <4>3. knob.along \in Nat /\ along \in Nat
          BY <1>4, <4>2
        <4>4. knob.origin \in Int
          BY <4>1, <4>2
        <4>. QED  BY <4>1, <4>2, <4>3, <4>4
      <3>2. CASE knob.travel = 0
        BY <3>1, <3>2
      <3>3. CASE knob.travel # 0
        <4>1. PICK p \in Int, q \in Nat \ {0} :
                 p = (along - knob.along) * OriginUnit /\ q = knob.travel
          BY <3>1, <3>3
        <4>2. RoundDiv(p, q) \in Int
          BY RoundDivBounds
        <4>. QED  BY <3>1, <3>3, <4>1, <4>2
      <3>. QED  BY <3>2, <3>3
    <2>4. Origin(knob.axis, n)
      BY <1>8 DEF DragKnob
    <2>5. knob.axis \in Axes
      BY <2>2
    <2>. HIDE DEF n
    <2>6. viewport' \in [Axes -> Seen]
      BY <2>3, <2>4, <2>5, OriginTyped
    <2>. QED  BY <1>1, <2>1, <2>6
  <1>9. CASE ReleaseKnob
    BY <1>1, <1>9 DEF ReleaseKnob
  <1>10. ASSUME NEW d \in Dims, Redimension(d)
         PROVE  dims' \in Dims /\ viewport' \in [Axes -> Seen] /\ knob' \in Knobs
    BY <1>1, <1>10 DEF Redimension
  <1>11. CASE UNCHANGED viewportVars
    BY <1>1, <1>11 DEF viewportVars
  <1>. HIDE DEF Knobs
  <1>. QED  BY <1>5, <1>6, <1>7, <1>8, <1>9, <1>10, <1>11 DEF ViewportNext

(* Zooms stay in their band and origins between the ends of the content,   *)
(* whatever is turned, dragged or resized: clampSequencerViewport.         *)
THEOREM ViewportTypes == ViewportSpec => []ViewportTypeOK
  <1>1. ViewportInit => ViewportTypeOK
    <2>. SUFFICES ASSUME ViewportInit PROVE ViewportTypeOK
      OBVIOUS
    <2>1. ZoomUnit \in MinZoom..MaxZoom /\ 0 \in 0..OriginUnit
          /\ OriginUnit \in 0..OriginUnit
      BY ViewportAssumption
    <2>2. \A p, q \in Seen : [x |-> p, y |-> q] \in [Axes -> Seen]
      BY DEF Axes
    <2>3. /\ [zoom |-> ZoomUnit, origin |-> 0] \in Seen
          /\ [zoom |-> ZoomUnit, origin |-> OriginUnit] \in Seen
      BY <2>1 DEF Seen
    <2>4. viewport \in [Axes -> Seen]
      BY <2>2, <2>3 DEF ViewportInit
    <2>. QED  BY <2>4 DEF ViewportInit, ViewportTypeOK, Seen
  <1>. QED  BY <1>1, ViewportStep, PTL DEF ViewportSpec

(* The visible stretch of an axis lies within the content, in fine units.  *)
LEMMA VisibleInside ==
    ASSUME ViewportTypeOK, dims.y > 0, NEW a \in Axes, NEW p \in 0..(View[a] - 1)
    PROVE  /\ Cell(a, Shown[a]) \in Nat \ {0}
           /\ dims[a] \in Nat \ {0}
           /\ p * Scale \in Nat /\ Offset(a, Shown[a]) \in Nat
           /\ p * Scale + Offset(a, Shown[a]) < dims[a] * Cell(a, Shown[a])
  <1>. DEFINE v == Shown[a]
              o == Offset(a, v)
              m == MaxScroll(a, v)
              c == Content(a, v.zoom)
              w == View[a] * ZoomUnit
  <1>1. /\ dims \in Dims /\ OriginUnit \in Nat \ {0} /\ ZoomUnit \in Nat \ {0}
        /\ View[a] \in Nat \ {0} /\ CellSize(a) \in Nat \ {0} /\ dims[a] \in Nat \ {0}
    BY CellSizes, ViewportAssumption DEF ViewportTypeOK
  <1>2. v.zoom \in Nat \ {0} /\ Fit(a) <= v.zoom /\ v \in Seen
    BY ShownTyped DEF Seen
  <1>3. v \in [zoom : Nat, origin : 0..OriginUnit]
    BY <1>1, <1>2, SeenIsTyped
  <1>. HIDE DEF v
  <1>4. /\ o \in Nat /\ m \in Nat /\ c \in Nat
        /\ o <= OriginUnit * m
        /\ m > 0 => m = c - w
        /\ w <= c
    BY <1>1, <1>2, <1>3, ScrolledInside, FitFills
  <1>5. w \in Nat
    BY <1>1
  <1>6. m = c - w
    <2>1. m = 0 => c <= w
      BY <1>1, <1>3, ScrolledInside
    <2>. HIDE DEF m, c, w, o
    <2>. QED  BY <1>4, <1>5, <2>1
  <1>7. Scale \in Nat \ {0} /\ Scale = ZoomUnit * OriginUnit
    BY <1>1 DEF Scale
  <1>8. p * Scale \in Nat /\ (p + 1) * Scale <= View[a] * Scale
    BY <1>1, <1>7, ProductMonotone
  <1>9. (p + 1) * Scale = p * Scale + Scale
    BY <1>1, <1>7
  <1>10. View[a] * Scale = OriginUnit * w
    BY <1>1, <1>7
  <1>. HIDE DEF m, c, w, o
  <1>11. OriginUnit * w \in Nat /\ OriginUnit * m = OriginUnit * c - OriginUnit * w
    BY <1>1, <1>4, <1>5, <1>6
  <1>12. p * Scale + o < OriginUnit * c
    <2>1. OriginUnit * c \in Nat /\ OriginUnit * m \in Nat
      BY <1>1, <1>4
    <2>. QED  BY <1>4, <1>7, <1>8, <1>9, <1>10, <1>11, <2>1
  <1>13. Cell(a, v) \in Nat \ {0} /\ OriginUnit * c = dims[a] * Cell(a, v)
    <2>1. PICK k \in Nat \ {0}, z \in Nat \ {0} : k = CellSize(a) /\ z = v.zoom
      BY <1>1, <1>2
    <2>2. Cell(a, v) = k * z * OriginUnit /\ c = k * dims[a] * z
      BY <2>1 DEF Cell, c, Content
    <2>3. k * z \in Nat \ {0}
      OBVIOUS
    <2>4. k * z * OriginUnit \in Nat \ {0}
      BY <1>1, <2>3
    <2>5. OriginUnit * (k * dims[a] * z) = dims[a] * (k * z * OriginUnit)
      BY <1>1
    <2>. QED  BY <2>2, <2>4, <2>5
  <1>. QED  BY <1>1, <1>4, <1>8, <1>12, <1>13 DEF v, o

(* A pixel of the view hits the cell that is drawn there, on an edge of    *)
(* two rows one of the two, and only the line of the topmost edge may hit  *)
(* none: sequencerColumnFromX and sequencerRowFromY against                *)
(* sequencerColumnX and sequencerRowBottom.                                *)
THEOREM PixelsHit == ViewportSpec => []PixelHitsDrawnCell
  <1>1. ViewportTypeOK => PixelHitsDrawnCell
    <2>. SUFFICES ASSUME ViewportTypeOK, dims.y > 0 PROVE PixelHitsDrawnCell
      BY DEF PixelHitsDrawnCell
    <2>1. ASSUME NEW x \in 0..(View.x - 1)
          PROVE  /\ ColumnAt(x) >= 0
                 /\ ColumnLeft(ColumnAt(x)) <= x * Scale
                 /\ x * Scale < ColumnLeft(ColumnAt(x) + 1)
      <3>1. PICK c \in Nat \ {0}, n \in Nat \ {0}, o \in Nat, s \in Nat :
               /\ c = Cell("x", Shown.x) /\ n = dims.x
               /\ o = Offset("x", Shown.x) /\ s = x * Scale
               /\ s + o < n * c
        BY VisibleInside DEF Axes
      <3>. DEFINE col == (s + o) \div c
      <3>2. col \in Int /\ col * c <= s + o /\ s + o < col * c + c
        BY DivBounds
      <3>. HIDE DEF col
      <3>3. (col + 1) * c = col * c + c /\ 0 * c = 0 /\ col * c \in Int
        BY <3>2
      <3>4. col < n
        <4>1. col * c < n * c
          BY <3>1, <3>2, <3>3
        <4>. QED  BY <3>2, <4>1, ProductReflects
      <3>5. col >= 0
        <4>1. 0 * c < (col + 1) * c
          BY <3>2, <3>3
        <4>2. 0 < col + 1
          BY <3>2, <4>1, ProductReflects
        <4>. QED  BY <3>2, <4>2
      <3>6. ColumnAt(x) = col
        <4>1. x >= 0
          OBVIOUS
        <4>. QED  BY <3>1, <3>4, <4>1 DEF ColumnAt, col
      <3>7. ColumnLeft(col) = col * c - o /\ ColumnLeft(col + 1) = (col + 1) * c - o
        BY <3>1 DEF ColumnLeft
      <3>. QED  BY <3>1, <3>2, <3>3, <3>5, <3>6, <3>7
    <2>2. ASSUME NEW y \in 0..(View.y - 1)
          PROVE  IF RowAt(y) < 0 THEN y * Scale = RowBottom(dims.y)
                 ELSE RowBottom(RowAt(y) + 1) <= y * Scale
                         /\ y * Scale <= RowBottom(RowAt(y))
      <3>1. PICK c \in Nat \ {0}, n \in Nat \ {0}, o \in Nat, s \in Nat :
               /\ c = Cell("y", Shown.y) /\ n = dims.y
               /\ o = Offset("y", Shown.y) /\ s = y * Scale
               /\ s + o < n * c
        BY VisibleInside DEF Axes
      <3>. DEFINE below == n * c - (s + o)
                  row == below \div c
      <3>2. below \in Nat \ {0} /\ below <= n * c
        <4>1. n * c \in Nat
          OBVIOUS
        <4>. QED  BY <3>1, <4>1
      <3>3. row \in Int /\ row * c <= below /\ below < row * c + c
        <4>. HIDE DEF below
        <4>. QED  BY <3>2, DivBounds
      <3>4. RowAt(y) = IF row < n THEN row ELSE -1
        <4>1. y >= 0 /\ y < View.y
          <5>1. View.y \in Nat
            BY ViewportAssumption
          <5>. QED  BY <5>1
        <4>. QED  BY <3>1, <4>1 DEF RowAt
      <3>. HIDE DEF row
      <3>5. /\ (row + 1) * c = row * c + c /\ 0 * c = 0 /\ row * c \in Int
            /\ (n - row) * c = n * c - row * c
            /\ (n - (row + 1)) * c = n * c - (row * c + c)
            /\ (n - n) * c = 0
            /\ n * c \in Nat
        BY <3>3
      <3>6. row >= 0
        <4>1. 0 * c < (row + 1) * c
          BY <3>2, <3>3, <3>5
        <4>2. 0 < row + 1
          BY <3>3, <4>1, ProductReflects
        <4>. QED  BY <3>3, <4>2
      <3>7. \A r : RowBottom(r) = (n - r) * c - o
        BY <3>1 DEF RowBottom
      <3>8. CASE row < n
        <4>1. RowAt(y) = row
          BY <3>4, <3>8
        <4>2. RowBottom(row) = n * c - row * c - o
              /\ RowBottom(row + 1) = n * c - (row * c + c) - o
          BY <3>5, <3>7
        <4>. QED  BY <3>1, <3>2, <3>3, <3>5, <3>6, <4>1, <4>2
      <3>9. CASE ~(row < n)
        <4>1. n * c <= row * c
          BY <3>3, <3>9, ProductMonotone
        <4>2. s = 0 /\ o = 0
          <5>1. PICK q \in Int, t \in Int : q = row * c /\ t = n * c
            BY <3>5
          <5>2. t <= q /\ q <= t - (s + o)
            BY <3>3, <4>1, <5>1
          <5>. QED  BY <5>2
        <4>3. RowAt(y) = -1
          BY <3>4, <3>9
        <4>4. RowBottom(dims.y) = 0
          <5>1. RowBottom(n) = (n - n) * c - o
            BY <3>7
          <5>2. RowBottom(n) = 0
            BY <3>5, <4>2, <5>1
          <5>. QED  BY <3>1, <5>2
        <4>. QED  BY <3>1, <4>2, <4>3, <4>4
      <3>. QED  BY <3>8, <3>9
    <2>. QED  BY <2>1, <2>2 DEF PixelHitsDrawnCell
  <1>. QED  BY <1>1, ViewportTypes, PTL

(* A turn of the wheel keeps the content under the pointer in place, up to *)
(* the rounding of the origin, unless the end of the content stops it:     *)
(* zoomSequencerViewport.                                                  *)
THEOREM ZoomAnchored == ViewportSpec => []ZoomKeepsPointInPlace
  <1>1. ViewportTypeOK => ZoomKeepsPointInPlace
    <2>. SUFFICES ASSUME ViewportTypeOK, NEW a \in Axes, NEW pixel \in Pointers,
                         NEW up \in BOOLEAN
                  PROVE  LET at == pixel * Scale
                             old == Shown[a]
                             new == Zoomed(a, old, pixel, Turned(a, up))
                             moved == (Offset(a, old) + at) * new.zoom
                                          - (Offset(a, new) + at) * old.zoom
                             slack == MaxScroll(a, new) * old.zoom
                         IN  \/ new.origin = 0 \/ new.origin = OriginUnit
                             \/ -slack <= moved /\ moved <= slack
      BY Zenon DEF ZoomKeepsPointInPlace
    <2>. DEFINE old == Shown[a]
                zoom == Turned(a, up)
                new == Zoomed(a, old, pixel, zoom)
    <2>1. dims \in Dims /\ pixel \in Nat /\ OriginUnit \in Nat \ {0}
      BY ViewportAssumption DEF ViewportTypeOK
    <2>2. old \in [zoom : Nat \ {0}, origin : 0..OriginUnit]
      BY <2>1, ShownTyped, SeenIsTyped DEF Seen
    <2>3. zoom \in Nat \ {0}
      BY TurnedInBand
    <2>. HIDE DEF old, zoom
    <2>4. /\ Scale \in Nat \ {0} /\ ContentAt(a, old, pixel) \in Nat
          /\ Kept(a, old, pixel, zoom) \in Int
          /\ ScrollAfter(a, old, zoom) \in Nat
          /\ new.zoom = zoom
          /\ new \in [zoom : {zoom}, origin : 0..OriginUnit]
          /\ new.origin =
                IF ScrollAfter(a, old, zoom) > 0
                THEN Bounded(RoundDiv(Kept(a, old, pixel, zoom), ScrollAfter(a, old, zoom)),
                           0, OriginUnit)
                ELSE 0
      BY <2>1, <2>2, <2>3, ZoomedTyped
    <2>5. PICK z \in Nat \ {0} : z = old.zoom
      BY <2>2
    <2>6. MaxScroll(a, new) = ScrollAfter(a, old, zoom)
      <3>1. \A v : MaxScroll(a, v) =
                     IF Content(a, v.zoom) - View[a] * ZoomUnit > 0
                     THEN Content(a, v.zoom) - View[a] * ZoomUnit ELSE 0
        BY DEF MaxScroll
      <3>2. [old EXCEPT !.zoom = zoom].zoom = zoom
        BY <2>2
      <3>. HIDE DEF new
      <3>. QED  BY <2>4, <3>1, <3>2 DEF ScrollAfter
    <2>. HIDE DEF new
    <2>7. PICK at \in Nat, from \in Nat, k \in Int, m \in Nat :
             /\ at = pixel * Scale /\ from = ContentAt(a, old, pixel)
             /\ k = Kept(a, old, pixel, zoom) /\ m = MaxScroll(a, new)
      BY <2>1, <2>4, <2>6
    <2>8. Offset(a, old) + at = from
      BY <2>7 DEF ContentAt
    <2>9. CASE new.origin = 0 \/ new.origin = OriginUnit
      BY <2>9 DEF old, zoom, new
    <2>10. CASE new.origin # 0 /\ new.origin # OriginUnit
      <3>1. m \in Nat \ {0}
        BY <2>4, <2>6, <2>7, <2>10
      <3>. DEFINE r == RoundDiv(k, m)
                  whole == (from * zoom) \div z
      <3>2. /\ r \in Int /\ 2 * (r * m) <= 2 * k + m /\ 2 * k < 2 * (r * m) + m
        BY <3>1, RoundDivBounds
      <3>3. from * zoom \in Nat
        BY <2>3
      <3>4. whole \in Int /\ whole * z <= from * zoom /\ from * zoom < whole * z + z
        <4>1. PICK n \in Int : n = from * zoom
          BY <3>3
        <4>. QED  BY <4>1, DivBounds
      <3>5. k = whole - at
        BY <2>5, <2>7 DEF Kept
      <3>. HIDE DEF r, whole
      <3>6. new.origin = r
        <4>1. new.origin = Bounded(r, 0, OriginUnit)
          BY <2>4, <2>6, <2>7, <3>1 DEF r
        <4>2. Bounded(r, 0, OriginUnit) \in {0, r, OriginUnit}
          <5>1. 0 \in Int /\ OriginUnit \in Int /\ 0 <= OriginUnit
            BY <2>1
          <5>. QED  BY <3>2, <5>1, ClampBounds
        <4>. QED  BY <2>10, <4>1, <4>2
      <3>7. Offset(a, new) = r * m
        BY <2>7, <3>6 DEF Offset
      <3>. DEFINE rest == k - r * m
                  moved == from * zoom - (r * m + at) * z
      <3>8. r * m \in Int
        BY <3>1, <3>2
      <3>9. rest \in Int /\ -m <= rest /\ rest + 1 <= m
        BY <3>1, <3>2, <3>8
      <3>10. moved = (from * zoom - whole * z) + rest * z
        <4>1. PICK q \in Int : q = r * m
          BY <3>8
        <4>2. whole * z - (q + at) * z = (whole - (q + at)) * z
          BY <3>4
        <4>3. rest = whole - (q + at)
          BY <3>4, <3>5, <4>1
        <4>4. rest * z = whole * z - (r * m + at) * z
          BY <4>1, <4>2, <4>3
        <4>5. whole * z \in Int /\ (r * m + at) * z \in Int
          BY <3>4, <3>8
        <4>. HIDE DEF rest
        <4>. QED  BY <3>3, <4>4, <4>5
      <3>. HIDE DEF rest, moved
      <3>11. /\ (-m) * z <= rest * z /\ (rest + 1) * z <= m * z
             /\ (-m) * z = -(m * z) /\ (rest + 1) * z = rest * z + z
             /\ rest * z \in Int /\ m * z \in Int /\ whole * z \in Int
        BY <3>4, <3>9, ProductMonotone
      <3>12. -(m * z) <= moved /\ moved <= m * z
        BY <3>3, <3>4, <3>10, <3>11
      <3>13. /\ (Offset(a, old) + pixel * Scale) * new.zoom
                   - (Offset(a, new) + pixel * Scale) * old.zoom = moved
             /\ MaxScroll(a, new) * old.zoom = m * z
        BY <2>4, <2>5, <2>7, <2>8, <3>7 DEF moved
      <3>. QED  BY <3>12, <3>13 DEF old, zoom, new
    <2>. QED  BY <2>9, <2>10
  <1>. QED  BY <1>1, ViewportTypes, PTL
=============================================================================
