-------------------------- MODULE Ascending_proofs --------------------------
(***************************************************************************)
(* Lemmas about sets of numbers that several proofs need: a smallest and a *)
(* largest element, the ascending order, and what is left of a sequence.   *)
(***************************************************************************)
EXTENDS Ascending, WellFoundedInduction, FiniteSetTheorems, TLAPS

LOCAL Below == {ss \in Nat \X Nat : ss[1] < ss[2]}

\* A set of naturals has a smallest element.
LEMMA SmallestExists ==
  ASSUME NEW T, T \subseteq Nat, T # {}
  PROVE  \E x \in T : \A y \in T : x <= y
<1>1. IsWellFoundedOn(Below, Nat)
  BY NatLessThanWellFounded DEF OpToRel, Below
<1>2. PICK x \in T : \A y \in T : ~(<<y, x>> \in Below)
  BY <1>1, WFMin
<1>3. ASSUME NEW y \in T PROVE x <= y
  <2>1. x \in Nat /\ y \in Nat
    OBVIOUS
  <2>2. y < x => <<y, x>> \in Below
    BY <2>1 DEF Below
  <2> QED BY <1>2, <2>1, <2>2
<1> QED BY <1>3

\* A bounded one has a largest element: the one least below the bound.
LEMMA LargestExists ==
  ASSUME NEW max \in Nat, NEW T, T \subseteq 0 .. max, T # {}
  PROVE  \E x \in T : \A y \in T : y <= x
<1>1. PICK U : U = {max - x : x \in T}
  OBVIOUS
<1>2. U \subseteq Nat /\ U # {}
  <2>1. \A x \in T : x \in 0 .. max /\ max - x \in Nat
    OBVIOUS
  <2> QED BY <1>1, <2>1
<1>3. PICK u \in U : \A v \in U : u <= v
  BY <1>2, SmallestExists
<1>4. PICK x \in T : u = max - x
  BY <1>1
<1>5. ASSUME NEW y \in T PROVE y <= x
  <2>1. max - y \in U
    BY <1>1
  <2>2. u <= max - y
    BY <1>3, <2>1
  <2> QED BY <1>4, <2>2
<1> QED BY <1>5

\* A proper subset is smaller.
LEMMA SmallerPart ==
  ASSUME NEW T, IsFiniteSet(T), NEW V \in SUBSET T, V # T
  PROVE  /\ IsFiniteSet(V)
         /\ Cardinality(V) \in Nat /\ Cardinality(T) \in Nat
         /\ Cardinality(V) < Cardinality(T)
<1>1. /\ IsFiniteSet(V) /\ Cardinality(V) <= Cardinality(T)
      /\ Cardinality(T) = Cardinality(V) => T = V
  BY FS_Subset
<1>2. Cardinality(V) \in Nat /\ Cardinality(T) \in Nat
  BY <1>1, FS_CardinalityType
<1> QED BY <1>1, <1>2

\* Ranks are distinct and below the size of S.
LEMMA RankGrows ==
  ASSUME NEW S, S \subseteq Nat, IsFiniteSet(S), NEW h \in S
  PROVE  /\ Cardinality(S) \in Nat
         /\ Rank(S, h) \in 0 .. Cardinality(S) - 1
         /\ \A g \in S : g < h => Rank(S, g) < Rank(S, h)
<1>1. Rank(S, h) \in 0 .. Cardinality(S) - 1 /\ Cardinality(S) \in Nat
  <2>1. PICK V : V = {k \in S : k < h}
    OBVIOUS
  <2>2. V \in SUBSET S /\ V # S
    BY <2>1
  <2>3. /\ Cardinality(V) \in Nat /\ Cardinality(S) \in Nat
        /\ Cardinality(V) < Cardinality(S)
    BY <2>2, SmallerPart
  <2> QED BY <2>1, <2>3 DEF Rank
<1>2. ASSUME NEW g \in S, g < h PROVE Rank(S, g) < Rank(S, h)
  <2>1. PICK T, V : T = {k \in S : k < h} /\ V = {k \in S : k < g}
    OBVIOUS
  <2>2. V \in SUBSET T /\ T \in SUBSET S
    <3>1. \A k \in S : k < g => k < h
      <4>1. ASSUME NEW k \in S, k < g PROVE k < h
        <5>1. k \in Nat /\ g \in Nat /\ h \in Nat
          OBVIOUS
        <5> QED BY <1>2, <4>1, <5>1
      <4> QED BY <4>1
    <3> QED BY <2>1, <3>1
  <2>3. g \in T /\ g \notin V
    BY <1>2, <2>1
  <2>4. IsFiniteSet(T)
    BY <2>2, FS_Subset
  <2>5. V # T
    BY <2>3
  <2>6. Cardinality(V) < Cardinality(T)
    BY <2>2, <2>4, <2>5, SmallerPart
  <2> QED BY <2>1, <2>6 DEF Rank
<1> QED BY <1>1, <1>2

\* Only equal elements have equal ranks.
LEMMA RankDistinct ==
  ASSUME NEW S, S \subseteq Nat, IsFiniteSet(S), NEW g \in S, NEW h \in S,
         Rank(S, g) = Rank(S, h)
  PROVE  g = h
<1>1. g < h => Rank(S, g) < Rank(S, h)
  BY RankGrows
<1>2. h < g => Rank(S, h) < Rank(S, g)
  BY RankGrows
<1>3. Rank(S, g) \in Int
  <2>1. Cardinality(S) \in Nat /\ Rank(S, g) \in 0 .. Cardinality(S) - 1
    BY RankGrows
  <2> QED BY <2>1
<1>4. g \in Nat /\ h \in Nat
  OBVIOUS
<1> QED BY <1>1, <1>2, <1>3, <1>4

\* Every place up to the size of S is the rank of one element.
LEMMA RankReaches ==
  ASSUME NEW S, S \subseteq Nat, IsFiniteSet(S), NEW i \in 1 .. Cardinality(S)
  PROVE  \E h \in S : Rank(S, h) = i - 1
<1>1. Cardinality(S) \in Nat
  BY FS_CardinalityType
<1> DEFINE Places == 0 .. Cardinality(S) - 1
           rank == [h \in S |-> Rank(S, h)]
<1>2. IsFiniteSet(Places) /\ Cardinality(Places) = Cardinality(S)
  <2>1. 0 \in Int /\ Cardinality(S) - 1 \in Int
    BY <1>1
  <2>2. IsFiniteSet(Places) /\ Cardinality(Places) =
          IF 0 > Cardinality(S) - 1 THEN 0 ELSE Cardinality(S) - 1 - 0 + 1
    BY <2>1, FS_Interval
  <2> QED BY <1>1, <2>2
<1>3. rank \in Injection(S, Places)
  <2>1. \A h \in S : Rank(S, h) \in Places
    BY RankGrows
  <2>2. \A g, h \in S : Rank(S, g) = Rank(S, h) => g = h
    BY RankDistinct
  <2> QED BY <2>1, <2>2 DEF Injection, IsInjective
<1> HIDE DEF Places, rank
<1>4. rank \in Surjection(S, Places)
  BY <1>2, <1>3, FS_Injection
<1>5. i - 1 \in Places
  BY <1>1 DEF Places
<1>6. PICK h \in S : rank[h] = i - 1
  BY <1>4, <1>5 DEF Surjection
<1> QED BY <1>6 DEF rank

\* Ascending(S) lists the elements of S, each once, the smaller before the larger.
LEMMA AscendingFact ==
  ASSUME NEW S, S \subseteq Nat, IsFiniteSet(S)
  PROVE  /\ Cardinality(S) \in Nat
         /\ Ascending(S) \in Seq(S) /\ Len(Ascending(S)) = Cardinality(S)
         /\ \A i \in 1 .. Cardinality(S) : Ascending(S)[i] \in S
         /\ \A h \in S : \E i \in 1 .. Cardinality(S) : Ascending(S)[i] = h
         /\ \A i, j \in 1 .. Cardinality(S) : i < j => Ascending(S)[i] < Ascending(S)[j]
<1>1. PICK list : list = Ascending(S)
  OBVIOUS
<1>2. PICK n \in Nat : n = Cardinality(S)
  BY FS_CardinalityType
<1>3. ASSUME NEW i \in 1 .. n
      PROVE  list[i] \in S /\ Rank(S, list[i]) = i - 1
  <2>1. \E h \in S : Rank(S, h) = i - 1
    BY <1>2, RankReaches
  <2> QED BY <1>1, <1>2, <2>1 DEF Ascending
<1>4. list \in Seq(S) /\ Len(list) = n
  <2>1. list = [i \in 1 .. n |-> list[i]]
    BY <1>1, <1>2 DEF Ascending
  <2>2. list \in [1 .. n -> S]
    BY <1>3, <2>1
  <2>3. list \in Seq(S)
    BY <2>2
  <2> QED BY <2>2, <2>3
<1>5. ASSUME NEW h \in S PROVE \E i \in 1 .. n : list[i] = h
  <2>1. Rank(S, h) \in 0 .. n - 1
    BY <1>2, RankGrows
  <2>2. PICK i \in 1 .. n : i - 1 = Rank(S, h)
    <3>1. Rank(S, h) + 1 \in 1 .. n /\ (Rank(S, h) + 1) - 1 = Rank(S, h)
      BY <2>1
    <3> QED BY <3>1
  <2>3. list[i] \in S /\ Rank(S, list[i]) = Rank(S, h)
    BY <1>3, <2>2
  <2>4. list[i] = h
    BY <2>3, RankDistinct
  <2> QED BY <2>4
<1>6. ASSUME NEW i \in 1 .. n, NEW j \in 1 .. n, i < j PROVE list[i] < list[j]
  <2>1. PICK g \in S : g = list[i] /\ Rank(S, g) = i - 1
    BY <1>3
  <2>2. PICK h \in S : h = list[j] /\ Rank(S, h) = j - 1
    BY <1>3
  <2>3. h < g => Rank(S, h) < Rank(S, g)
    BY RankGrows
  <2>4. ~ (h < g) /\ g # h
    BY <1>6, <2>1, <2>2, <2>3
  <2>5. g \in Nat /\ h \in Nat
    OBVIOUS
  <2> QED BY <2>1, <2>2, <2>4, <2>5
<1> QED BY <1>1, <1>2, <1>3, <1>4, <1>5, <1>6

\* Without(s, gone) is s at ascending places: all those that hold nothing of gone.
LEMMA WithoutFact ==
  ASSUME NEW T, NEW s \in Seq(T), NEW gone, NEW w, w = Without(s, gone)
  PROVE  /\ w \in Seq(T) /\ Len(w) \in Nat
         /\ \E at \in [1 .. Len(w) -> 1 .. Len(s)] :
              /\ \A k \in 1 .. Len(w) : w[k] = s[at[k]] /\ s[at[k]] \notin gone
              /\ \A k, l \in 1 .. Len(w) : k < l => at[k] < at[l]
              /\ \A i \in 1 .. Len(s) : s[i] \notin gone => \E k \in 1 .. Len(w) : at[k] = i
<1>1. PICK kept : kept = {i \in 1 .. Len(s) : s[i] \notin gone}
  OBVIOUS
<1>2. kept \subseteq Nat /\ IsFiniteSet(kept)
  <2>1. IsFiniteSet(1 .. Len(s)) /\ kept \in SUBSET (1 .. Len(s))
    BY <1>1, FS_Interval
  <2>2. IsFiniteSet(kept)
    BY <2>1, FS_Subset
  <2> QED BY <2>1, <2>2
<1>3. PICK at : at = Ascending(kept)
  OBVIOUS
<1>4. PICK n \in Nat : n = Cardinality(kept)
  BY <1>2, FS_CardinalityType
<1>5. /\ at \in Seq(kept) /\ Len(at) = n
      /\ \A i \in 1 .. n : at[i] \in kept
      /\ \A h \in kept : \E i \in 1 .. n : at[i] = h
      /\ \A i, j \in 1 .. n : i < j => at[i] < at[j]
  BY <1>2, <1>3, <1>4, AscendingFact
<1>6. w = [k \in 1 .. n |-> s[at[k]]]
  BY <1>1, <1>3, <1>4 DEF Without
<1>7. \A k \in 1 .. n : at[k] \in 1 .. Len(s) /\ s[at[k]] \notin gone
  BY <1>1, <1>5
<1>8. w \in Seq(T) /\ Len(w) = n
  <2>1. \A k \in 1 .. n : s[at[k]] \in T
    BY <1>7
  <2>2. w \in [1 .. n -> T]
    BY <1>6, <2>1
  <2>3. w \in Seq(T)
    BY <2>2
  <2> QED BY <2>2, <2>3
<1>9. at \in [1 .. n -> 1 .. Len(s)]
  <2>1. DOMAIN at = 1 .. n /\ at = [k \in DOMAIN at |-> at[k]]
    BY <1>5
  <2> QED BY <1>7, <2>1
<1>10. \A i \in 1 .. Len(s) : s[i] \notin gone => \E k \in 1 .. n : at[k] = i
  BY <1>1, <1>5
<1> QED BY <1>5, <1>6, <1>7, <1>8, <1>9, <1>10

\* It holds what s holds and gone does not, and repeats nothing s does not repeat.
LEMMA WithoutHolds ==
  ASSUME NEW T, NEW s \in Seq(T), NEW gone
  PROVE  /\ Without(s, gone) \in Seq(T)
         /\ {Without(s, gone)[k] : k \in DOMAIN Without(s, gone)}
               = {s[i] : i \in DOMAIN s} \ gone
         /\ (\A i, j \in DOMAIN s : s[i] = s[j] => i = j) =>
               \A k, l \in DOMAIN Without(s, gone) :
                 Without(s, gone)[k] = Without(s, gone)[l] => k = l
<1>1. PICK w : w = Without(s, gone)
  OBVIOUS
<1>2. w \in Seq(T) /\ Len(w) \in Nat
  BY <1>1, WithoutFact
<1>3. PICK at \in [1 .. Len(w) -> 1 .. Len(s)] :
        /\ \A k \in 1 .. Len(w) : w[k] = s[at[k]] /\ s[at[k]] \notin gone
        /\ \A k, l \in 1 .. Len(w) : k < l => at[k] < at[l]
        /\ \A i \in 1 .. Len(s) : s[i] \notin gone => \E k \in 1 .. Len(w) : at[k] = i
  BY <1>1, WithoutFact
<1>4. DOMAIN w = 1 .. Len(w) /\ DOMAIN s = 1 .. Len(s)
  BY <1>2
<1>5. {w[k] : k \in DOMAIN w} = {s[i] : i \in DOMAIN s} \ gone
  <2>1. ASSUME NEW k \in DOMAIN w PROVE w[k] \in {s[i] : i \in DOMAIN s} \ gone
    BY <1>3, <1>4
  <2>2. ASSUME NEW i \in DOMAIN s, s[i] \notin gone PROVE \E k \in DOMAIN w : w[k] = s[i]
    BY <1>3, <1>4, <2>2
  <2> QED BY <2>1, <2>2
<1>6. ASSUME \A i, j \in DOMAIN s : s[i] = s[j] => i = j,
             NEW k \in DOMAIN w, NEW l \in DOMAIN w, w[k] = w[l]
      PROVE  k = l
  <2>1. at[k] = at[l] /\ at[k] \in Nat
    BY <1>3, <1>4, <1>6
  <2>2. ~ (k < l) /\ ~ (l < k)
    BY <1>3, <1>4, <2>1
  <2>3. k \in Nat /\ l \in Nat
    BY <1>2, <1>4
  <2> QED BY <2>2, <2>3
<1> QED BY <1>1, <1>2, <1>5, <1>6
=============================================================================
