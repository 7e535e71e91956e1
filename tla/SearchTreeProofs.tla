-------------------------- MODULE SearchTreeProofs --------------------------
(***************************************************************************)
(* Lemmas about the tree that all the recursive searches walk, and about   *)
(* sums of numbers of matches.                                             *)
(***************************************************************************)
EXTENDS SearchTree, FiniteSetTheorems, FunctionTheorems, SequenceTheorems, TLAPS

(***************************************************************************)
(* The tree.                                                               *)
(***************************************************************************)

\* A directory is below itself, with all the subdirectories of what is.
LEMMA BelowBasics ==
  ASSUME NEW d \in Dirs
  PROVE  /\ d \in Below(d)
         /\ \A e \in Below(d), c \in Dirs : c \in Subdirs(e) => c \in Below(d)
BY DEF Below

\* What holds of a directory and passes to subdirectories holds of all below.
LEMMA BelowInduction ==
  ASSUME NEW d \in Dirs, NEW D \in SUBSET Dirs,
         d \in D, \A e \in D : Subdirs(e) \subseteq D
  PROVE  Below(d) \subseteq D
BY DEF Below

\* Everything is below the root.
LEMMA BelowRoot == Below(Root) = Dirs
<1>1. Below(Root) \subseteq Dirs
  BY DEF Below
<1>2. \A e \in Below(Root) : Subdirs(e) \subseteq Below(Root)
  BY TreeAssumption, BelowBasics DEF Subdirs
<1> QED
  BY <1>1, <1>2, TreeAssumption, BelowBasics

\* An entry is of one directory, and not both a file and a directory.
LEMMA EntryOfOne ==
  ASSUME NEW d \in Dirs, NEW e \in Dirs
  PROVE  /\ \A c \in Subdirs(d) : c \in Dirs /\ c # Root /\ (c \in Subdirs(e) => d = e)
         /\ \A f \in FilesOf(d) : f \in Files /\ f \notin Dirs /\ (f \in FilesOf(e) => d = e)
BY FilesAssumption DEF Subdirs, FilesOf

\* What is below something below a directory is below that directory.
LEMMA BelowTransitive ==
  ASSUME NEW d \in Dirs, NEW e \in Below(d)
  PROVE  Below(e) \subseteq Below(d)
<1>1. Below(d) \in SUBSET Dirs /\ e \in Dirs
  BY DEF Below
<1>2. \A x \in Below(d) : Subdirs(x) \subseteq Below(d)
  BY BelowBasics DEF Subdirs
<1> QED
  BY <1>1, <1>2, BelowInduction

\* A directory is below another only if the one it is in is.
LEMMA BelowParent ==
  ASSUME NEW e \in Dirs, NEW c \in Below(e), c # e
  PROVE  c # Root /\ \A d \in Dirs : c \in Subdirs(d) => d \in Below(e)
<1> SUFFICES ASSUME ~ \E d \in Below(e) : c \in Subdirs(d)
             PROVE  FALSE
  BY DEF Subdirs, Below
<1> DEFINE D == Below(e) \ {c}
<1>1. D \in SUBSET Dirs /\ e \in D
  BY BelowBasics DEF Below
<1>2. \A x \in D : Subdirs(x) \subseteq D
  BY BelowBasics DEF Subdirs
<1>3. Below(e) \subseteq D
  <2> HIDE DEF D
  <2> QED
    BY <1>1, <1>2, BelowInduction
<1> QED
  BY <1>3

\* Nothing is below what is below it.
LEMMA BelowOneWay ==
  ASSUME NEW d \in Dirs, NEW e \in Below(d), d \in Below(e)
  PROVE  d = e
<1> DEFINE D == {x \in Dirs : \A y \in Below(x) : x \in Below(y) => x = y}
<1>1. D \in SUBSET Dirs /\ \A x \in Dirs : Below(x) \subseteq Dirs
  BY DEF Below
<1>2. Root \in D
  BY <1>1, TreeAssumption, BelowParent
<1>3. ASSUME NEW x \in D, NEW c \in Subdirs(x), NEW y \in Below(c), c \in Below(y)
      PROVE  c = y
  <2> SUFFICES ASSUME c # y
               PROVE  FALSE
    OBVIOUS
  <2>1. x \in Dirs /\ c \in Dirs /\ y \in Dirs
    BY <1>1 DEF Subdirs
  <2>2. c \in Below(x)
    BY <2>1, BelowBasics
  <2>3. x \in Below(y)
    BY <1>3, <2>1, BelowParent
  <2>4. y \in Below(x)
    BY <2>1, <2>2, BelowTransitive
  <2>5. x = y
    BY <2>3, <2>4
  <2>6. x \in Below(c)
    BY <2>5
  <2> QED
    BY <2>2, <2>5, <2>6
<1>4. \A x \in D : Subdirs(x) \subseteq D
  BY <1>3 DEF Subdirs
<1>5. D = Dirs
  <2> HIDE DEF D
  <2> QED
    BY <1>1, <1>2, <1>4, TreeAssumption
<1> QED
  BY <1>5

\* A directory is not inside itself.
LEMMA SubdirsProper ==
  ASSUME NEW d \in Dirs
  PROVE  d \notin Subdirs(d)
<1> DEFINE D == {x \in Dirs : x \notin Subdirs(x)}
<1>1. \A x \in D : Subdirs(x) \subseteq D
  BY EntryOfOne DEF Subdirs
<1>2. Root \in D /\ D \in SUBSET Dirs
  BY TreeAssumption DEF Subdirs
<1>3. D = Dirs
  <2> HIDE DEF D
  <2> QED
    BY <1>1, <1>2, TreeAssumption
<1> QED
  BY <1>3

\* Of any directories there is one that has no other of them below it.
LEMMA Lowest ==
  ASSUME NEW L \in SUBSET Dirs, L # {}
  PROVE  \E d \in L : \A e \in L : e \in Below(d) => e = d
<1> DEFINE T == {Below(d) : d \in L}
           R == StrictSubsetOrdering(Dirs)
<1>1. \A d \in Dirs : Below(d) \in SUBSET Dirs /\ IsFiniteSet(Below(d))
  BY TreeAssumption, FS_Subset DEF Below
<1>2. T \subseteq FiniteSubsetsOf(Dirs) /\ T # {}
  BY <1>1 DEF FiniteSubsetsOf
<1>3. IsWellFoundedOn(R, FiniteSubsetsOf(Dirs))
  BY FS_StrictSubsetOrderingWellFounded
<1>4. PICK B \in T : \A C \in T : <<C, B>> \notin R
  <2> HIDE DEF T, R
  <2> QED
    BY <1>2, <1>3, WFMin
<1>5. PICK d \in L : B = Below(d)
  BY <1>4
<1>6. ASSUME NEW e \in L, e \in Below(d)
      PROVE  e = d
  <2>1. Below(e) \subseteq Below(d)
    BY <1>6, BelowTransitive
  <2>2. <<Below(e), Below(d)>> \notin R
    BY <1>4, <1>5
  <2>3. Below(e) = Below(d)
    BY <1>1, <2>1, <2>2 DEF StrictSubsetOrdering
  <2>4. d \in Below(e)
    BY <2>3, BelowBasics
  <2> QED
    BY <1>6, <2>4, BelowOneWay
<1> QED
  BY <1>6

(***************************************************************************)
(* Sums of numbers of matches.                                             *)
(***************************************************************************)

Totals == Nat \cup {ERROR}

\* The units of one value are as many as it says, none for ERROR.
LEMMA UnitsOfOne ==
  ASSUME NEW x, NEW v, v[x] \in Totals
  PROVE  /\ IsFiniteSet({x} \X (1 .. v[x]))
         /\ Cardinality({x} \X (1 .. v[x])) = IF v[x] = ERROR THEN 0 ELSE v[x]
<1>1. v[x] \in Int /\ (v[x] \in Nat \/ v[x] = -1)
  BY DEF Totals, ERROR
<1>2. /\ IsFiniteSet(1 .. v[x])
      /\ Cardinality(1 .. v[x]) = IF 1 > v[x] THEN 0 ELSE v[x] - 1 + 1
  BY <1>1, FS_Interval
<1>3. IsFiniteSet({x}) /\ Cardinality({x}) = 1
  BY FS_Singleton
<1>4. /\ IsFiniteSet({x} \X (1 .. v[x]))
      /\ Cardinality({x} \X (1 .. v[x])) = Cardinality({x}) * Cardinality(1 .. v[x])
  BY <1>2, <1>3, FS_Product
<1>5. Cardinality(1 .. v[x]) = IF v[x] = ERROR THEN 0 ELSE v[x]
  BY <1>1, <1>2 DEF ERROR
<1>6. Cardinality(1 .. v[x]) \in Int
  BY <1>1, <1>5
<1> QED
  BY <1>3, <1>4, <1>5, <1>6

\* The units of finitely many values are a finite set.
LEMMA UnitsFinite ==
  ASSUME NEW S, IsFiniteSet(S), NEW v, \A x \in S : v[x] \in Totals
  PROVE  IsFiniteSet(Units(S, v))
<1> DEFINE U(x) == {x} \X (1 .. v[x])
           T == {U(x) : x \in S}
<1>1. PICK n \in Nat : \E M \in [1 .. n -> S] : \A x \in S : \E k \in 1 .. n : M[k] = x
  BY FS_NatSurjection DEF ExistsSurjection, Surjection
<1>2. PICK M \in [1 .. n -> S] : \A x \in S : \E k \in 1 .. n : M[k] = x
  BY <1>1
<1> DEFINE G == [k \in 1 .. n |-> U(M[k])]
<1>3. G \in [1 .. n -> T]
  BY <1>2
<1>4. \A t \in T : \E k \in 1 .. n : G[k] = t
  <2> SUFFICES ASSUME NEW x \in S PROVE \E k \in 1 .. n : G[k] = U(x)
    OBVIOUS
  <2>1. PICK k \in 1 .. n : M[k] = x
    BY <1>2
  <2> QED
    BY <2>1
<1>5. \A t \in T : IsFiniteSet(t)
  <2> SUFFICES ASSUME NEW x \in S PROVE IsFiniteSet(U(x))
    OBVIOUS
  <2>1. v[x] \in Totals
    OBVIOUS
  <2> QED
    BY <2>1, UnitsOfOne
<1> HIDE DEF G, T
<1>6. IsFiniteSet(T)
  <2>1. ExistsSurjection(1 .. n, T)
    BY <1>3, <1>4 DEF ExistsSurjection, Surjection
  <2> QED
    BY <2>1, FS_NatSurjection
<1>7. IsFiniteSet(UNION T)
  BY <1>5, <1>6, FS_UNION
<1> QED
  BY <1>7 DEF T, Units

\* What a sum counts are numbers.
LEMMA SumParts ==
  ASSUME NEW S, IsFiniteSet(S), NEW v, \A x \in S : v[x] \in Totals
  PROVE  /\ Cardinality(Units(S, v)) \in Nat
         /\ IsFiniteSet({x \in S : v[x] = ERROR})
         /\ Cardinality({x \in S : v[x] = ERROR}) \in Nat
         /\ SumOver(S, v) \in Int
<1> DEFINE E == {x \in S : v[x] = ERROR}
<1>1. Cardinality(Units(S, v)) \in Nat
  BY UnitsFinite, FS_CardinalityType
<1>2. E \subseteq S
  OBVIOUS
<1>3. SumOver(S, v) = Cardinality(Units(S, v)) - Cardinality(E)
  BY DEF SumOver
<1> HIDE DEF E
<1>4. IsFiniteSet(E) /\ Cardinality(E) \in Nat
  BY <1>2, FS_Subset, FS_CardinalityType
<1>5. SumOver(S, v) \in Int
  BY <1>1, <1>3, <1>4
<1>6. /\ IsFiniteSet({x \in S : v[x] = ERROR})
      /\ Cardinality({x \in S : v[x] = ERROR}) \in Nat
  BY <1>4 DEF E
<1> QED
  BY <1>1, <1>5, <1>6

\* The sum over no element is zero.
LEMMA SumOfNone == \A v : SumOver({}, v) = 0
<1> SUFFICES ASSUME NEW v PROVE SumOver({}, v) = 0
  OBVIOUS
<1>1. Units({}, v) = {} /\ {x \in {} : v[x] = ERROR} = {}
  BY DEF Units
<1> QED
  BY <1>1, FS_EmptySet DEF SumOver

\* Another element adds its value to the sum.
LEMMA SumAdds ==
  ASSUME NEW S, IsFiniteSet(S), NEW x, x \notin S,
         NEW v, \A y \in S \cup {x} : v[y] \in Totals
  PROVE  SumOver(S \cup {x}, v) = SumOver(S, v) + v[x]
<1> DEFINE U == {x} \X (1 .. v[x])
           E(T) == {y \in T : v[y] = ERROR}
<1>1. IsFiniteSet(Units(S, v)) /\ Cardinality(Units(S, v)) \in Nat
  BY UnitsFinite, FS_CardinalityType
<1>2. Units(S \cup {x}, v) = Units(S, v) \cup U
  BY DEF Units
<1>3. Units(S, v) \cap U = {}
  BY DEF Units
<1>4. IsFiniteSet(U) /\ Cardinality(U) = IF v[x] = ERROR THEN 0 ELSE v[x]
  BY UnitsOfOne
<1>5. IsFiniteSet(E(S)) /\ Cardinality(E(S)) \in Nat
  BY SumParts
<1>6. Cardinality(E(S \cup {x})) = Cardinality(E(S)) + (IF v[x] = ERROR THEN 1 ELSE 0)
  <2>1. CASE v[x] = ERROR
    <3>1. E(S \cup {x}) = E(S) \cup {x} /\ x \notin E(S)
      BY <2>1
    <3> HIDE DEF E
    <3>2. Cardinality(E(S) \cup {x}) = Cardinality(E(S)) + 1
      BY <1>5, <3>1, FS_AddElement
    <3> QED
      BY <2>1, <3>1, <3>2
  <2>2. CASE v[x] # ERROR
    <3>1. E(S \cup {x}) = E(S)
      BY <2>2
    <3> HIDE DEF E
    <3> QED
      BY <1>5, <2>2, <3>1
  <2> QED
    BY <2>1, <2>2
<1> HIDE DEF U
<1>7. Cardinality(Units(S, v) \cup U) = Cardinality(Units(S, v)) + Cardinality(U)
  <2>1. Cardinality(Units(S, v) \cup U)
          = Cardinality(Units(S, v)) + Cardinality(U) - Cardinality(Units(S, v) \cap U)
    BY <1>1, <1>4, FS_Union
  <2>2. Cardinality(Units(S, v) \cap U) = 0 /\ Cardinality(U) \in Int
    BY <1>3, <1>4, FS_EmptySet, FS_CardinalityType
  <2> QED
    BY <1>1, <2>1, <2>2
<1>8. /\ SumOver(S \cup {x}, v) = Cardinality(Units(S \cup {x}, v)) - Cardinality(E(S \cup {x}))
      /\ SumOver(S, v) = Cardinality(Units(S, v)) - Cardinality(E(S))
  BY DEF SumOver
<1> HIDE DEF E
<1>9. /\ Cardinality(Units(S \cup {x}, v)) = Cardinality(Units(S, v)) + Cardinality(U)
      /\ Cardinality(U) \in Int
  <2>1. Cardinality(U) \in Int
    BY <1>4, FS_CardinalityType
  <2> QED
    BY <1>2, <1>7, <2>1
<1>10. CASE v[x] = ERROR
  <2>1. v[x] = -1 /\ Cardinality(U) = 0 /\ Cardinality(E(S \cup {x})) = Cardinality(E(S)) + 1
    BY <1>4, <1>6, <1>10 DEF ERROR
  <2> QED
    BY <1>1, <1>5, <1>8, <1>9, <2>1
<1>11. CASE v[x] # ERROR
  <2>1. /\ v[x] \in Int /\ Cardinality(U) = v[x]
        /\ Cardinality(E(S \cup {x})) = Cardinality(E(S)) + 0
    BY <1>4, <1>6, <1>11 DEF Totals, ERROR
  <2> QED
    BY <1>1, <1>5, <1>8, <1>9, <2>1
<1> QED
  BY <1>10, <1>11

\* The sum depends on the values of its elements only.
LEMMA SumSame ==
  ASSUME NEW S, NEW v, NEW w, \A x \in S : v[x] = w[x]
  PROVE  SumOver(S, v) = SumOver(S, w)
<1>1. Units(S, v) = Units(S, w) /\ {x \in S : v[x] = ERROR} = {x \in S : w[x] = ERROR}
  BY DEF Units
<1> QED
  BY <1>1 DEF SumOver

\* Values under other names have the same sum.
LEMMA SumMoved ==
  ASSUME NEW S, IsFiniteSet(S), NEW T, NEW h \in [S -> T],
         \A x, y \in S : h[x] = h[y] => x = y,
         \A y \in T : \E x \in S : h[x] = y,
         NEW v, \A x \in S : v[x] \in Totals,
         NEW w, \A x \in S : w[h[x]] = v[x]
  PROVE  SumOver(T, w) = SumOver(S, v)
<1> DEFINE H == [p \in Units(S, v) |-> <<h[p[1]], p[2]>>]
           G == [x \in {y \in S : v[y] = ERROR} |-> h[x]]
           EV == {x \in S : v[x] = ERROR}
           EW == {x \in T : w[x] = ERROR}
<1>1. IsFiniteSet(Units(S, v)) /\ IsFiniteSet(EV)
  BY UnitsFinite, SumParts
<1>2. H \in [Units(S, v) -> Units(T, w)]
  BY DEF Units
<1>3. \A p, q \in Units(S, v) : H[p] = H[q] => p = q
  BY DEF Units
<1>4. \A q \in Units(T, w) : \E p \in Units(S, v) : H[p] = q
  <2> SUFFICES ASSUME NEW y \in T, NEW k \in 1 .. w[y]
               PROVE  \E p \in Units(S, v) : H[p] = <<y, k>>
    <3>1. \A q \in Units(T, w) : \E y \in T : \E k \in 1 .. w[y] : q = <<y, k>>
      BY DEF Units
    <3> HIDE DEF H
    <3> QED
      BY <3>1
  <2>1. PICK x \in S : h[x] = y
    OBVIOUS
  <2>2. <<x, k>> \in Units(S, v)
    BY <2>1 DEF Units
  <2> QED
    BY <2>1, <2>2
<1>5. /\ G \in [EV -> EW]
      /\ \A x, y \in EV : G[x] = G[y] => x = y
      /\ \A y \in EW : \E x \in EV : G[x] = y
  OBVIOUS
<1> HIDE DEF H, G, EV, EW
<1>6. ExistsBijection(Units(S, v), Units(T, w))
  BY <1>2, <1>3, <1>4 DEF ExistsBijection, Bijection, Injection, Surjection, IsInjective
<1>7. ExistsBijection(EV, EW)
  BY <1>5 DEF ExistsBijection, Bijection, Injection, Surjection, IsInjective
<1>8. /\ Cardinality(Units(T, w)) = Cardinality(Units(S, v))
      /\ Cardinality(EW) = Cardinality(EV)
  BY <1>1, <1>6, <1>7, FS_Bijection
<1>9. /\ SumOver(T, w) = Cardinality(Units(T, w)) - Cardinality(EW)
      /\ SumOver(S, v) = Cardinality(Units(S, v)) - Cardinality(EV)
  BY DEF SumOver, EV, EW
<1> QED
  BY <1>8, <1>9

\* A value at the end of a sequence is added to its sum.
LEMMA SumAppend ==
  ASSUME NEW s \in Seq(Totals), NEW e \in Totals
  PROVE  SumOver(DOMAIN Append(s, e), Append(s, e)) = SumOver(DOMAIN s, s) + e
<1> DEFINE t == Append(s, e)
           n == Len(s) + 1
<1>1. /\ DOMAIN s = 1 .. Len(s) /\ Len(s) \in Nat
      /\ DOMAIN t = DOMAIN s \cup {n}
      /\ \A k \in DOMAIN s : t[k] = s[k] /\ s[k] \in Totals
      /\ t[n] = e
  OBVIOUS
<1> HIDE DEF t
<1>2. IsFiniteSet(DOMAIN s) /\ n \notin DOMAIN s
  BY <1>1, FS_Interval
<1>3. \A k \in DOMAIN s \cup {n} : t[k] \in Totals
  BY <1>1
<1> HIDE DEF n
<1>4. SumOver(DOMAIN t, t) = SumOver(DOMAIN s, t) + t[n]
  BY <1>1, <1>2, <1>3, SumAdds
<1>5. SumOver(DOMAIN s, t) = SumOver(DOMAIN s, s)
  BY <1>1, SumSame
<1> QED
  BY <1>1, <1>4, <1>5 DEF t

\* The first value taken off a sequence is taken off its sum.
LEMMA SumTail ==
  ASSUME NEW s \in Seq(Totals), s # <<>>
  PROVE  SumOver(DOMAIN s, s) = Head(s) + SumOver(DOMAIN Tail(s), Tail(s))
<1> DEFINE t == Tail(s)
           R == 2 .. Len(s)
           h == [k \in R |-> k - 1]
<1>1. /\ Len(s) \in Nat \ {0} /\ DOMAIN s = R \cup {1} /\ 1 \notin R
      /\ \A k \in DOMAIN s : s[k] \in Totals
      /\ Head(s) = s[1]
  <2>1. s # <<>> /\ DOMAIN s = 1 .. Len(s) /\ Len(s) \in Nat /\ Len(s) # 0
    BY EmptySeq
  <2>2. 1 .. Len(s) = R \cup {1}
    BY <2>1
  <2> QED
    BY <2>1, <2>2
<1>2. /\ DOMAIN t = 1 .. Len(s) - 1
      /\ \A k \in DOMAIN t : t[k] = s[k + 1]
  OBVIOUS
<1>3. IsFiniteSet(R)
  BY <1>1, FS_Interval
<1>4. /\ h \in [R -> DOMAIN t]
      /\ \A j, k \in R : h[j] = h[k] => j = k
      /\ \A k \in R : t[h[k]] = s[k]
  BY <1>1, <1>2
<1>5. \A k \in DOMAIN t : \E j \in R : h[j] = k
  <2> SUFFICES ASSUME NEW k \in DOMAIN t PROVE k + 1 \in R /\ h[k + 1] = k
    OBVIOUS
  <2> QED
    BY <1>1, <1>2
<1> HIDE DEF t, R, h
<1>6. SumOver(DOMAIN t, t) = SumOver(R, s)
  BY <1>1, <1>3, <1>4, <1>5, SumMoved
<1>7. SumOver(DOMAIN s, s) = SumOver(R, s) + s[1]
  BY <1>1, <1>3, SumAdds
<1>8. SumOver(R, s) \in Int /\ s[1] \in Int
  <2>1. SumOver(R, s) \in Int
    BY <1>1, <1>3, SumParts
  <2>2. s[1] \in Totals
    BY <1>1
  <2> QED
    BY <2>1, <2>2 DEF Totals, ERROR
<1> QED
  BY <1>1, <1>6, <1>7, <1>8 DEF t

(***************************************************************************)
(* Matches.                                                                *)
(***************************************************************************)

\* No file has no match.
LEMMA MatchesOfNone == MatchesOf({}) = 0
BY SumOfNone DEF MatchesOf

\* A file adds its own.
LEMMA MatchesAdd ==
  ASSUME NEW S \in SUBSET Files, NEW f \in Files, f \notin S
  PROVE  MatchesOf(S \cup {f}) = MatchesOf(S) + matches[f]
<1>1. IsFiniteSet(S) /\ \A g \in S \cup {f} : matches[g] \in Totals
  BY FilesAssumption, FS_Subset DEF Totals
<1> QED
  BY <1>1, SumAdds DEF MatchesOf
=============================================================================
