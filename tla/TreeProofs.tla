------------------------------ MODULE TreeProofs ------------------------------
(***************************************************************************)
(* The numbers of the tree, for every trace: what the buckets sum up, what *)
(* a transaction reports, what is noted of each call and how deep a node   *)
(* is.  CallTreeProofs has the shape of the tree and the steps this module *)
(* builds on.                                                              *)
(*                                                                         *)
(* The sums come first.  MapThenSumSet adds up a finite set in the order   *)
(* CHOOSE happens to give; the lemmas say that the order does not matter.  *)
(* They go by a smallest counterexample, a set, where an induction theorem *)
(* would need a predicate.                                                 *)
(***************************************************************************)
EXTENDS CallTreeProofs, FiniteSetTheorems

(* A smallest set among some subsets of a finite set. *)
LEMMA SmallestSubset ==
    ASSUME NEW S, IsFiniteSet(S), NEW C \in SUBSET (SUBSET S), C # {}
    PROVE  \E T \in C : \A U \in C : U \subseteq T => U = T
<1>1. IsWellFoundedOn(StrictSubsetOrdering(S), SUBSET S)
  BY FS_StrictSubsetOrderingWellFounded, FS_FiniteSubsetsOfFinite
<1>2. PICK T \in C : \A U \in C : ~(<<U, T>> \in StrictSubsetOrdering(S))
  BY <1>1, WFMin
<1> QED
  BY <1>2 DEF StrictSubsetOrdering

Pick(s) == CHOOSE x \in s : TRUE

(* g is a table of the sums of f over the subsets of S. *)
SumsOver(g, f, S) ==
    g = [s \in SUBSET S |-> IF s = {} THEN 0 ELSE f[Pick(s)] + g[s \ {Pick(s)}]]

Sum(f, S) == MapThenSumSet(LAMBDA x : f[x], S)

(* The sums are unique, *)
LEMMA SumsUnique ==
    ASSUME NEW S, IsFiniteSet(S), NEW f, NEW g, NEW h,
           SumsOver(g, f, S), SumsOver(h, f, S)
    PROVE  g = h
<1> DEFINE C == {s \in SUBSET S : g[s] # h[s]}
<1>1. SUFFICES ASSUME C # {} PROVE FALSE
  BY DEF SumsOver
<1>2. PICK T \in C : \A U \in C : U \subseteq T => U = T
  <2>1. C \in SUBSET (SUBSET S)
    OBVIOUS
  <2> HIDE DEF C
  <2> QED
    BY <1>1, <2>1, SmallestSubset
<1>3. T # {}
  BY <1>2 DEF SumsOver
<1>4. Pick(T) \in T
  BY <1>3 DEF Pick
<1>5. g[T \ {Pick(T)}] = h[T \ {Pick(T)}]
  BY <1>2, <1>4
<1> QED
  BY <1>2, <1>3, <1>5 DEF SumsOver

(* are those of any smaller set too, *)
LEMMA SumsRestrict ==
    ASSUME NEW S, NEW f, NEW g, SumsOver(g, f, S), NEW T \in SUBSET S
    PROVE  SumsOver([s \in SUBSET T |-> g[s]], f, T)
<1> DEFINE h == [s \in SUBSET T |-> g[s]]
<1>1. \A s \in SUBSET T : h[s] = IF s = {} THEN 0 ELSE f[Pick(s)] + h[s \ {Pick(s)}]
  BY DEF SumsOver
<1> QED
  BY <1>1 DEF SumsOver

(* and exist for every finite set: a smallest one without could be given its
   sums from those of its subsets. *)
LEMMA SumsExist ==
    ASSUME NEW S, IsFiniteSet(S), NEW f
    PROVE  \E g : SumsOver(g, f, S)
<1> DEFINE C == {s \in SUBSET S : ~ \E g : SumsOver(g, f, s)}
<1>1. SUFFICES ASSUME C # {} PROVE FALSE
  OBVIOUS
<1>2. PICK T \in C : \A U \in C : U \subseteq T => U = T
  <2>1. C \in SUBSET (SUBSET S)
    OBVIOUS
  <2> HIDE DEF C
  <2> QED
    BY <1>1, <2>1, SmallestSubset
<1> DEFINE H(u) == CHOOSE h : SumsOver(h, f, u)
           G == [s \in SUBSET T |->
                    IF s = {} THEN 0
                    ELSE f[Pick(s)] + H(s \ {Pick(s)})[s \ {Pick(s)}]]
<1>3. \A u \in SUBSET T : u # T => SumsOver(H(u), f, u)
  <2> SUFFICES ASSUME NEW u \in SUBSET T, u # T PROVE SumsOver(H(u), f, u)
    OBVIOUS
  <2>1. \E h : SumsOver(h, f, u)
    BY <1>2
  <2> QED
    BY <2>1
<1> HIDE DEF H
<1>4. \A u \in SUBSET T : u # T => G[u] = H(u)[u]
  <2> SUFFICES ASSUME NEW u \in SUBSET T, u # T PROVE G[u] = H(u)[u]
    OBVIOUS
  <2>1. SumsOver(H(u), f, u)
    BY <1>3
  <2>2. CASE u = {}
    BY <2>1, <2>2 DEF SumsOver
  <2>3. CASE u # {}
    <3> DEFINE v == u \ {Pick(u)}
    <3>1. Pick(u) \in u /\ v \in SUBSET u /\ v \in SUBSET T /\ v # T
      BY <2>3 DEF Pick
    <3>2. SumsOver([s \in SUBSET v |-> H(u)[s]], f, v)
      BY <2>1, <3>1, SumsRestrict
    <3>3. SumsOver(H(v), f, v)
      BY <1>3, <3>1
    <3>4. IsFiniteSet(v)
      BY <3>1, FS_Subset
    <3>5. [s \in SUBSET v |-> H(u)[s]] = H(v)
      BY <3>2, <3>3, <3>4, SumsUnique
    <3>6. H(u)[v] = H(v)[v]
      <4>1. [s \in SUBSET v |-> H(u)[s]][v] = H(u)[v]
        OBVIOUS
      <4> QED
        BY <3>5, <4>1
    <3>7. H(u)[u] = f[Pick(u)] + H(u)[v]
      BY <2>1, <2>3 DEF SumsOver
    <3> QED
      BY <2>3, <3>6, <3>7
  <2> QED
    BY <2>2, <2>3
<1>5. \A s \in SUBSET T : s # {} => s \ {Pick(s)} \in SUBSET T /\ s \ {Pick(s)} # T
  BY DEF Pick
<1>6. G = [s \in SUBSET T |-> IF s = {} THEN 0 ELSE f[Pick(s)] + G[s \ {Pick(s)}]]
  <2>1. \A s \in SUBSET T : G[s] = IF s = {} THEN 0 ELSE f[Pick(s)] + G[s \ {Pick(s)}]
    BY <1>4, <1>5
  <2> QED
    BY <2>1
<1>7. SumsOver(G, f, T)
  <2> HIDE DEF G
  <2> QED
    BY <1>6 DEF SumsOver
<1> QED
  BY <1>2, <1>7

AnyFirst(g, f, S) ==
    \A s \in SUBSET S : g[s] \in Int /\ \A x \in s : g[s] = f[x] + g[s \ {x}]

(* Any element may be taken out first. *)
LEMMA SumsTake ==
    ASSUME NEW S, IsFiniteSet(S), NEW f, \A x \in S : f[x] \in Int,
           NEW g, SumsOver(g, f, S)
    PROVE  AnyFirst(g, f, S)
<1> SUFFICES \A s \in SUBSET S :
                g[s] \in Int /\ \A x \in s : g[s] = f[x] + g[s \ {x}]
  BY DEF AnyFirst
<1> DEFINE Good(s) == g[s] \in Int /\ \A x \in s : g[s] = f[x] + g[s \ {x}]
           C == {s \in SUBSET S : ~ Good(s)}
<1>1. SUFFICES ASSUME C # {} PROVE FALSE
  OBVIOUS
<1>2. PICK T \in C : \A U \in C : U \subseteq T => U = T
  <2>1. C \in SUBSET (SUBSET S)
    OBVIOUS
  <2> HIDE DEF C
  <2> QED
    BY <1>1, <2>1, SmallestSubset
<1>3. g[{}] = 0
  BY DEF SumsOver
<1>4. T # {}
  <2>1. Good({})
    BY <1>3
  <2> HIDE DEF Good
  <2> QED
    BY <1>2, <2>1
<1> DEFINE c == Pick(T)
           R == T \ {c}
<1>5. c \in T /\ T \in SUBSET S
  BY <1>2, <1>4 DEF Pick
<1>6. g[T] = f[c] + g[R]
  BY <1>4, <1>5 DEF SumsOver
<1>7. \A U \in SUBSET T : U # T => Good(U)
  BY <1>2, <1>5
<1> HIDE DEF C, c
<1>8. R \in SUBSET T /\ R # T
  BY <1>5
<1>9. f[c] \in Int /\ g[R] \in Int
  BY <1>5, <1>7, <1>8
<1>10. \A x \in T : g[T] = f[x] + g[T \ {x}]
  <2> SUFFICES ASSUME NEW x \in T, x # c PROVE g[T] = f[x] + g[T \ {x}]
    BY <1>6
  <2>1. T \ {x} \in SUBSET T /\ T \ {x} # T /\ c \in T \ {x} /\ x \in R
    BY <1>5
  <2>2. g[R] = f[x] + g[R \ {x}]
    BY <1>7, <1>8, <2>1
  <2>3. g[T \ {x}] = f[c] + g[(T \ {x}) \ {c}]
    BY <1>7, <2>1
  <2>4. R \ {x} = (T \ {x}) \ {c}
    OBVIOUS
  <2>5. f[x] \in Int /\ g[R \ {x}] \in Int
    BY <1>5, <1>7, <1>8
  <2> HIDE DEF R
  <2>6. g[T] = f[c] + (f[x] + g[R \ {x}])
    BY <1>6, <2>2
  <2>7. g[T \ {x}] = f[c] + g[R \ {x}]
    BY <2>3, <2>4
  <2> QED
    BY <1>9, <2>5, <2>6, <2>7
<1>11. g[T] \in Int
  BY <1>6, <1>9
<1> QED
  BY <1>2, <1>10, <1>11 DEF C

(* MapThenSumSet is that table's entry, so these are its laws. *)
LEMMA SumIsSums ==
    ASSUME NEW S, IsFiniteSet(S), NEW f
    PROVE  \E g : SumsOver(g, f, S) /\ Sum(f, S) = g[S]
<1> DEFINE g == CHOOSE h : SumsOver(h, f, S)
<1>1. SumsOver(g, f, S)
  BY SumsExist
<1>2. Sum(f, S) = g[S]
  BY DEF Sum, MapThenSumSet, MapThenFoldSet, SumsOver, Pick
<1> QED
  BY <1>1, <1>2

(* Sums of a function with values in Int, and then in Nat. *)
LEMMA SumInt ==
    ASSUME NEW S, IsFiniteSet(S), NEW f, \A x \in S : f[x] \in Int
    PROVE  /\ Sum(f, S) \in Int
           /\ \A x \in S : Sum(f, S) = f[x] + Sum(f, S \ {x})
<1>1. PICK g : SumsOver(g, f, S) /\ Sum(f, S) = g[S]
  BY SumIsSums
<1>2. \A s \in SUBSET S : g[s] \in Int /\ \A x \in s : g[s] = f[x] + g[s \ {x}]
  <2>1. AnyFirst(g, f, S)
    BY <1>1, SumsTake
  <2> QED
    BY <2>1 DEF AnyFirst
<1>3. \A s \in SUBSET S : Sum(f, s) = g[s]
  <2> SUFFICES ASSUME NEW s \in SUBSET S PROVE Sum(f, s) = g[s]
    OBVIOUS
  <2>1. IsFiniteSet(s)
    BY FS_Subset
  <2>2. PICK h : SumsOver(h, f, s) /\ Sum(f, s) = h[s]
    BY <2>1, SumIsSums
  <2>3. SumsOver([u \in SUBSET s |-> g[u]], f, s)
    BY <1>1, SumsRestrict
  <2>4. [u \in SUBSET s |-> g[u]] = h
    BY <2>1, <2>2, <2>3, SumsUnique
  <2>5. [u \in SUBSET s |-> g[u]][s] = g[s]
    OBVIOUS
  <2> QED
    BY <2>2, <2>4, <2>5
<1> QED
  BY <1>2, <1>3

(* Nothing adds up to 0. *)
LEMMA SumEmpty == \A f : Sum(f, {}) = 0
<1> SUFFICES ASSUME NEW f PROVE Sum(f, {}) = 0
  OBVIOUS
<1>1. PICK g : SumsOver(g, f, {}) /\ Sum(f, {}) = g[{}]
  BY SumIsSums, FS_EmptySet
<1> QED
  BY <1>1 DEF SumsOver

(* A sum of naturals is one. *)
LEMMA SumNat ==
    ASSUME NEW S, IsFiniteSet(S), NEW f, \A x \in S : f[x] \in Nat
    PROVE  Sum(f, S) \in Nat
<1> DEFINE C == {s \in SUBSET S : Sum(f, s) \notin Nat}
<1>1. SUFFICES ASSUME C # {} PROVE FALSE
  OBVIOUS
<1>2. PICK T \in C : \A U \in C : U \subseteq T => U = T
  <2>1. C \in SUBSET (SUBSET S)
    OBVIOUS
  <2> HIDE DEF C
  <2> QED
    BY <1>1, <2>1, SmallestSubset
<1>3. PICK x : x \in T
  <2>1. Sum(f, {}) \in Nat
    BY SumEmpty
  <2> QED
    BY <1>2, <2>1
<1>4. Sum(f, T) = f[x] + Sum(f, T \ {x})
  <2>1. IsFiniteSet(T)
    BY <1>2, FS_Subset
  <2>2. \A y \in T : f[y] \in Int
    BY <1>2
  <2> QED
    BY <1>3, <2>1, <2>2, SumInt
<1>5. Sum(f, T \ {x}) \in Nat
  BY <1>2, <1>3
<1> QED
  BY <1>2, <1>3, <1>4, <1>5

(* One element more adds its value, *)
LEMMA SumAdd ==
    ASSUME NEW S, IsFiniteSet(S), NEW x, x \notin S,
           NEW f, \A y \in S \cup {x} : f[y] \in Nat
    PROVE  Sum(f, S \cup {x}) = Sum(f, S) + f[x]
<1>1. IsFiniteSet(S \cup {x}) /\ (S \cup {x}) \ {x} = S
  BY FS_AddElement
<1>2. \A y \in S \cup {x} : f[y] \in Int
  OBVIOUS
<1>3. Sum(f, S \cup {x}) = f[x] + Sum(f, (S \cup {x}) \ {x})
  BY <1>1, <1>2, SumInt
<1> QED
  BY <1>1, <1>2, <1>3, SumInt

(* and the sums of disjoint sets add up. *)
LEMMA SumDisjoint ==
    ASSUME NEW S, IsFiniteSet(S), NEW R, IsFiniteSet(R), S \cap R = {},
           NEW f, \A y \in S \cup R : f[y] \in Nat
    PROVE  Sum(f, S \cup R) = Sum(f, S) + Sum(f, R)
<1> DEFINE C == {s \in SUBSET R : Sum(f, S \cup s) # Sum(f, S) + Sum(f, s)}
<1>1. SUFFICES ASSUME C # {} PROVE FALSE
  OBVIOUS
<1>2. PICK T \in C : \A U \in C : U \subseteq T => U = T
  <2>1. C \in SUBSET (SUBSET R)
    OBVIOUS
  <2> HIDE DEF C
  <2> QED
    BY <1>1, <2>1, SmallestSubset
<1>3. Sum(f, S) \in Nat
  BY SumNat
<1>4. T # {}
  <2>1. Sum(f, S \cup {}) = Sum(f, S) + Sum(f, {})
    <3>1. S \cup {} = S /\ Sum(f, {}) = 0
      BY SumEmpty
    <3> QED
      BY <1>3, <3>1
  <2> QED
    BY <1>2, <2>1
<1>5. PICK x : x \in T
  BY <1>4
<1> DEFINE U == T \ {x}
<1>6. U \in SUBSET R /\ U # T /\ U \subseteq T /\ x \notin U /\ x \notin S
      /\ T = U \cup {x} /\ S \cup T = (S \cup U) \cup {x} /\ x \in R
  BY <1>2, <1>5
<1>7. Sum(f, S \cup U) = Sum(f, S) + Sum(f, U)
  BY <1>2, <1>6
<1> HIDE DEF C, U
<1>8. IsFiniteSet(U) /\ IsFiniteSet(S \cup U)
  BY <1>6, FS_Subset, FS_Union
<1>9. Sum(f, S \cup T) = Sum(f, S \cup U) + f[x]
  <2>1. x \notin S \cup U /\ \A y \in (S \cup U) \cup {x} : f[y] \in Nat
    BY <1>6
  <2>2. Sum(f, (S \cup U) \cup {x}) = Sum(f, S \cup U) + f[x]
    BY <1>8, <2>1, SumAdd
  <2> QED
    BY <1>6, <2>2
<1>10. Sum(f, T) = Sum(f, U) + f[x]
  <2>1. \A y \in U \cup {x} : f[y] \in Nat
    BY <1>6
  <2>2. Sum(f, U \cup {x}) = Sum(f, U) + f[x]
    BY <1>6, <1>8, <2>1, SumAdd
  <2> QED
    BY <1>6, <2>2
<1>11. Sum(f, U) \in Nat /\ f[x] \in Nat
  BY <1>6, <1>8, SumNat
<1>12. Sum(f, S \cup T) = Sum(f, S) + Sum(f, T)
  BY <1>3, <1>7, <1>9, <1>10, <1>11
<1> QED
  BY <1>2, <1>12 DEF C

-----------------------------------------------------------------------------
(* What each call adds to its bucket, and to what its caller's is charged. *)
W == [c \in CallId |-> ClampedWall(c)]

(* A clamped time is a natural number. *)
LEMMA WallsAreNat == \A c \in CallId : ClampedWall(c) \in Nat /\ W[c] = ClampedWall(c)
BY MeasureAssumption DEF ClampedWall, W

(* The sums BucketsAddUp and DeltasExact speak of are Sums of W. *)
LEMMA SumOfWalls ==
    ASSUME NEW S \in SUBSET CallId, IsFiniteSet(S)
    PROVE  MapThenSumSet(ClampedWall, S) = Sum(W, S)
<1>1. PICK g : SumsOver(g, W, S) /\ Sum(W, S) = g[S]
  BY SumIsSums
<1> DEFINE Is(h) == h = [s \in SUBSET S |->
                IF s = {} THEN 0 ELSE ClampedWall(Pick(s)) + h[s \ {Pick(s)}]]
           k == CHOOSE h : Is(h)
<1>2. \A s \in SUBSET S : s # {} => W[Pick(s)] = ClampedWall(Pick(s))
  BY WallsAreNat DEF Pick
<1>3. \A h : Is(h) <=> SumsOver(h, W, S)
  BY <1>2 DEF SumsOver
<1>4. Is(k)
  BY <1>1, <1>3
<1>5. MapThenSumSet(ClampedWall, S) = k[S]
  BY DEF MapThenSumSet, MapThenFoldSet, Pick
<1> HIDE DEF Is, k
<1>6. k = g
  BY <1>1, <1>3, <1>4, SumsUnique
<1> QED
  BY <1>1, <1>5, <1>6

(* So are SelfTimeExplained's. *)
LEMMA TookIsSum ==
    ASSUME NEW S \in SUBSET CallId, IsFiniteSet(S)
    PROVE  Took(S) = Sum(W, S)
<1>1. PICK g : SumsOver(g, W, S) /\ Sum(W, S) = g[S]
  BY SumIsSums
<1> DEFINE Is(h) == h = [s \in SUBSET S |->
                IF s = {} THEN 0 ELSE Max({0, Wall[Pick(s)]}) + h[s \ {Pick(s)}]]
           k == CHOOSE h : Is(h)
<1>2. \A c \in CallId : Max({0, Wall[c]}) = W[c]
  <2> SUFFICES ASSUME NEW c \in CallId PROVE Max({0, Wall[c]}) = W[c]
    OBVIOUS
  <2>1. Wall[c] \in Int /\ W[c] = ClampedWall(c)
    BY MeasureAssumption, WallsAreNat
  <2>2. \A x : (x \in {0, Wall[c]} /\ \A y \in {0, Wall[c]} : x >= y) <=> x = W[c]
    BY <2>1 DEF ClampedWall
  <2> QED
    BY <2>2 DEF Max
<1>3. \A s \in SUBSET S : s # {} => W[Pick(s)] = Max({0, Wall[Pick(s)]})
  BY <1>2 DEF Pick
<1>4. \A h : Is(h) <=> SumsOver(h, W, S)
  BY <1>3 DEF SumsOver
<1>5. Is(k)
  BY <1>1, <1>4
<1>6. Took(S) = k[S]
  BY DEF Took, MapThenSumSet, MapThenFoldSet, Pick
<1> HIDE DEF Is, k
<1>7. k = g
  BY <1>1, <1>4, <1>5, SumsUnique
<1> QED
  BY <1>1, <1>6, <1>7

(* If no call of H is outlasted by its callees, H is not by all of them. *)
LEMMA CalleesCovered ==
    ASSUME NEW F \in SUBSET CallId, IsFiniteSet(F), NEW H \in SUBSET F,
           \A c \in H : Sum(W, {d \in F : Parent[d] = c}) <= W[c]
    PROVE  Sum(W, {d \in F : Parent[d] \in H}) <= Sum(W, H)
<1> DEFINE Callees(h) == {d \in F : Parent[d] \in h}
           C == {h \in SUBSET H : ~(Sum(W, Callees(h)) <= Sum(W, h))}
<1>1. SUFFICES ASSUME C # {} PROVE FALSE
  OBVIOUS
<1>2. PICK T \in C : \A U \in C : U \subseteq T => U = T
  <2>1. C \in SUBSET (SUBSET H)
    OBVIOUS
  <2>2. IsFiniteSet(H)
    BY FS_Subset
  <2> HIDE DEF C
  <2> QED
    BY <1>1, <2>1, <2>2, SmallestSubset
<1>3. T # {}
  <2>1. Sum(W, {}) <= Sum(W, {}) /\ Callees({}) = {}
    BY SumEmpty
  <2>2. Sum(W, Callees({})) <= Sum(W, {})
    BY <2>1
  <2> HIDE DEF Callees
  <2> QED
    BY <1>2, <2>2
<1>4. PICK x : x \in T
  BY <1>3
<1> DEFINE U == T \ {x}
           own == {d \in F : Parent[d] = x}
<1>5. /\ U \in SUBSET H /\ U # T /\ U \subseteq T /\ x \notin U /\ T = U \cup {x}
      /\ x \in H /\ x \in CallId /\ U \in SUBSET CallId /\ U \in SUBSET F
  BY <1>2, <1>4
<1>6. Sum(W, Callees(U)) <= Sum(W, U)
  BY <1>2, <1>5
<1>7. Callees(T) = Callees(U) \cup own /\ Callees(U) \cap own = {}
  BY <1>5
<1>8. Callees(U) \in SUBSET F /\ own \in SUBSET F
  OBVIOUS
<1>9. Sum(W, own) <= W[x]
  BY <1>5
<1> HIDE DEF C, U, Callees, own
<1>10. IsFiniteSet(U) /\ IsFiniteSet(Callees(U)) /\ IsFiniteSet(own)
  BY <1>5, <1>8, FS_Subset
<1>11. \A y \in CallId : W[y] \in Nat
  BY WallsAreNat
<1>12. Sum(W, Callees(T)) = Sum(W, Callees(U)) + Sum(W, own)
  <2>1. \A y \in Callees(U) \cup own : W[y] \in Nat
    BY <1>8, <1>11
  <2> QED
    BY <1>7, <1>10, <2>1, SumDisjoint
<1>13. Sum(W, T) = Sum(W, U) + W[x]
  <2>1. \A y \in U \cup {x} : W[y] \in Nat
    BY <1>5, <1>11
  <2> QED
    BY <1>5, <1>10, <2>1, SumAdd
<1>14. Sum(W, Callees(U)) \in Nat /\ Sum(W, own) \in Nat /\ Sum(W, U) \in Nat /\ W[x] \in Nat
  <2>1. /\ \A y \in Callees(U) : W[y] \in Nat
        /\ \A y \in own : W[y] \in Nat
        /\ \A y \in U : W[y] \in Nat
    BY <1>5, <1>8, <1>11
  <2> QED
    BY <1>5, <1>10, <1>11, <2>1, SumNat
<1>15. Sum(W, Callees(T)) <= Sum(W, T)
  BY <1>6, <1>9, <1>12, <1>13, <1>14
<1> QED
  BY <1>2, <1>15 DEF C

-----------------------------------------------------------------------------
(* The calls merged into node n, and those whose time its node is charged. *)
Here(t, n) == {c \in FoldedIn(t) : t.callNode[c] = n}
Below(t, n) == {c \in FoldedIn(t) : NodeOfCaller(t, c) = n}

AddsUp(t) ==
    /\ DOMAIN t.nodes \subseteq {Root} \cup {t.callNode[c] : c \in FoldedIn(t)}
    /\ \A n \in DOMAIN t.nodes :
        /\ t.nodes[n].count = Cardinality(Here(t, n))
        /\ t.nodes[n].wall = Sum(W, Here(t, n))
        /\ t.nodes[n].childWall = Sum(W, Below(t, n))

NotedOnce(t) ==
    \A c \in CallId :
        t.anomalies["inverted_time"][c] = IF c \in FoldedIn(t) THEN FoldAnomalies(c) ELSE 0

Counted(t) == IsFiniteSet(HeldIn(t)) /\ AddsUp(t) /\ NotedOnce(t)

New == HeldIn(tables) \ HeldIn(saved)
NewInverted == {c \in FoldedIn(tables) \ FoldedIn(saved) : Wall[c] < 0}

(* What the open transaction has added to the committed tables, and counted. *)
DeltaInv ==
    pc # "idle" =>
        /\ FoldedIn(saved) \subseteq FoldedIn(tables)
        /\ HeldIn(saved) \subseteq HeldIn(tables)
        /\ \A k \in AnomalyKind, c \in CallId : anomalies[k][c] >= saved.anomalies[k][c]
        /\ outcome.newCalls = Cardinality(New)
        /\ outcome.newWall = Sum(W, New)
        /\ outcome.newAnomalies = Cardinality(NewInverted)

CountInv == Counted(tables) /\ Counted(saved) /\ DeltaInv /\ NothingLost

-----------------------------------------------------------------------------
(* A fold adds its call to one bucket, and its time to what another is charged. *)
LEMMA FoldAddsUp ==
    ASSUME Sane(tables), AddsUp(tables), IsFiniteSet(folded),
           NEW c \in CallId, NEW d \in Nat, c \notin folded,
           Fn[c] \in dict, ParentResolved(c), state = "active", Fold(c, d),
           pending' = pending \ {c}, dict' = dict, state' = state
    PROVE  AddsUp(tables')
<1> DEFINE p == ParentNode(c)
           n == Append(p, Fn[c])
           base == WithNode(n, d)
<1>1. /\ nodes \in [DOMAIN nodes -> Bucket]
      /\ callNode \in [CallId -> Seq(FnId) \cup {Unmapped}]
      /\ DOMAIN nodes \subseteq Seq(FnId)
      /\ Root \in DOMAIN nodes
      /\ \A q \in folded : callNode[q] \in DOMAIN nodes
      /\ \A q \in folded : Parent[q] \in folded \cup {Top}
  BY TableFields DEF Sane, Typed, Rooted, Placed
<1>2. /\ p \in DOMAIN nodes /\ p \in Seq(FnId) /\ Fn[c] \in FnId
      /\ Parent[c] \in folded \cup {Top}
  BY <1>1, CallAssumption DEF ParentResolved, ParentNode, folded
<1>3. n \in Seq(FnId) /\ n # Root /\ n # Unmapped /\ n # p
  <2>1. n \in Seq(FnId) /\ Len(n) = Len(p) + 1 /\ Len(p) \in Nat
    BY <1>2
  <2>2. n # <<>> /\ n # p
    BY <1>2, <2>1
  <2> QED
    BY <2>1, <2>2, UnmappedAssumption DEF Root
<1>4. /\ DOMAIN nodes' = DOMAIN nodes \cup {n}
      /\ \A m \in DOMAIN nodes' :
          /\ nodes'[m].count = base[m].count + IF m = n THEN 1 ELSE 0
          /\ nodes'[m].wall = base[m].wall + IF m = n THEN W[c] ELSE 0
          /\ nodes'[m].childWall = base[m].childWall + IF m = p THEN W[c] ELSE 0
  BY WallsAreNat DEF Fold, WithNode
<1>5. \A m \in DOMAIN nodes' : base[m] = IF m \in DOMAIN nodes THEN nodes[m] ELSE EmptyBucket(d)
  BY <1>4 DEF WithNode
<1> HIDE DEF base
<1>6. /\ callNode'[c] = n
      /\ \A q \in folded : callNode'[q] = callNode[q]
      /\ folded' = folded \cup {c}
  BY <1>1, <1>3 DEF Fold, folded
<1>7. \A m : Here(tables', m) = IF m = n THEN Here(tables, m) \cup {c} ELSE Here(tables, m)
  <2>1. \A m : Here(tables', m) = {q \in folded' : callNode'[q] = m}
    BY DEF Here, FoldedIn, folded, tables
  <2>2. \A m : Here(tables, m) = {q \in folded : callNode[q] = m}
    BY TableFields DEF Here
  <2> HIDE DEF n
  <2> QED
    BY <1>6, <2>1, <2>2
<1>8. \A m : Below(tables', m) = IF m = p THEN Below(tables, m) \cup {c} ELSE Below(tables, m)
  <2>1. \A q \in folded' : NodeOfCaller(tables', q) = NodeOfCaller(tables, q)
    BY <1>1, <1>2, <1>6 DEF NodeOfCaller, tables
  <2>2. NodeOfCaller(tables, c) = p
    BY DEF NodeOfCaller, ParentNode, tables
  <2>3. FoldedIn(tables') = folded \cup {c} /\ FoldedIn(tables) = folded
    BY <1>6 DEF FoldedIn, folded, tables
  <2> HIDE DEF p, n
  <2> QED
    BY <1>6, <2>1, <2>2, <2>3 DEF Below
<1>9. n \notin DOMAIN nodes => Here(tables, n) = {} /\ Below(tables, n) = {}
  <2>1. \A q \in folded : callNode[q] \in DOMAIN nodes /\ NodeOfCaller(tables, q) \in DOMAIN nodes
    BY <1>1 DEF NodeOfCaller, tables
  <2> QED
    BY <2>1, TableFields DEF Here, Below
<1>10. \A m : /\ Here(tables, m) \in SUBSET folded /\ Below(tables, m) \in SUBSET folded
              /\ IsFiniteSet(Here(tables, m)) /\ IsFiniteSet(Below(tables, m))
  <2>1. \A m : Here(tables, m) \in SUBSET folded /\ Below(tables, m) \in SUBSET folded
    BY TableFields DEF Here, Below
  <2> QED
    BY <2>1, FS_Subset
<1> HIDE DEF p, n
<1>11. \A m \in DOMAIN nodes' :
          /\ base[m].count = Cardinality(Here(tables, m))
          /\ base[m].wall = Sum(W, Here(tables, m))
          /\ base[m].childWall = Sum(W, Below(tables, m))
  <2> SUFFICES ASSUME NEW m \in DOMAIN nodes'
               PROVE  /\ base[m].count = Cardinality(Here(tables, m))
                      /\ base[m].wall = Sum(W, Here(tables, m))
                      /\ base[m].childWall = Sum(W, Below(tables, m))
    OBVIOUS
  <2>1. CASE m \in DOMAIN nodes
    BY <1>5, <2>1, TableFields DEF AddsUp
  <2>2. CASE m \notin DOMAIN nodes
    <3>1. m = n /\ Here(tables, m) = {} /\ Below(tables, m) = {}
      BY <1>4, <1>9, <2>2
    <3> QED
      BY <1>5, <2>2, <3>1, SumEmpty, FS_EmptySet DEF EmptyBucket
  <2> QED
    BY <2>1, <2>2
<1>12. \A q \in CallId : W[q] \in Nat
  BY WallsAreNat
<1>13. \A S \in SUBSET folded : IsFiniteSet(S) =>
          /\ Cardinality(S \cup {c}) = Cardinality(S) + 1
          /\ Sum(W, S \cup {c}) = Sum(W, S) + W[c]
          /\ Cardinality(S) \in Nat /\ Sum(W, S) \in Nat
  <2> SUFFICES ASSUME NEW S \in SUBSET folded, IsFiniteSet(S)
               PROVE  /\ Cardinality(S \cup {c}) = Cardinality(S) + 1
                      /\ Sum(W, S \cup {c}) = Sum(W, S) + W[c]
                      /\ Cardinality(S) \in Nat /\ Sum(W, S) \in Nat
    OBVIOUS
  <2>1. c \notin S /\ \A q \in S \cup {c} : W[q] \in Nat
    BY <1>12 DEF folded
  <2>2. Cardinality(S \cup {c}) = Cardinality(S) + 1
    BY <2>1, FS_AddElement
  <2>3. Sum(W, S \cup {c}) = Sum(W, S) + W[c]
    BY <2>1, SumAdd
  <2>4. \A q \in S : W[q] \in Nat
    BY <2>1
  <2> QED
    BY <2>2, <2>3, <2>4, SumNat, FS_CardinalityType
<1>14. \A m \in DOMAIN nodes' :
          /\ nodes'[m].count = Cardinality(Here(tables', m))
          /\ nodes'[m].wall = Sum(W, Here(tables', m))
          /\ nodes'[m].childWall = Sum(W, Below(tables', m))
  <2> SUFFICES ASSUME NEW m \in DOMAIN nodes'
               PROVE  /\ nodes'[m].count = Cardinality(Here(tables', m))
                      /\ nodes'[m].wall = Sum(W, Here(tables', m))
                      /\ nodes'[m].childWall = Sum(W, Below(tables', m))
    OBVIOUS
  <2> DEFINE h == Here(tables, m)
             b == Below(tables, m)
  <2>5. h \in SUBSET folded /\ IsFiniteSet(h) /\ b \in SUBSET folded /\ IsFiniteSet(b)
    BY <1>10
  <2> HIDE DEF h, b
  <2>6. /\ Cardinality(h \cup {c}) = Cardinality(h) + 1
        /\ Sum(W, h \cup {c}) = Sum(W, h) + W[c]
        /\ Sum(W, b \cup {c}) = Sum(W, b) + W[c]
        /\ Cardinality(h) \in Nat /\ Sum(W, h) \in Nat /\ Sum(W, b) \in Nat
    BY <2>5, <1>13
  <2>7. /\ Here(tables', m) = IF m = n THEN h \cup {c} ELSE h
        /\ Below(tables', m) = IF m = p THEN b \cup {c} ELSE b
    BY <1>7, <1>8 DEF h, b
  <2>1. /\ Cardinality(Here(tables', m)) = Cardinality(Here(tables, m)) + (IF m = n THEN 1 ELSE 0)
        /\ Sum(W, Here(tables', m)) = Sum(W, Here(tables, m)) + (IF m = n THEN W[c] ELSE 0)
        /\ Sum(W, Below(tables', m)) = Sum(W, Below(tables, m)) + (IF m = p THEN W[c] ELSE 0)
    BY <2>6, <2>7 DEF h, b
  <2> QED
    BY <1>4, <1>11, <2>1
<1>15. DOMAIN nodes' \subseteq {Root} \cup {callNode'[q] : q \in folded'}
  <2>1. DOMAIN nodes \subseteq {Root} \cup {callNode[q] : q \in folded}
    BY TableFields DEF AddsUp
  <2> QED
    BY <1>4, <1>6, <2>1
<1> QED
  <2>1. FoldedIn(tables') = folded' /\ tables'.nodes = nodes' /\ tables'.callNode = callNode'
    BY DEF FoldedIn, folded, tables
  <2> QED
    BY <1>14, <1>15, <2>1 DEF AddsUp

-----------------------------------------------------------------------------
(* A merge of call c into a bucket, by either of its two users. *)
FoldsOne(c, d) ==
    /\ c \in CallId /\ d \in Nat /\ c \notin folded
    /\ Fn[c] \in dict /\ ParentResolved(c)
    /\ state = "active" /\ pc \in {"calls", "drain"}
    /\ Fold(c, d)
    /\ pending' = pending \ {c}
    /\ dict' = dict /\ state' = state /\ saved' = saved /\ pc' = pc /\ seen' = seen
    /\ outcome'.newCalls = outcome.newCalls + (IF c \in pending THEN 0 ELSE 1)
    /\ outcome'.newWall = outcome.newWall + (IF c \in pending THEN 0 ELSE W[c])
    /\ outcome'.newAnomalies = outcome.newAnomalies + FoldAnomalies(c)

(* A step that touches no table and counts nothing. *)
Quiet ==
    /\ tables' = tables /\ saved' = saved /\ outcome' = outcome /\ seen' = seen
    /\ pc = "idle" => pc' = "idle"

(* What the loop counts of a call it has not met. *)
LEMMA CountNewCounts ==
    ASSUME TxnTyped, NEW c \in CallId
    PROVE  CountNew(c) = [newCalls |-> outcome.newCalls + 1,
                          newWall |-> outcome.newWall + W[c],
                          newAnomalies |-> outcome.newAnomalies,
                          touched |-> outcome.touched]
<1>1. outcome \in [newCalls : Nat, newWall : Nat, newAnomalies : Nat, touched : Nat]
  BY DEF TxnTyped
<1>2. CountNew(c) = [outcome EXCEPT !.newCalls = @ + 1, !.newWall = @ + ClampedWall(c)]
  BY Zenon DEF CountNew
<1>3. CountNew(c) = [newCalls |-> outcome.newCalls + 1,
                     newWall |-> outcome.newWall + ClampedWall(c),
                     newAnomalies |-> outcome.newAnomalies,
                     touched |-> outcome.touched]
  BY <1>1, <1>2, Zenon
<1>4. W[c] = ClampedWall(c)
  BY WallsAreNat
<1> QED
  BY <1>3, <1>4

(* The loop folds its call, *)
LEMMA FoldInBatchFolds ==
    ASSUME IInv, FoldInBatch
    PROVE  \E q, e : FoldsOne(q, e)
<1>1. PICK c \in CallId : c = current
  BY CurrentIsCall DEF FoldInBatch
<1>2. PICK d \in Nat : d = Depth[c]
  BY MeasureAssumption
<1>3. /\ NextCall /\ c \notin folded /\ c \notin pending
      /\ Fn[c] \in dict /\ ParentResolved(c)
      /\ outcome' = [CountNew(c) EXCEPT !.newAnomalies = @ + FoldAnomalies(c),
                                        !.touched = @ + 1]
  BY <1>1 DEF FoldInBatch, AlreadyKnown, ParentResolved, FoldAnomalies, CountNew
<1>4. Fold(c, d)
  BY <1>1, <1>2 DEF FoldInBatch, Fold
<1>5. /\ dict' = dict /\ state' = state /\ saved' = saved /\ pc' = pc
      /\ pc = "calls" /\ pending' = pending \ {c} /\ seen' = seen
  BY <1>3 DEF FoldInBatch, NextCall
<1>6. TxnTyped /\ state = "active" /\ d \in Nat
  BY <1>3, MeasureAssumption DEF IInv, TakesBatch, NextCall
<1>7. CountNew(c) = [newCalls |-> outcome.newCalls + 1,
                     newWall |-> outcome.newWall + W[c],
                     newAnomalies |-> outcome.newAnomalies,
                     touched |-> outcome.touched]
  BY <1>3, <1>6, CountNewCounts
<1>8. outcome' = [newCalls |-> outcome.newCalls + 1,
                  newWall |-> outcome.newWall + W[c],
                  newAnomalies |-> outcome.newAnomalies + FoldAnomalies(c),
                  touched |-> outcome.touched + 1]
  <2>1. CountNew(c) \in [newCalls : Nat, newWall : Nat, newAnomalies : Nat, touched : Nat]
    BY <1>3, <1>6, CountNewTyped
  <2>2. outcome' = [newCalls |-> CountNew(c).newCalls,
                    newWall |-> CountNew(c).newWall,
                    newAnomalies |-> CountNew(c).newAnomalies + FoldAnomalies(c),
                    touched |-> CountNew(c).touched + 1]
    BY <1>3, <2>1, Zenon
  <2> QED
    BY <1>7, <2>2
<1>9. /\ outcome'.newCalls = outcome.newCalls + (IF c \in pending THEN 0 ELSE 1)
      /\ outcome'.newWall = outcome.newWall + (IF c \in pending THEN 0 ELSE W[c])
      /\ outcome'.newAnomalies = outcome.newAnomalies + FoldAnomalies(c)
  <2>1. c \notin pending
    BY <1>3
  <2> QED
    BY <1>8, <2>1
<1>10. FoldsOne(c, d)
  BY <1>3, <1>5, <1>6, <1>9, <1>4 DEF FoldsOne
<1> QED
  BY <1>10

(* and the drain the call of its row. *)
LEMMA FoldRowFolds ==
    ASSUME IInv, NEW r \in rows, FoldRow(r)
    PROVE  FoldsOne(r[1], r[2])
<1> DEFINE c == r[1]
           d == r[2]
<1>1. /\ pc = "drain" /\ pc' = pc /\ dict' = dict /\ state' = state /\ saved' = saved
      /\ seen' = seen /\ Fold(c, d) /\ pending' = pending \ {c}
      /\ outcome' = [outcome EXCEPT !.newAnomalies = @ + FoldAnomalies(c),
                                    !.touched = @ + 1]
  BY DEF FoldRow
<1>2. Sane(tables) /\ TxnTyped /\ state = "active" /\ RowsInv
  BY <1>1 DEF IInv, TakesBatch, DrainInv
<1>3. /\ c \in CallId /\ d \in Nat /\ c \in pending /\ c \notin folded
      /\ Fn[c] \in dict /\ ParentResolved(c)
  BY <1>2, TableFields DEF TxnTyped, RowsInv, Sane, Apart
<1> HIDE DEF c, d
<1>4. outcome' = [newCalls |-> outcome.newCalls,
                  newWall |-> outcome.newWall,
                  newAnomalies |-> outcome.newAnomalies + FoldAnomalies(c),
                  touched |-> outcome.touched + 1]
  <2>1. outcome \in [newCalls : Nat, newWall : Nat, newAnomalies : Nat, touched : Nat]
    BY <1>2 DEF TxnTyped
  <2> QED
    BY <1>1, <2>1, Zenon
<1>5. outcome.newCalls \in Nat /\ outcome.newWall \in Nat
  BY <1>2 DEF TxnTyped
<1> QED
  BY <1>1, <1>2, <1>3, <1>4, <1>5 DEF FoldsOne, c, d

(* What each step does to the tables and the counters. *)
LEMMA StepKinds ==
    ASSUME IInv, [Next]_vars
    PROVE  \/ Quiet
           \/ \E b \in Batches : BeginBatch(b)
           \/ Park
           \/ \E q, e : FoldsOne(q, e)
           \/ Commit
           \/ Rollback
           \/ FinalizeTrace
<1>1. SkipKnown => Quiet
  BY DEF SkipKnown, NextCall, Quiet, tables
<1>2. SkipDrain \/ SeedDrain \/ PopParent \/ EndDrain => Quiet
  BY DEF SkipDrain, SeedDrain, PopParent, EndDrain, Quiet, tables, unchangedTables, txn
<1>3. UNCHANGED vars => Quiet
  BY DEF vars, txn, Quiet, tables
<1>4. FoldInBatch => \E q, e : FoldsOne(q, e)
  BY FoldInBatchFolds
<1>5. (\E r \in rows : FoldRow(r)) => \E q, e : FoldsOne(q, e)
  BY FoldRowFolds
<1> QED
  BY <1>1, <1>2, <1>3, <1>4, <1>5 DEF Next, Aggregate, Drain

-----------------------------------------------------------------------------
(* Nothing is there to count at first. *)
LEMMA InitCounts == Init => CountInv
<1> SUFFICES ASSUME Init PROVE CountInv
  OBVIOUS
<1>1. FoldedIn(tables) = {} /\ HeldIn(tables) = {} /\ saved = tables /\ pc = "idle" /\ seen = {}
  BY DEF Init, FoldedIn, HeldIn, tables
<1>2. tables.anomalies = NoAnomaly /\ DOMAIN tables.nodes = {}
  BY DEF Init, tables
<1>3. Counted(tables)
  BY <1>1, <1>2, FS_EmptySet DEF Counted, AddsUp, NotedOnce, NoAnomaly, AnomalyKind
<1> QED
  BY <1>1, <1>3 DEF CountInv, DeltaInv, NothingLost

(* A batch that begins adds the root, which no call is merged into; a root *)
(* that was missing has no call under it either.                           *)
LEMMA BeginCounts ==
    ASSUME IInv, CountInv, NEW b \in Batches, BeginBatch(b)
    PROVE  CountInv'
<1>1. /\ saved = tables /\ saved' = saved /\ Sane(tables) /\ seen' = seen
      /\ nodes' = WithNode(Root, 0) /\ callNode' = callNode /\ pending' = pending
      /\ anomalies' = anomalies /\ outcome' = NoOutcome
  BY DEF BeginBatch, IInv
<1>2. FoldedIn(tables') = FoldedIn(tables) /\ HeldIn(tables') = HeldIn(tables)
  BY <1>1 DEF FoldedIn, HeldIn, tables
<1>3. \A n : Here(tables', n) = Here(tables, n) /\ Below(tables', n) = Below(tables, n)
  BY <1>1, <1>2 DEF Here, Below, NodeOfCaller, tables
<1>4. AddsUp(tables')
  <2>1. /\ DOMAIN nodes' = DOMAIN nodes \cup {Root}
        /\ \A n \in DOMAIN nodes' :
              nodes'[n] = IF n \in DOMAIN nodes THEN nodes[n] ELSE EmptyBucket(0)
    BY <1>1 DEF WithNode
  <2>2. AddsUp(tables)
    BY DEF CountInv, Counted
  <2>3. Root \notin DOMAIN nodes => Here(tables, Root) = {} /\ Below(tables, Root) = {}
    <3>1. Root \notin DOMAIN nodes => FoldedIn(tables) = {}
      BY <1>1, TableFields DEF Sane, Rooted, HeldIn
    <3> QED
      BY <3>1 DEF Here, Below
  <2>4. \A n \in DOMAIN nodes' :
          /\ nodes'[n].count = Cardinality(Here(tables, n))
          /\ nodes'[n].wall = Sum(W, Here(tables, n))
          /\ nodes'[n].childWall = Sum(W, Below(tables, n))
    <3> SUFFICES ASSUME NEW n \in DOMAIN nodes'
                 PROVE  /\ nodes'[n].count = Cardinality(Here(tables, n))
                        /\ nodes'[n].wall = Sum(W, Here(tables, n))
                        /\ nodes'[n].childWall = Sum(W, Below(tables, n))
      OBVIOUS
    <3>1. CASE n \in DOMAIN nodes
      BY <2>1, <2>2, <3>1, TableFields DEF AddsUp
    <3>2. CASE n \notin DOMAIN nodes
      BY <2>1, <2>3, <3>2, SumEmpty, FS_EmptySet DEF EmptyBucket
    <3> QED
      BY <3>1, <3>2
  <2>5. DOMAIN nodes' \subseteq {Root} \cup {callNode[c] : c \in FoldedIn(tables)}
    BY <2>1, <2>2, TableFields DEF AddsUp
  <2>6. tables'.nodes = nodes' /\ tables'.callNode = callNode
    BY <1>1 DEF tables
  <2> QED
    BY <1>2, <1>3, <2>4, <2>5, <2>6 DEF AddsUp
<1>5. NotedOnce(tables') /\ tables'.anomalies = tables.anomalies
  BY <1>1, <1>2 DEF CountInv, Counted, NotedOnce, tables
<1>6. DeltaInv'
  <2>1. New' = {} /\ NewInverted' = {}
    BY <1>1, <1>2 DEF New, NewInverted
  <2>2. outcome'.newCalls = 0 /\ outcome'.newWall = 0 /\ outcome'.newAnomalies = 0
    BY <1>1 DEF NoOutcome
  <2>3. anomalies' \in [AnomalyKind -> [CallId -> Nat]] /\ saved'.anomalies = anomalies'
    BY <1>1, TableFields DEF Sane, Typed
  <2>4. \A k \in AnomalyKind, c \in CallId : anomalies'[k][c] >= saved'.anomalies[k][c]
    BY <2>3
  <2> QED
    BY <1>1, <1>2, <2>1, <2>2, <2>4, SumEmpty, FS_EmptySet DEF DeltaInv
<1>7. NothingLost'
  BY <1>1 DEF CountInv, NothingLost, savedFolded
<1> QED
  BY <1>1, <1>2, <1>4, <1>5, <1>6, <1>7 DEF CountInv, Counted

(* A transaction adds finitely many calls. *)
LEMMA NewFinite == CountInv => IsFiniteSet(New) /\ IsFiniteSet(NewInverted)
<1> SUFFICES ASSUME CountInv PROVE IsFiniteSet(New) /\ IsFiniteSet(NewInverted)
  OBVIOUS
<1>1. IsFiniteSet(HeldIn(tables))
  BY DEF CountInv, Counted
<1>2. New \in SUBSET HeldIn(tables) /\ NewInverted \in SUBSET HeldIn(tables)
  BY DEF New, NewInverted, HeldIn
<1> QED
  BY <1>1, <1>2, FS_Subset

(* A call that was not held is one more, and takes its time. *)
LEMMA NewCallCounts ==
    ASSUME Sane(tables), CountInv, NEW c \in CallId, c \notin HeldIn(tables)
    PROVE  /\ Cardinality(New \cup {c}) = Cardinality(New) + 1
           /\ Sum(W, New \cup {c}) = Sum(W, New) + W[c]
<1>1. IsFiniteSet(New) /\ c \notin New
  BY NewFinite DEF New
<1>2. New \subseteq CallId
  BY TableFields DEF New, HeldIn, FoldedIn, Sane, Typed
<1>3. \A q \in New \cup {c} : W[q] \in Nat
  BY <1>2, WallsAreNat
<1> QED
  BY <1>1, <1>3, SumAdd, FS_AddElement

(* A parked call is a new one, whose bucket is still to come. *)
LEMMA ParkCounts ==
    ASSUME IInv, CountInv, Park
    PROVE  CountInv'
<1>1. PICK c \in CallId : c = current
  BY CurrentIsCall DEF Park
<1>2. /\ NextCall /\ c \notin folded /\ c \notin pending
      /\ dict' = dict /\ nodes' = nodes /\ callNode' = callNode
      /\ anomalies' = anomalies /\ state' = state /\ saved' = saved /\ pc' = pc
      /\ seen' = seen /\ pending' = pending \cup {c} /\ pc = "calls"
  BY <1>1 DEF Park, NextCall, AlreadyKnown
<1>3. outcome' = CountNew(c)
  BY <1>1 DEF Park, CountNew
<1>4. Sane(tables) /\ TxnTyped
  BY DEF IInv
<1>5. /\ FoldedIn(tables') = FoldedIn(tables) /\ HeldIn(tables') = HeldIn(tables) \cup {c}
      /\ c \notin HeldIn(tables)
  BY <1>2, TableFields DEF FoldedIn, HeldIn, tables
<1>6. AddsUp(tables')
  <2>1. \A n : Here(tables', n) = Here(tables, n) /\ Below(tables', n) = Below(tables, n)
    BY <1>2, <1>5 DEF Here, Below, NodeOfCaller, tables
  <2>2. tables'.nodes = tables.nodes /\ tables'.callNode = tables.callNode
    BY <1>2 DEF tables
  <2> QED
    BY <1>5, <2>1, <2>2 DEF CountInv, Counted, AddsUp
<1>7. NotedOnce(tables')
  BY <1>2, <1>5 DEF CountInv, Counted, NotedOnce, tables
<1>8. Counted(tables')
  BY <1>5, <1>6, <1>7, FS_AddElement DEF CountInv, Counted
<1>9. DeltaInv'
  <2>1. DeltaInv /\ pc # "idle"
    BY <1>2 DEF CountInv
  <2>2. c \notin HeldIn(saved) /\ HeldIn(saved) \subseteq HeldIn(tables)
    BY <1>5, <2>1 DEF DeltaInv
  <2>3. New' = New \cup {c} /\ NewInverted' = NewInverted
    BY <1>2, <1>5, <2>2 DEF New, NewInverted
  <2>4. CountNew(c) = [newCalls |-> outcome.newCalls + 1,
                       newWall |-> outcome.newWall + W[c],
                       newAnomalies |-> outcome.newAnomalies,
                       touched |-> outcome.touched]
    BY <1>4, CountNewCounts
  <2>5. /\ outcome'.newCalls = outcome.newCalls + 1
        /\ outcome'.newWall = outcome.newWall + W[c]
        /\ outcome'.newAnomalies = outcome.newAnomalies
    BY <1>3, <2>4
  <2>6. /\ Cardinality(New \cup {c}) = Cardinality(New) + 1
        /\ Sum(W, New \cup {c}) = Sum(W, New) + W[c]
    BY <1>4, <1>5, NewCallCounts
  <2>7. /\ FoldedIn(saved') \subseteq FoldedIn(tables')
        /\ HeldIn(saved') \subseteq HeldIn(tables')
        /\ \A k \in AnomalyKind, q \in CallId : anomalies'[k][q] >= saved'.anomalies[k][q]
    BY <1>2, <1>5, <2>1 DEF DeltaInv
  <2>8. /\ outcome.newCalls = Cardinality(New) /\ outcome.newWall = Sum(W, New)
        /\ outcome.newAnomalies = Cardinality(NewInverted)
    BY <2>1 DEF DeltaInv
  <2> QED
    BY <2>3, <2>5, <2>6, <2>7, <2>8 DEF DeltaInv
<1>10. NothingLost'
  BY <1>2 DEF CountInv, NothingLost, savedFolded
<1> QED
  BY <1>2, <1>8, <1>9, <1>10 DEF CountInv

(* A fold counts its call once, whether it was new or parked before. *)
LEMMA FoldCounts ==
    ASSUME IInv, CountInv, NEW c, NEW d, FoldsOne(c, d)
    PROVE  CountInv'
<1>1. /\ c \in CallId /\ d \in Nat /\ c \notin folded
      /\ Fn[c] \in dict /\ ParentResolved(c)
      /\ state = "active" /\ pc \in {"calls", "drain"} /\ Fold(c, d)
      /\ pending' = pending \ {c}
      /\ dict' = dict /\ state' = state /\ saved' = saved /\ pc' = pc /\ seen' = seen
      /\ outcome'.newCalls = outcome.newCalls + (IF c \in pending THEN 0 ELSE 1)
      /\ outcome'.newWall = outcome.newWall + (IF c \in pending THEN 0 ELSE W[c])
      /\ outcome'.newAnomalies = outcome.newAnomalies + FoldAnomalies(c)
  BY DEF FoldsOne
<1>2. Sane(tables) /\ TxnTyped
  BY DEF IInv
<1>3. /\ Sane(tables)'
      /\ folded' = folded \cup {c}
      /\ HeldIn(tables') = HeldIn(tables) \cup {c}
  BY <1>1, <1>2, FoldSane
<1>4. /\ FoldedIn(tables) = folded /\ FoldedIn(tables') = folded \cup {c}
      /\ tables'.anomalies = anomalies' /\ tables.anomalies = anomalies
      /\ HeldIn(tables) = folded \cup pending
  BY <1>3, TableFields DEF FoldedIn, HeldIn, folded, tables
<1>5. IsFiniteSet(HeldIn(tables)) /\ IsFiniteSet(folded) /\ IsFiniteSet(HeldIn(tables'))
  <2>1. IsFiniteSet(HeldIn(tables)) /\ folded \in SUBSET HeldIn(tables)
    BY <1>4 DEF CountInv, Counted
  <2> QED
    BY <1>3, <2>1, FS_Subset, FS_AddElement
<1>6. AddsUp(tables')
  <2>1. AddsUp(tables)
    BY DEF CountInv, Counted
  <2> QED
    BY <1>1, <1>2, <1>5, <2>1, FoldAddsUp
<1>7. /\ anomalies \in [AnomalyKind -> [CallId -> Nat]]
      /\ \A k \in AnomalyKind, q \in CallId :
           anomalies'[k][q] = IF k = "inverted_time" /\ q = c
                              THEN anomalies[k][q] + FoldAnomalies(c)
                              ELSE anomalies[k][q]
  <2>1. anomalies \in [AnomalyKind -> [CallId -> Nat]]
    BY <1>2, TableFields DEF Sane, Typed
  <2>2. anomalies' = [anomalies EXCEPT !["inverted_time"][c] =
                         IF Wall[c] < 0 THEN @ + 1 ELSE @]
    BY <1>1 DEF Fold
  <2>3. "inverted_time" \in AnomalyKind
    BY DEF AnomalyKind
  <2>4. \A k \in AnomalyKind, q \in CallId : anomalies[k][q] \in Nat
    BY <2>1
  <2> QED
    BY <1>1, <2>1, <2>2, <2>3, <2>4 DEF FoldAnomalies
<1>8. "inverted_time" \in AnomalyKind
  BY DEF AnomalyKind
<1>9. NotedOnce(tables')
  <2>1. NotedOnce(tables)
    BY DEF CountInv, Counted
  <2>2. \A q \in CallId : anomalies["inverted_time"][q]
                            = IF q \in folded THEN FoldAnomalies(q) ELSE 0
    BY <1>4, <2>1 DEF NotedOnce
  <2>3. \A q \in CallId : anomalies'["inverted_time"][q]
                            = IF q \in folded \cup {c} THEN FoldAnomalies(q) ELSE 0
    BY <1>1, <1>7, <1>8, <2>2 DEF FoldAnomalies
  <2> QED
    BY <1>4, <2>3 DEF NotedOnce
<1>10. DeltaInv'
  <2>1. DeltaInv /\ pc # "idle"
    BY <1>1 DEF CountInv
  <2>2. /\ FoldedIn(saved) \subseteq FoldedIn(tables)
        /\ HeldIn(saved) \subseteq HeldIn(tables)
        /\ \A k \in AnomalyKind, q \in CallId : anomalies[k][q] >= saved.anomalies[k][q]
        /\ outcome.newCalls = Cardinality(New) /\ outcome.newWall = Sum(W, New)
        /\ outcome.newAnomalies = Cardinality(NewInverted)
    BY <2>1 DEF DeltaInv
  <2>3. /\ outcome'.newCalls = Cardinality(New') /\ outcome'.newWall = Sum(W, New')
    <3>1. CASE c \in pending
      <4>1. New' = New
        BY <1>1, <1>3, <1>4, <3>1 DEF New
      <4>2. outcome \in [newCalls : Nat, newWall : Nat, newAnomalies : Nat, touched : Nat]
        BY <1>2 DEF TxnTyped
      <4> QED
        BY <1>1, <2>2, <3>1, <4>1, <4>2
    <3>2. CASE c \notin pending
      <4>1. c \notin HeldIn(tables)
        BY <1>1, <1>4, <3>2
      <4>2. New' = New \cup {c}
        BY <1>1, <1>3, <2>2, <4>1 DEF New
      <4>3. /\ Cardinality(New \cup {c}) = Cardinality(New) + 1
            /\ Sum(W, New \cup {c}) = Sum(W, New) + W[c]
        BY <1>1, <1>2, <4>1, NewCallCounts
      <4> QED
        BY <1>1, <2>2, <3>2, <4>2, <4>3
    <3> QED
      BY <3>1, <3>2
  <2>4. outcome'.newAnomalies = Cardinality(NewInverted')
    <3>1. c \notin FoldedIn(saved)
      BY <1>1, <1>4, <2>2
    <3>2. NewInverted' = IF Wall[c] < 0 THEN NewInverted \cup {c} ELSE NewInverted
      BY <1>1, <1>4, <3>1 DEF NewInverted
    <3>3. c \notin NewInverted /\ IsFiniteSet(NewInverted)
      BY <1>1, <1>4, NewFinite DEF NewInverted
    <3>4. /\ Cardinality(NewInverted \cup {c}) = Cardinality(NewInverted) + 1
          /\ Cardinality(NewInverted) \in Nat
      BY <3>3, FS_AddElement, FS_CardinalityType
    <3> QED
      BY <1>1, <2>2, <3>2, <3>4 DEF FoldAnomalies
  <2>5. \A k \in AnomalyKind, q \in CallId : anomalies'[k][q] >= saved'.anomalies[k][q]
    <3>1. saved.anomalies \in [AnomalyKind -> [CallId -> Nat]]
      BY DEF IInv, Sane, Typed
    <3>2. FoldAnomalies(c) \in Nat
      BY DEF FoldAnomalies
    <3> QED
      BY <1>1, <1>7, <2>2, <3>1, <3>2
  <2> QED
    BY <1>1, <1>3, <1>4, <2>2, <2>3, <2>4, <2>5 DEF DeltaInv
<1>11. NothingLost'
  BY <1>1 DEF CountInv, NothingLost, savedFolded
<1> QED
  BY <1>1, <1>5, <1>6, <1>9, <1>10, <1>11 DEF CountInv, Counted

(* A commit keeps what was held or noted, and its batch is held by now. *)
LEMMA CommitCounts ==
    ASSUME IInv, CountInv, Commit
    PROVE  CountInv'
<1>1. /\ tables' = tables /\ saved' = tables /\ pc' = "idle" /\ pc = "commit"
      /\ seen' = seen \cup CallsOf(batch)
  BY DEF Commit, unchangedTables, tables
<1>2. DeltaInv /\ TakesBatch /\ TxnTyped /\ Sane(tables) /\ Sane(saved)
  BY DEF IInv, CountInv
<1>3. CallsOf(batch) \subseteq HeldIn(tables)
  <2>1. todo = <<>>
    BY <1>1, <1>2 DEF TakesBatch
  <2>2. {todo[i] : i \in DOMAIN todo} = {}
    BY <2>1
  <2> QED
    BY <1>1, <1>2, <2>2 DEF TakesBatch
<1>4. NothingLost'
  <2> SUFFICES ASSUME NEW c \in seen \cup CallsOf(batch)
               PROVE  \/ c \in HeldIn(tables)
                      \/ \E k \in AnomalyKind : anomalies[k][c] > 0
    BY <1>1, TableFields DEF NothingLost, HeldIn, FoldedIn, savedFolded
  <2>1. CASE c \in CallsOf(batch)
    BY <1>3, <2>1
  <2>2. CASE c \in seen
    <3>1. c \in HeldIn(saved) \/ \E k \in AnomalyKind : saved.anomalies[k][c] > 0
      BY <2>2 DEF CountInv, NothingLost, HeldIn, FoldedIn, savedFolded
    <3>2. CASE c \in HeldIn(saved)
      BY <1>1, <1>2, <3>2 DEF DeltaInv
    <3>3. CASE \E k \in AnomalyKind : saved.anomalies[k][c] > 0
      <4>1. PICK k \in AnomalyKind : saved.anomalies[k][c] > 0
        BY <3>3
      <4>2. c \in CallId
        BY <1>2, <2>2 DEF TxnTyped
      <4>3. anomalies[k][c] >= saved.anomalies[k][c]
        BY <1>1, <1>2, <4>2 DEF DeltaInv
      <4>4. anomalies[k][c] \in Nat /\ saved.anomalies[k][c] \in Nat
        BY <1>2, <4>2, TableFields DEF Sane, Typed
      <4> QED
        BY <4>1, <4>3, <4>4
    <3> QED
      BY <3>1, <3>2, <3>3
  <2> QED
    BY <2>1, <2>2
<1> QED
  BY <1>1, <1>4 DEF CountInv, DeltaInv

(* A rollback leaves the committed counts. *)
LEMMA RollbackCounts ==
    ASSUME IInv, CountInv, Rollback
    PROVE  CountInv'
<1>1. Sane(saved)
  BY DEF IInv
<1>2. tables' = saved /\ saved' = saved /\ pc' = "idle" /\ seen' = seen
  BY <1>1 DEF Rollback, Sane, Typed, tables
<1> QED
  BY <1>2 DEF CountInv, DeltaInv, NothingLost, savedFolded

(* What is given up is noted, and the inverted calls' notes are not touched. *)
LEMMA FinalizeCounts ==
    ASSUME IInv, CountInv, FinalizeTrace
    PROVE  CountInv'
<1>1. /\ pc = "idle" /\ pc' = "idle" /\ saved = tables /\ saved' = tables'
      /\ seen' = seen /\ nodes' = nodes /\ callNode' = callNode /\ pending' = {}
  BY DEF FinalizeTrace, IInv
<1>2. /\ FoldedIn(tables') = FoldedIn(tables) /\ HeldIn(tables') = FoldedIn(tables)
      /\ HeldIn(tables) = FoldedIn(tables) \cup pending
  BY <1>1 DEF FoldedIn, HeldIn, tables
<1>3. \A k \in AnomalyKind, c \in CallId :
        anomalies'[k][c] = IF c \in pending /\ k = GivenUpAs(c)
                           THEN anomalies[k][c] + 1 ELSE anomalies[k][c]
  BY DEF FinalizeTrace
<1>4. anomalies \in [AnomalyKind -> [CallId -> Nat]] /\ pending \subseteq CallId
  BY TableFields DEF IInv, Sane, Typed
<1>5. \A c : GivenUpAs(c) \in AnomalyKind /\ GivenUpAs(c) # "inverted_time"
  BY DEF GivenUpAs, AnomalyKind
<1>6. Counted(tables')
  <2>1. IsFiniteSet(HeldIn(tables'))
    BY <1>2, FS_Subset DEF CountInv, Counted
  <2>2. AddsUp(tables')
    <3>1. \A n : Here(tables', n) = Here(tables, n) /\ Below(tables', n) = Below(tables, n)
      BY <1>1, <1>2 DEF Here, Below, NodeOfCaller, tables
    <3>2. tables'.nodes = tables.nodes /\ tables'.callNode = tables.callNode
      BY <1>1 DEF tables
    <3> QED
      BY <1>2, <3>1, <3>2 DEF CountInv, Counted, AddsUp
  <2>3. NotedOnce(tables')
    <3>1. \A c \in CallId : anomalies'["inverted_time"][c] = anomalies["inverted_time"][c]
      BY <1>3, <1>5 DEF AnomalyKind
    <3>2. tables'.anomalies = anomalies'
      BY DEF tables
    <3> QED
      BY <1>2, <3>1, <3>2, TableFields DEF CountInv, Counted, NotedOnce
  <2> QED
    BY <2>1, <2>2, <2>3 DEF Counted
<1>7. NothingLost'
  <2> SUFFICES ASSUME NEW c \in seen
               PROVE  \/ c \in HeldIn(tables')
                      \/ \E k \in AnomalyKind : anomalies'[k][c] > 0
    BY <1>1, TableFields DEF NothingLost, HeldIn, FoldedIn, savedFolded, tables
  <2>1. c \in CallId
    BY DEF IInv, TxnTyped
  <2>2. c \in HeldIn(tables) \/ \E k \in AnomalyKind : anomalies[k][c] > 0
    BY <1>1, TableFields DEF CountInv, NothingLost, HeldIn, FoldedIn, savedFolded
  <2>3. CASE c \in FoldedIn(tables)
    BY <1>2, <2>3
  <2>4. CASE c \in pending
    <3>1. anomalies'[GivenUpAs(c)][c] = anomalies[GivenUpAs(c)][c] + 1
      BY <1>3, <1>5, <2>1, <2>4
    <3>2. anomalies[GivenUpAs(c)][c] \in Nat
      BY <1>4, <1>5, <2>1
    <3>3. anomalies'[GivenUpAs(c)][c] > 0
      BY <3>1, <3>2
    <3> QED
      BY <1>5, <3>3
  <2>5. CASE \E k \in AnomalyKind : anomalies[k][c] > 0
    <3>1. PICK k \in AnomalyKind : anomalies[k][c] > 0
      BY <2>5
    <3>2. anomalies[k][c] \in Nat
      BY <1>4, <2>1
    <3>3. anomalies'[k][c] > 0
      BY <1>3, <2>1, <3>1, <3>2
    <3> QED
      BY <3>3
  <2> QED
    BY <1>2, <2>2, <2>3, <2>4, <2>5
<1> QED
  BY <1>1, <1>6, <1>7 DEF CountInv, DeltaInv

(* Every step keeps the counts. *)
LEMMA NextCounts == IInv /\ CountInv /\ [Next]_vars => CountInv'
<1> SUFFICES ASSUME IInv, CountInv, [Next]_vars PROVE CountInv'
  OBVIOUS
<1>1. CASE Quiet
  BY <1>1 DEF Quiet, CountInv, DeltaInv, New, NewInverted, NothingLost, savedFolded, tables
<1>2. CASE \E q, e : FoldsOne(q, e)
  BY <1>2, FoldCounts
<1> QED
  BY <1>1, <1>2, StepKinds, BeginCounts, ParkCounts, CommitCounts, RollbackCounts, FinalizeCounts

(* The counts are right in every reachable state. *)
THEOREM CountsHold == Spec => []CountInv
BY InitCounts, NextCounts, Inductive, PTL DEF Spec

(* No call of a committed batch goes missing: it is merged, parked or noted. *)
THEOREM NothingLostHolds == Spec => []NothingLost
BY CountsHold, PTL DEF CountInv

(* An inverted call is noted when it is merged, and never again. *)
THEOREM InvertedOnceHolds == Spec => []InvertedOnce
<1>1. CountInv => InvertedOnce
  BY TableFields DEF CountInv, Counted, NotedOnce, InvertedOnce
<1> QED
  BY <1>1, CountsHold, PTL

(***************************************************************************)
(* A bucket's counters are the sums over the calls mapped to it and over   *)
(* their callees, in every state of the transaction and for any trace.     *)
(***************************************************************************)
THEOREM BucketsAddUpHolds == Spec => []BucketsAddUp
<1>1. ASSUME IInv, CountInv PROVE BucketsAddUp
  <2>1. AddsUp(tables) /\ IsFiniteSet(HeldIn(tables)) /\ Sane(tables)
    BY <1>1 DEF IInv, CountInv, Counted
  <2>2. \A c \in folded : ParentNode(c) = NodeOfCaller(tables, c)
    BY TableFields DEF ParentNode, NodeOfCaller
  <2>3. \A n : /\ {c \in folded : callNode[c] = n} = Here(tables, n)
               /\ {c \in folded : ParentNode(c) = n} = Below(tables, n)
    BY <2>2, TableFields DEF Here, Below
  <2>4. \A n : /\ MapThenSumSet(ClampedWall, Here(tables, n)) = Sum(W, Here(tables, n))
               /\ MapThenSumSet(ClampedWall, Below(tables, n)) = Sum(W, Below(tables, n))
    <3> SUFFICES ASSUME NEW n
                 PROVE  /\ MapThenSumSet(ClampedWall, Here(tables, n)) = Sum(W, Here(tables, n))
                        /\ MapThenSumSet(ClampedWall, Below(tables, n)) = Sum(W, Below(tables, n))
      OBVIOUS
    <3>1. /\ Here(tables, n) \in SUBSET HeldIn(tables)
          /\ Below(tables, n) \in SUBSET HeldIn(tables)
          /\ Here(tables, n) \in SUBSET CallId
          /\ Below(tables, n) \in SUBSET CallId
      BY DEF Here, Below, HeldIn, FoldedIn
    <3>2. IsFiniteSet(Here(tables, n)) /\ IsFiniteSet(Below(tables, n))
      BY <2>1, <3>1, FS_Subset
    <3> QED
      BY <3>1, <3>2, SumOfWalls
  <2>5. \A n \in DOMAIN nodes :
          /\ nodes[n].count = Cardinality({c \in folded : callNode[c] = n})
          /\ nodes[n].wall = MapThenSumSet(ClampedWall, {c \in folded : callNode[c] = n})
          /\ nodes[n].childWall = MapThenSumSet(ClampedWall, {c \in folded : ParentNode(c) = n})
    <3> SUFFICES ASSUME NEW n \in DOMAIN nodes
                 PROVE  /\ nodes[n].count = Cardinality(Here(tables, n))
                        /\ nodes[n].wall = MapThenSumSet(ClampedWall, Here(tables, n))
                        /\ nodes[n].childWall = MapThenSumSet(ClampedWall, Below(tables, n))
      BY <2>3
    <3> QED
      BY <2>1, <2>4, TableFields DEF AddsUp
  <2>6. DOMAIN nodes \subseteq {Root} \cup {callNode[c] : c \in folded}
    BY <2>1, TableFields DEF AddsUp
  <2> QED
    BY <2>5, <2>6 DEF BucketsAddUp
<1> QED
  BY <1>1, CountsHold, Inductive, PTL

(* What the index is told of a transaction is what the transaction did. *)
THEOREM DeltasExactHolds == Spec => []DeltasExact
<1>1. ASSUME IInv, CountInv PROVE DeltasExact
  <2>1. /\ (folded \cup pending) \ (savedFolded \cup saved.pending) = New
        /\ {c \in folded \ savedFolded : Wall[c] < 0} = NewInverted
    BY TableFields DEF New, NewInverted, HeldIn, FoldedIn, savedFolded
  <2>2. IsFiniteSet(New) /\ New \in SUBSET CallId
    BY <1>1, NewFinite, TableFields DEF New, HeldIn, FoldedIn, IInv, Sane, Typed
  <2>3. MapThenSumSet(ClampedWall, New) = Sum(W, New)
    BY <2>2, SumOfWalls
  <2> QED
    BY <1>1, <2>1, <2>3 DEF CountInv, DeltaInv, DeltasExact
<1> QED
  BY <1>1, CountsHold, Inductive, PTL

(***************************************************************************)
(* "A redelivered batch contributes 0" (storage/mod.rs): true of every     *)
(* batch none of whose calls was given up by a finalize, delivered in      *)
(* whatever pieces and company.                                            *)
(***************************************************************************)
GivenUp(c) == \E k \in AnomalyKind \ {"inverted_time"} : saved.anomalies[k][c] > 0

THEOREM RedeliveryHolds ==
    Spec => []((\A c \in CallsOf(batch) : ~GivenUp(c)) => RedeliveryAddsNothing)
<1>1. ASSUME IInv, CountInv, \A c \in CallsOf(batch) : ~GivenUp(c), pc = "commit"
      PROVE  outcome.newCalls <= Cardinality(CallsOf(batch) \ seen)
  <2>1. /\ HeldIn(tables) = HeldIn(saved) \cup CallsOf(batch)
        /\ IsFiniteSet(CallsOf(batch))
    <3>1. todo = <<>> /\ TakesBatch
      BY <1>1 DEF IInv, TakesBatch
    <3>2. {todo[i] : i \in DOMAIN todo} = {}
      BY <3>1
    <3>3. HeldIn(tables) = HeldIn(saved) \cup CallsOf(batch)
      BY <1>1, <3>1, <3>2 DEF TakesBatch
    <3>4. IsFiniteSet(HeldIn(tables))
      BY <1>1 DEF CountInv, Counted
    <3> QED
      BY <3>3, <3>4, FS_Subset
  <2>2. New \subseteq CallsOf(batch) \ seen
    <3> SUFFICES ASSUME NEW c \in New, c \in seen PROVE FALSE
      BY <2>1 DEF New
    <3>1. c \in CallId /\ c \notin HeldIn(saved) /\ c \in CallsOf(batch)
      BY <1>1, <2>1 DEF New, IInv, TxnTyped
    <3>2. PICK k \in AnomalyKind : saved.anomalies[k][c] > 0
      BY <1>1, <3>1 DEF CountInv, NothingLost, HeldIn, FoldedIn, savedFolded
    <3>3. k = "inverted_time"
      BY <1>1, <3>1, <3>2 DEF GivenUp
    <3>4. saved.anomalies["inverted_time"][c] = 0
      BY <1>1, <3>1 DEF CountInv, Counted, NotedOnce, HeldIn
    <3>5. ~ (0 > 0)
      OBVIOUS
    <3> QED
      BY <3>2, <3>3, <3>4, <3>5
  <2>3. Cardinality(New) <= Cardinality(CallsOf(batch) \ seen)
    BY <2>1, <2>2, FS_Subset
  <2> QED
    BY <1>1, <2>3 DEF CountInv, DeltaInv
<1>2. IInv /\ CountInv => ((\A c \in CallsOf(batch) : ~GivenUp(c)) => RedeliveryAddsNothing)
  BY <1>1 DEF RedeliveryAddsNothing
<1> QED
  BY <1>2, CountsHold, Inductive, PTL

(***************************************************************************)
(* A bucket's time covers its children's unless the recorder itself sent a *)
(* call whose callees outlast it: the calls under a bucket are the callees *)
(* of the calls in it, whichever batch brought them.                       *)
(***************************************************************************)
THEOREM SelfTimeExplainedHolds == Spec => []SelfTimeExplained
<1>1. ASSUME IInv, CountInv PROVE SelfTimeExplained
  <2> SUFFICES ASSUME NEW n \in DOMAIN nodes \ {Root},
                      \A c \in folded : callNode[c] = n => ~(Took(CalleesOf(c)) > Took({c}))
               PROVE  ~(nodes[n].wall < nodes[n].childWall)
    BY DEF SelfTimeExplained
  <2> DEFINE H == Here(tables, n)
  <2>1. /\ AddsUp(tables) /\ IsFiniteSet(HeldIn(tables)) /\ Sane(tables)
    BY <1>1 DEF IInv, CountInv, Counted
  <2>2. folded \in SUBSET CallId /\ IsFiniteSet(folded)
    <3>1. folded \in SUBSET HeldIn(tables)
      BY TableFields DEF HeldIn
    <3> QED
      BY <2>1, <3>1, FS_Subset DEF folded
  <2>3. H \in SUBSET folded /\ \A c \in H : callNode[c] = n
    BY TableFields DEF Here
  <2>4. \A c \in H : Sum(W, {d \in folded : Parent[d] = c}) <= W[c]
    <3> SUFFICES ASSUME NEW c \in H PROVE Sum(W, CalleesOf(c)) <= W[c]
      BY DEF CalleesOf
    <3>1. c \in CallId /\ CalleesOf(c) \in SUBSET folded /\ IsFiniteSet(CalleesOf(c))
      BY <2>2, <2>3, FS_Subset DEF CalleesOf
    <3>2. Took(CalleesOf(c)) = Sum(W, CalleesOf(c))
      BY <2>2, <3>1, TookIsSum
    <3>3. Took({c}) = Sum(W, {c})
      BY <3>1, FS_Singleton, TookIsSum
    <3>4. \A q \in CallId : W[q] \in Nat
      BY WallsAreNat
    <3>5. Sum(W, {c}) = W[c]
      <4>1. Sum(W, {} \cup {c}) = Sum(W, {}) + W[c]
        BY <3>1, <3>4, FS_EmptySet, SumAdd
      <4>2. {} \cup {c} = {c} /\ W[c] \in Nat
        BY <3>1, <3>4
      <4> QED
        BY <4>1, <4>2, SumEmpty
    <3>6. Sum(W, CalleesOf(c)) \in Nat
      <4>1. \A q \in CalleesOf(c) : W[q] \in Nat
        BY <2>2, <3>1, <3>4
      <4> QED
        BY <3>1, <4>1, SumNat
    <3>7. ~(Took(CalleesOf(c)) > Took({c}))
      BY <2>3
    <3> QED
      BY <3>1, <3>2, <3>3, <3>4, <3>5, <3>6, <3>7
  <2>5. Sum(W, {d \in folded : Parent[d] \in H}) <= Sum(W, H)
    <3> HIDE DEF H
    <3> QED
      BY <2>2, <2>3, <2>4, CalleesCovered
  <2>6. {d \in folded : Parent[d] \in H} = Below(tables, n)
    <3>1. \A d \in folded : Parent[d] \in folded \cup {Top}
      BY <2>1, TableFields DEF Sane, Placed
    <3>2. Top \notin folded
      BY <2>2, CallAssumption
    <3> QED
      BY <3>1, <3>2, TableFields DEF Below, Here, NodeOfCaller
  <2>7. nodes[n].wall = Sum(W, H) /\ nodes[n].childWall = Sum(W, Below(tables, n))
    BY <2>1, TableFields DEF AddsUp
  <2>8. nodes[n] \in Bucket
    BY <2>1, TableFields DEF Sane, Typed
  <2> HIDE DEF H
  <2> QED
    BY <2>5, <2>6, <2>7, <2>8 DEF Bucket
<1> QED
  BY <1>1, CountsHold, Inductive, PTL

-----------------------------------------------------------------------------
(***************************************************************************)
(* The calls with a chain of frames up to the root: in every set that has  *)
(* each call whose caller it has, or that has no caller.  A call under a   *)
(* cycle of callers is none.                                               *)
(***************************************************************************)
RootedCalls ==
    {c \in CallId : \A S \in SUBSET CallId :
        (\A d \in CallId : Parent[d] \in S \cup {Top} => d \in S) => c \in S}

(* The recorder numbers the frames of a stack from 0, as wire.rs has it, or *)
(* from 1, as the tests of the storage have it.                            *)
WireDepths ==
    \A c \in RootedCalls :
        IF Parent[c] = Top THEN Depth[c] \in {0, 1} ELSE Depth[c] = Depth[Parent[c]] + 1

(* d is the length of n, or one less. *)
Within(d, n) == d \in {Len(n) - 1, Len(n)}

Deep(t) ==
    /\ \A c \in FoldedIn(t) : c \in RootedCalls /\ Within(Depth[c], t.callNode[c])
    /\ \A n \in DOMAIN t.nodes : Within(t.nodes[n].depth, n)

(* The drain knows how deep what it resolved, and what it found, may be. *)
DepthInv ==
    /\ Deep(tables)
    /\ Deep(saved)
    /\ \A r \in rows : Within(r[2] - 1, ParentNode(r[1]))
    /\ \A i \in DOMAIN work : Within(work[i][2], callNode[work[i][1]])
    /\ pc # "drain" => rows = {}

(* A merged call, its caller merged or absent, is rooted and within one of the wire. *)
LEMMA FoldedDepth ==
    ASSUME WireDepths, Sane(tables), Deep(tables), NEW c \in CallId, ParentResolved(c),
           state = "active"
    PROVE  /\ c \in RootedCalls
           /\ ParentNode(c) \in Seq(FnId) /\ ParentNode(c) \in DOMAIN nodes
           /\ Within(Depth[c] - 1, ParentNode(c))
<1>1. Parent[c] \in folded \cup {Top}
  BY DEF ParentResolved
<1>2. \A q \in folded : q \in RootedCalls /\ Within(Depth[q], callNode[q])
  BY TableFields DEF Deep
<1>3. c \in RootedCalls
  BY <1>1, <1>2 DEF RootedCalls
<1>4. ParentNode(c) \in DOMAIN nodes /\ DOMAIN nodes \subseteq Seq(FnId)
  BY TableFields DEF Sane, Typed, Rooted, ParentResolved, ParentNode, FoldedIn
<1>5. Within(Depth[c] - 1, ParentNode(c))
  <2>1. CASE Parent[c] = Top
    <3>1. Len(Root) = 0
      BY DEF Root
    <3> QED
      BY <1>3, <2>1, <3>1 DEF WireDepths, ParentNode, Within
  <2>2. CASE Parent[c] # Top
    <3>1. Parent[c] \in folded /\ Depth[c] = Depth[Parent[c]] + 1
      BY <1>1, <1>3, <2>2 DEF WireDepths
    <3>2. Within(Depth[Parent[c]], callNode[Parent[c]]) /\ Depth[Parent[c]] \in Nat
      BY <1>2, <2>2, <3>1, CallAssumption, MeasureAssumption
    <3> QED
      BY <2>2, <3>1, <3>2 DEF ParentNode
  <2> QED
    BY <2>1, <2>2
<1> QED
  BY <1>3, <1>4, <1>5

(* A fold puts its call at its depth and moves no other. *)
LEMMA FoldDeep ==
    ASSUME WireDepths, Sane(tables), Deep(tables),
           NEW c \in CallId, NEW d \in Nat, Within(d - 1, ParentNode(c)), c \notin folded,
           Fn[c] \in dict, ParentResolved(c), state = "active", Fold(c, d)
    PROVE  /\ Deep(tables')
           /\ Within(d, callNode'[c])
           /\ \A q \in folded : callNode'[q] = callNode[q]
<1> DEFINE p == ParentNode(c)
           n == Append(p, Fn[c])
<1>1. c \in RootedCalls /\ p \in Seq(FnId) /\ Within(Depth[c] - 1, p)
  BY FoldedDepth
<1>2. callNode \in [CallId -> Seq(FnId) \cup {Unmapped}] /\ Fn[c] \in FnId
  BY TableFields, CallAssumption DEF Sane, Typed
<1>3. n \in Seq(FnId) /\ Within(d, n) /\ Within(Depth[c], n) /\ n # Unmapped
  <2>1. n \in Seq(FnId) /\ Len(n) = Len(p) + 1
    BY <1>1, <1>2
  <2>2. Len(p) \in Nat /\ Depth[c] \in Nat
    BY <1>1, MeasureAssumption
  <2>3. Within(d - 1, p) /\ Within(Depth[c] - 1, p)
    BY <1>1
  <2> HIDE DEF n, p
  <2>4. Within(d, n) /\ Within(Depth[c], n)
    BY <2>1, <2>2, <2>3 DEF Within
  <2> QED
    BY <2>1, <2>4, UnmappedAssumption
<1>4. /\ \A m \in DOMAIN nodes' :
          nodes'[m].depth = IF m \in DOMAIN nodes THEN nodes[m].depth ELSE d
      /\ DOMAIN nodes' = DOMAIN nodes \cup {n}
  BY DEF Fold, WithNode, EmptyBucket
<1>5. callNode' = [callNode EXCEPT ![c] = n]
  BY DEF Fold
<1> HIDE DEF p, n
<1>6. /\ callNode'[c] = n
      /\ \A q \in folded : callNode'[q] = callNode[q]
      /\ folded' = folded \cup {c}
  BY <1>2, <1>3, <1>5 DEF folded
<1>7. \A q \in folded : q \in RootedCalls /\ Within(Depth[q], callNode[q])
  BY TableFields DEF Deep
<1>8. \A m \in DOMAIN nodes : Within(nodes[m].depth, m)
  BY TableFields DEF Deep
<1>9. /\ \A q \in folded' : q \in RootedCalls /\ Within(Depth[q], callNode'[q])
      /\ \A m \in DOMAIN nodes' : Within(nodes'[m].depth, m)
  BY <1>1, <1>3, <1>4, <1>6, <1>7, <1>8 DEF p
<1>10. FoldedIn(tables') = folded' /\ tables'.nodes = nodes' /\ tables'.callNode = callNode'
  BY DEF FoldedIn, folded, tables
<1>11. Deep(tables')
  BY <1>9, <1>10 DEF Deep
<1> QED
  BY <1>3, <1>6, <1>11

(* The loop folds at the depth of the wire, *)
LEMMA FoldInBatchDepths ==
    ASSUME WireDepths, IInv, DepthInv, FoldInBatch
    PROVE  DepthInv'
<1>1. PICK c \in CallId : c = current
  BY CurrentIsCall DEF FoldInBatch
<1>2. PICK d \in Nat : d = Depth[c]
  BY MeasureAssumption
<1>3. /\ c \notin folded /\ Fn[c] \in dict /\ ParentResolved(c) /\ pc = "calls"
      /\ saved' = saved /\ rows' = rows /\ work' = work /\ pc' = pc
  BY <1>1 DEF FoldInBatch, AlreadyKnown, ParentResolved, NextCall
<1>4. Fold(c, d)
  BY <1>1, <1>2 DEF FoldInBatch, Fold
<1>5. Sane(tables) /\ state = "active" /\ Deep(tables) /\ rows = {} /\ work = <<>>
  BY <1>3 DEF IInv, TakesBatch, DepthInv, DrainInv
<1>6. Within(d - 1, ParentNode(c))
  BY <1>2, <1>3, <1>5, FoldedDepth
<1>7. Deep(tables')
  BY <1>3, <1>4, <1>5, <1>6, FoldDeep
<1> QED
  BY <1>3, <1>5, <1>7 DEF DepthInv

(* the drain at the depth of its row, *)
LEMMA FoldRowDepths ==
    ASSUME WireDepths, IInv, DepthInv, NEW r \in rows, FoldRow(r)
    PROVE  DepthInv'
<1> DEFINE c == r[1]
           d == r[2]
<1>1. /\ pc = "drain" /\ pc' = pc /\ saved' = saved /\ Fold(c, d)
      /\ rows' = rows \ {r} /\ work' = Append(work, r)
  BY DEF FoldRow
<1>2. Sane(tables) /\ TxnTyped /\ state = "active" /\ RowsInv /\ WorkInv /\ Deep(tables)
  BY <1>1 DEF IInv, TakesBatch, DrainInv, DepthInv
<1>3. /\ c \in CallId /\ d \in Nat /\ c \notin folded
      /\ Fn[c] \in dict /\ ParentResolved(c) /\ Within(d - 1, ParentNode(c))
  BY <1>2, TableFields DEF TxnTyped, RowsInv, Sane, Apart, DepthInv
<1> HIDE DEF c, d
<1>4. /\ Deep(tables') /\ Within(d, callNode'[c])
      /\ \A q \in folded : callNode'[q] = callNode[q]
  BY <1>1, <1>2, <1>3, FoldDeep
<1>5. \A q \in rows' : Within(q[2] - 1, ParentNode(q[1])')
  <2> SUFFICES ASSUME NEW q \in rows PROVE Within(q[2] - 1, ParentNode(q[1])')
    BY <1>1
  <2>1. Within(q[2] - 1, ParentNode(q[1])) /\ Parent[q[1]] \in folded \cup {Top}
    BY <1>2 DEF DepthInv, RowsInv, ParentResolved
  <2>2. ParentNode(q[1])' = ParentNode(q[1])
    BY <1>4, <2>1 DEF ParentNode
  <2> QED
    BY <2>1, <2>2
<1>6. \A i \in DOMAIN work' : Within(work'[i][2], callNode'[work'[i][1]])
  <2>1. work \in Seq(CallId \X Nat) /\ r \in CallId \X Nat
    BY <1>2 DEF TxnTyped
  <2>2. \A i \in DOMAIN work' :
          \/ i \in DOMAIN work /\ work'[i] = work[i]
          \/ work'[i] = r
    BY <1>1, <2>1
  <2>3. \A i \in DOMAIN work : Within(work[i][2], callNode'[work[i][1]])
    BY <1>2, <1>4 DEF DepthInv, WorkInv
  <2>4. Within(r[2], callNode'[r[1]])
    BY <1>4 DEF c, d
  <2> QED
    BY <2>2, <2>3, <2>4
<1> QED
  BY <1>1, <1>4, <1>5, <1>6 DEF DepthInv

(* which is one below the caller for the rows of the seed query *)
LEMMA SeedDrainDepths ==
    ASSUME WireDepths, IInv, DepthInv, SeedDrain
    PROVE  DepthInv'
<1>1. /\ tables' = tables /\ saved' = saved /\ callNode' = callNode /\ work' = work
      /\ pc' = "drain" /\ pc = "calls"
      /\ rows' = {<<c, DrainDepth(c)>> : c \in Unblocked}
  BY DEF SeedDrain, unchangedTables, tables
<1>2. Sane(tables) /\ state = "active" /\ Deep(tables)
  BY <1>1 DEF IInv, TakesBatch, DepthInv
<1>3. \A c \in Unblocked : Within(DrainDepth(c) - 1, ParentNode(c))
  <2> SUFFICES ASSUME NEW c \in Unblocked PROVE Within(DrainDepth(c) - 1, ParentNode(c))
    OBVIOUS
  <2>1. ParentNode(c) \in DOMAIN nodes
    BY <1>2, TableFields
       DEF Unblocked, Sane, Rooted, ParentResolved, ParentNode, FoldedIn
  <2> QED
    <3>1. Within(nodes[ParentNode(c)].depth, ParentNode(c)) /\ nodes[ParentNode(c)].depth \in Nat
      BY <1>2, <2>1, TableFields DEF Deep, Sane, Typed, Bucket
    <3> QED
      BY <3>1 DEF DrainDepth
<1>4. \A r \in rows' : Within(r[2] - 1, ParentNode(r[1]))
  <2> SUFFICES ASSUME NEW c \in Unblocked
               PROVE  Within(<<c, DrainDepth(c)>>[2] - 1, ParentNode(<<c, DrainDepth(c)>>[1]))
    BY <1>1
  <2> QED
    BY <1>3
<1>5. \A c : ParentNode(c)' = ParentNode(c)
  BY <1>1 DEF ParentNode
<1> QED
  BY <1>1, <1>4, <1>5 DEF DepthInv

(* and for those of the cascade. *)
LEMMA PopParentDepths ==
    ASSUME WireDepths, IInv, DepthInv, PopParent
    PROVE  DepthInv'
<1> DEFINE top == Head(work)
<1>1. /\ tables' = tables /\ saved' = saved /\ callNode' = callNode /\ pc' = pc
      /\ pc = "drain" /\ work # <<>> /\ work' = Tail(work)
      /\ rows' = {<<c, top[2] + 1>> : c \in ChildrenOf(top[1])}
  BY DEF PopParent, unchangedTables, tables
<1>2. TxnTyped /\ WorkInv
  BY <1>1 DEF IInv, DrainInv
<1>3. /\ top = work[1] /\ 1 \in DOMAIN work /\ top \in CallId \X Nat
      /\ \A i \in DOMAIN work' : i + 1 \in DOMAIN work /\ work'[i] = work[i + 1]
  <2>1. work \in Seq(CallId \X Nat) /\ work # <<>>
    BY <1>1, <1>2 DEF TxnTyped
  <2> QED
    BY <1>1, <2>1
<1>4. Within(top[2], callNode[top[1]]) /\ top[1] # Top /\ top[2] \in Nat
  BY <1>3, CallAssumption DEF DepthInv
<1> HIDE DEF top
<1>5. \A c \in ChildrenOf(top[1]) : Within(top[2], ParentNode(c))
  BY <1>4 DEF ChildrenOf, ParentNode
<1>6. \A r \in rows' : Within(r[2] - 1, ParentNode(r[1]))
  <2> SUFFICES ASSUME NEW c \in ChildrenOf(top[1])
               PROVE  Within(<<c, top[2] + 1>>[2] - 1, ParentNode(<<c, top[2] + 1>>[1]))
    BY <1>1
  <2>1. (top[2] + 1) - 1 = top[2]
    BY <1>4
  <2> QED
    BY <1>5, <2>1
<1>7. \A i \in DOMAIN work' : Within(work'[i][2], callNode[work'[i][1]])
  BY <1>3 DEF DepthInv
<1>8. \A c : ParentNode(c)' = ParentNode(c)
  BY <1>1 DEF ParentNode
<1> QED
  BY <1>1, <1>6, <1>7, <1>8 DEF DepthInv

(* The root is at depth 0. *)
LEMMA BeginDepths ==
    ASSUME IInv, DepthInv, NEW b \in Batches, BeginBatch(b)
    PROVE  DepthInv'
<1>1. /\ saved' = saved /\ callNode' = callNode /\ rows' = rows /\ work' = work
      /\ nodes' = WithNode(Root, 0) /\ pc = "idle" /\ pc' = "calls"
  BY DEF BeginBatch
<1>2. rows = {} /\ work = <<>> /\ Deep(tables)
  BY <1>1 DEF IInv, DrainInv, DepthInv
<1>3. \A m \in DOMAIN nodes' : Within(nodes'[m].depth, m)
  <2>1. Len(Root) = 0
    BY DEF Root
  <2> QED
    BY <1>1, <1>2, <2>1, TableFields DEF Deep, WithNode, EmptyBucket, Within
<1>4. \A c \in FoldedIn(tables') : c \in RootedCalls /\ Within(Depth[c], callNode'[c])
  BY <1>1, <1>2, TableFields DEF Deep, FoldedIn, tables
<1>5. Deep(tables')
  <2>1. tables'.nodes = nodes' /\ tables'.callNode = callNode'
    BY DEF tables
  <2> QED
    BY <1>3, <1>4, <2>1 DEF Deep
<1> QED
  BY <1>1, <1>2, <1>5 DEF DepthInv

(* Every step keeps the depths. *)
LEMMA NextDepths ==
    ASSUME WireDepths
    PROVE  IInv /\ DepthInv /\ [Next]_vars => DepthInv'
<1> SUFFICES ASSUME IInv, DepthInv, [Next]_vars PROVE DepthInv'
  OBVIOUS
<1>1. CASE SkipKnown \/ Park
  <2>1. /\ rows' = rows /\ work' = work /\ saved' = saved /\ callNode' = callNode
        /\ nodes' = nodes /\ pc' = pc
    BY <1>1 DEF SkipKnown, Park, NextCall
  <2>2. Deep(tables')
    BY <2>1 DEF DepthInv, Deep, FoldedIn, tables
  <2> QED
    BY <2>1, <2>2 DEF DepthInv, ParentNode
<1>2. CASE SkipDrain \/ EndDrain \/ UNCHANGED vars
  <2>1. /\ rows' = rows /\ work' = work /\ saved' = saved /\ callNode' = callNode
        /\ tables' = tables /\ (pc' = pc \/ rows = {})
    BY <1>2 DEF SkipDrain, EndDrain, vars, txn, unchangedTables, tables, DepthInv
  <2> QED
    BY <2>1 DEF DepthInv, ParentNode
<1>3. CASE Commit
  <2>1. /\ rows' = rows /\ work' = work /\ saved' = tables /\ callNode' = callNode
        /\ tables' = tables /\ pc = "commit" /\ pc' = "idle"
    BY <1>3 DEF Commit, unchangedTables, tables
  <2> QED
    BY <2>1 DEF DepthInv, ParentNode
<1>4. CASE Rollback
  <2>1. Sane(saved)
    BY DEF IInv
  <2>2. tables' = saved /\ saved' = saved /\ rows' = {} /\ work' = <<>>
    BY <1>4, <2>1 DEF Rollback, Sane, Typed, tables
  <2> QED
    BY <2>2 DEF DepthInv
<1>5. CASE FinalizeTrace
  <2>1. /\ rows' = rows /\ work' = work /\ saved' = tables' /\ callNode' = callNode
        /\ nodes' = nodes /\ pc' = pc
    BY <1>5 DEF FinalizeTrace, txn
  <2>2. Deep(tables')
    BY <2>1 DEF DepthInv, Deep, FoldedIn, tables
  <2> QED
    BY <2>1, <2>2 DEF DepthInv, ParentNode
<1> QED
  BY <1>1, <1>2, <1>3, <1>4, <1>5, BeginDepths, FoldInBatchDepths, SeedDrainDepths,
     FoldRowDepths, PopParentDepths DEF Next, Aggregate, Drain

(***************************************************************************)
(* Whether the recorder numbers frames from 0 or from 1, and whichever of  *)
(* the two paths merged its first call, a node's depth is within one of    *)
(* its distance from the root: the loop takes the depth of the wire, the   *)
(* drain adds one to the caller's, and neither error adds up.              *)
(***************************************************************************)
THEOREM DepthWithinOneHolds ==
    ASSUME WireDepths
    PROVE  Spec => []DepthWithinOne
<1>1. Init => DepthInv
  BY DEF Within, Init, DepthInv, Deep, FoldedIn, tables
<1>2. IInv /\ DepthInv /\ [Next]_vars => DepthInv'
  BY NextDepths
<1>3. DepthInv => DepthWithinOne
  BY TableFields DEF DepthInv, Deep, DepthWithinOne, Within
<1> QED
  BY <1>1, <1>2, <1>3, Inductive, PTL DEF Spec
=============================================================================
