---------------------------- MODULE RawFilesProofs ----------------------------
(***************************************************************************)
(* Lemmas about the numbering of batch files, for any set of files.        *)
(***************************************************************************)
EXTENDS RawFiles, WellFoundedInduction, TLAPS

(* The maximum CHOOSE stands for exists: batch numbers are bounded. *)
LEMMA MaxBounds ==
    ASSUME NEW S \in SUBSET (0..BatchMax), S # {}
    PROVE  Max(S) \in S /\ \A x \in S : Max(S) >= x
<1> DEFINE T == {BatchMax - x : x \in S}
<1>1. BatchMax \in Nat
  BY RawAssumption
<1>2. T \subseteq Nat /\ T # {}
  <2>1. \A x \in S : BatchMax - x \in Nat
    BY <1>1
  <2>2. T \subseteq Nat
    BY <2>1
  <2> QED
    BY <2>2
<1>3. PICK m \in T : \A y \in T : ~ (<<y, m>> \in OpToRel(<, Nat))
  <2> HIDE DEF T
  <2> QED
    BY <1>2, WFMin, NatLessThanWellFounded
<1>4. \A y \in T : ~ (y < m)
  BY <1>2, <1>3 DEF OpToRel
<1>5. PICK x \in S : m = BatchMax - x
  OBVIOUS
<1>6. \A y \in S : x >= y
  BY <1>1, <1>4, <1>5
<1> QED
  BY <1>6 DEF Max

(* The number picked is a batch number, and free in the directory listed. *)
LEMMA NextNumberIsFree ==
    ASSUME NEW files, \A f \in files : f.num \in 1..BatchMax, NEW k
    PROVE  /\ NextNumber(files, k) \in Nat \ {0}
           /\ NextNumber(files, k) \notin Numbers(files, k)
<1> DEFINE S == {0} \cup Numbers(files, k)
<1>1. S \in SUBSET (0..BatchMax) /\ S # {}
  BY RawAssumption DEF Numbers, FilesOf
<1>2. Max(S) \in S /\ \A x \in S : Max(S) >= x
  <2> HIDE DEF S
  <2> QED
    BY <1>1, MaxBounds
<1>3. Max(S) \in Nat
  BY <1>1, <1>2, RawAssumption
<1>4. NextNumber(files, k) = 1 + Max(S)
  BY DEF NextNumber
<1> HIDE DEF S
<1>5. 1 + Max(S) \in Nat \ {0} /\ 1 + Max(S) \notin S
  BY <1>1, <1>2, <1>3, RawAssumption
<1> QED
  BY <1>4, <1>5 DEF S
=============================================================================
