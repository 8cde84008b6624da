---------------------------- MODULE CallTreeProofs ----------------------------
(***************************************************************************)
(* Proofs about CallTree for every trace: any calls, any callers (cycles   *)
(* included), any batches.  The inductive invariant speaks of the tables   *)
(* twice, as the open transaction sees them and as last committed, because *)
(* a rollback brings the second back; Sane and Settled are stated of a     *)
(* snapshot t of the tables so that they can be said of both.              *)
(***************************************************************************)
EXTENDS CallTree, TLAPS

FoldedIn(t) == {c \in CallId : t.callNode[c] # Unmapped}

HeldIn(t) == FoldedIn(t) \cup t.pending

NodeOfCaller(t, c) == IF Parent[c] = Top THEN Root ELSE t.callNode[Parent[c]]

Typed(t) ==
    /\ t = [dict |-> t.dict, nodes |-> t.nodes, callNode |-> t.callNode,
            pending |-> t.pending, anomalies |-> t.anomalies, state |-> t.state]
    /\ t.dict \subseteq FnId
    /\ DOMAIN t.nodes \subseteq Seq(FnId)
    /\ t.nodes \in [DOMAIN t.nodes -> Bucket]
    /\ t.callNode \in [CallId -> Seq(FnId) \cup {Unmapped}]
    /\ t.pending \subseteq CallId
    /\ t.anomalies \in [AnomalyKind -> [CallId -> Nat]]
    /\ t.state \in {"absent", "active", "finalized"}

Apart(t) == FoldedIn(t) \cap t.pending = {}

Placed(t) ==
    \A c \in FoldedIn(t) :
        /\ Fn[c] \in t.dict
        /\ Parent[c] \in FoldedIn(t) \cup {Top}
        /\ t.callNode[c] = Append(NodeOfCaller(t, c), Fn[c])

(* The root exists once a batch came, and so does every call's bucket. *)
Rooted(t) ==
    /\ t.state # "absent" => Root \in DOMAIN t.nodes
    /\ t.state = "absent" => HeldIn(t) = {}
    /\ \A c \in FoldedIn(t) : t.callNode[c] \in DOMAIN t.nodes

(* Every closed set of the calls H has the calls F. *)
Supported(F, H, fns) ==
    \A S \in SUBSET H : Abstract!IsClosed(S, H, fns) => F \subseteq S

(* The folded calls have a reason to be. *)
Derived(t) == Supported(FoldedIn(t), HeldIn(t), t.dict)

Sane(t) ==
    /\ Typed(t)
    /\ Apart(t)
    /\ Placed(t)
    /\ Rooted(t)
    /\ Derived(t)

(* No parked call is resolvable. *)
Settled(t) ==
    \A c \in t.pending : Fn[c] \in t.dict => Parent[c] \notin FoldedIn(t) \cup {Top}

TxnTyped ==
    /\ pc \in {"idle", "calls", "drain", "commit"}
    /\ batch \in [calls : Seq(CallId), dict : SUBSET FnId]
    /\ todo \in Seq(CallId)
    /\ rows \subseteq CallId \X Nat
    /\ work \in Seq(CallId \X Nat)
    /\ outcome \in [newCalls : Nat, newWall : Nat, newAnomalies : Nat, touched : Nat]
    /\ delivered \in 0..MaxDeliveries
    /\ seen \subseteq CallId

(* What the transaction has taken over from its batch so far. *)
TakesBatch ==
    pc # "idle" =>
        /\ batch \in Batches
        /\ delivered < MaxDeliveries
        /\ state = "active"
        /\ dict = saved.dict \cup batch.dict
        /\ HeldIn(tables) \cup {todo[i] : i \in DOMAIN todo}
             = HeldIn(saved) \cup CallsOf(batch)
        /\ pc # "calls" => todo = <<>>

(* Why the gate may skip the drain. *)
GateInv ==
    pc = "calls" /\ batch.dict = {} /\ outcome.touched = 0 => Settled(tables)

RowsInv ==
    /\ \A r \in rows :
        /\ r[1] \in pending
        /\ Fn[r[1]] \in dict
        /\ ParentResolved(r[1])
    /\ \A r, q \in rows : r[1] = q[1] => r = q

WorkInv == \A i \in DOMAIN work : work[i][1] \in folded

(* A resolvable parked call is about to be folded or about to be found. *)
NothingMissed ==
    \A c \in pending :
        Fn[c] \in dict /\ ParentResolved(c) =>
            \/ \E r \in rows : r[1] = c
            \/ \E i \in DOMAIN work : work[i][1] = Parent[c]

DrainInv ==
    /\ pc = "drain" => RowsInv /\ WorkInv /\ NothingMissed
    /\ pc # "drain" => work = <<>>

(* The working tables extend the committed ones. *)
Extends(t, s) ==
    \A n \in DOMAIN s.nodes :
        /\ n \in DOMAIN t.nodes
        /\ t.nodes[n].count >= s.nodes[n].count
        /\ t.nodes[n].wall >= s.nodes[n].wall
        /\ t.nodes[n].childWall >= s.nodes[n].childWall

IInv ==
    /\ TxnTyped
    /\ Sane(tables)
    /\ Sane(saved)
    /\ Settled(saved)
    /\ saved.state = "finalized" => saved.pending = {}
    /\ pc = "idle" => saved = tables
    /\ pc = "commit" => Settled(tables)
    /\ TakesBatch
    /\ GateInv
    /\ DrainInv
    /\ Extends(tables, saved)

-----------------------------------------------------------------------------
(* The open transaction's tables, field by field. *)
LEMMA TableFields ==
    /\ tables.dict = dict /\ tables.nodes = nodes /\ tables.callNode = callNode
    /\ tables.pending = pending /\ tables.anomalies = anomalies
    /\ tables.state = state
    /\ folded = FoldedIn(tables)
BY DEF tables, folded, FoldedIn

(***************************************************************************)
(* A fold keeps the tables sane, adds just its call to the folded ones,    *)
(* and lowers no sum: both of its users, the loop over the batch and the   *)
(* drain, fold a call that is not folded yet, whose function is known and  *)
(* whose caller is resolved.                                               *)
(***************************************************************************)
LEMMA FoldTyped ==
    ASSUME Sane(tables), NEW c \in CallId, NEW d \in Nat,
           ParentResolved(c), state = "active", Fold(c, d),
           pending' = pending \ {c}, dict' = dict, state' = state
    PROVE  /\ Typed(tables)'
           /\ DOMAIN nodes' = DOMAIN nodes \cup {Append(ParentNode(c), Fn[c])}
           /\ Extends(tables', tables)
<1> DEFINE p == ParentNode(c)
           n == Append(p, Fn[c])
           w == ClampedWall(c)
<1>1. /\ DOMAIN nodes \subseteq Seq(FnId)
      /\ nodes \in [DOMAIN nodes -> Bucket]
      /\ callNode \in [CallId -> Seq(FnId) \cup {Unmapped}]
      /\ anomalies \in [AnomalyKind -> [CallId -> Nat]]
  BY TableFields DEF Sane, Typed
<1>2. p \in DOMAIN nodes
  BY TableFields DEF Sane, Rooted, ParentResolved, ParentNode, FoldedIn
<1>3. Fn[c] \in FnId /\ p \in Seq(FnId) /\ n \in Seq(FnId) /\ n # p
  <2>1. Fn[c] \in FnId /\ p \in Seq(FnId)
    BY <1>1, <1>2, CallAssumption
  <2>2. n \in Seq(FnId) /\ Len(n) = Len(p) + 1
    BY <2>1
  <2> QED
    BY <2>1, <2>2
<1>4. w \in Nat
  BY MeasureAssumption DEF ClampedWall
<1> DEFINE base == WithNode(n, d)
<1>5. /\ DOMAIN base = DOMAIN nodes \cup {n}
      /\ \A m \in DOMAIN base : base[m] \in Bucket
      /\ \A m \in DOMAIN nodes : base[m] = nodes[m]
  BY <1>1 DEF WithNode, EmptyBucket, Bucket
<1>6. nodes' = [m \in DOMAIN base |->
               [count     |-> base[m].count + IF m = n THEN 1 ELSE 0,
                wall      |-> base[m].wall + IF m = n THEN w ELSE 0,
                childWall |-> base[m].childWall + IF m = p THEN w ELSE 0,
                depth     |-> base[m].depth]]
  BY DEF Fold
<1> HIDE DEF base, n, p, w
<1>7. \A m \in DOMAIN base :
        /\ nodes'[m] \in Bucket
        /\ nodes'[m].count >= base[m].count
        /\ nodes'[m].wall >= base[m].wall
        /\ nodes'[m].childWall >= base[m].childWall
  BY <1>4, <1>5, <1>6 DEF Bucket
<1>8. DOMAIN nodes' = DOMAIN nodes \cup {n} /\ nodes' = [m \in DOMAIN nodes' |-> nodes'[m]]
  BY <1>5, <1>6
<1>9. nodes' \in [DOMAIN nodes' -> Bucket] /\ DOMAIN nodes' \subseteq Seq(FnId)
  BY <1>1, <1>3, <1>5, <1>7, <1>8
<1>10. Extends(tables', tables)
  BY <1>5, <1>7, <1>8, TableFields DEF Extends, tables
<1>11. /\ callNode' \in [CallId -> Seq(FnId) \cup {Unmapped}]
       /\ anomalies' \in [AnomalyKind -> [CallId -> Nat]]
  BY <1>1, <1>3 DEF Fold, n, p, AnomalyKind
<1> QED
  BY <1>8, <1>9, <1>10, <1>11, TableFields DEF Sane, Typed, tables, n, p

(* A reason to be in the tree stays one when calls or functions are added. *)
LEMMA SupportGrows ==
    ASSUME NEW F, NEW H, NEW G, NEW D, NEW E,
           H \subseteq G, D \subseteq E, Supported(F, H, D)
    PROVE  Supported(F, G, E)
<1> SUFFICES ASSUME NEW S \in SUBSET G, Abstract!IsClosed(S, G, E)
             PROVE  F \subseteq S
  BY DEF Supported
<1>1. Abstract!IsClosed(S \cap H, H, D)
  BY DEF Abstract!IsClosed
<1>2. S \cap H \in SUBSET H
  OBVIOUS
<1> QED
  BY <1>1, <1>2 DEF Supported

LEMMA FoldSane ==
    ASSUME Sane(tables), NEW c \in CallId, NEW d \in Nat, c \notin folded,
           Fn[c] \in dict, ParentResolved(c), state = "active", Fold(c, d),
           pending' = pending \ {c}, dict' = dict, state' = state
    PROVE  /\ Sane(tables)'
           /\ folded' = folded \cup {c}
           /\ HeldIn(tables)' = HeldIn(tables) \cup {c}
           /\ Extends(tables', tables)
<1> DEFINE n == Append(ParentNode(c), Fn[c])
<1>1. /\ Typed(tables)'
      /\ DOMAIN nodes' = DOMAIN nodes \cup {n}
      /\ Extends(tables', tables)
  BY FoldTyped
<1>2. callNode \in [CallId -> Seq(FnId) \cup {Unmapped}]
  BY TableFields DEF Sane, Typed
<1>3. callNode' = [callNode EXCEPT ![c] = n]
  BY DEF Fold
<1>4. n \in Seq(FnId) /\ n # Unmapped
  <2>1. ParentNode(c) \in DOMAIN nodes /\ DOMAIN nodes \subseteq Seq(FnId)
    BY TableFields DEF Sane, Typed, Rooted, ParentResolved, ParentNode, FoldedIn
  <2>2. Fn[c] \in FnId
    BY CallAssumption
  <2> HIDE DEF n
  <2>3. n \in Seq(FnId)
    BY <2>1, <2>2 DEF n
  <2> QED
    BY <2>3, UnmappedAssumption
<1> HIDE DEF n
<1>5. /\ folded' = folded \cup {c}
      /\ callNode'[c] = n
      /\ \A q \in folded : callNode'[q] = callNode[q]
  BY <1>2, <1>3, <1>4 DEF folded
<1>6. HeldIn(tables)' = HeldIn(tables) \cup {c}
  BY <1>5, TableFields DEF HeldIn, FoldedIn, folded, tables
<1>7. Apart(tables)'
  BY <1>5, TableFields DEF Sane, Apart, FoldedIn, folded, tables
<1>8. Placed(tables)'
  <2>1. SUFFICES ASSUME NEW q \in folded'
                 PROVE  /\ Fn[q] \in dict
                        /\ Parent[q] \in folded' \cup {Top}
                        /\ callNode'[q] = Append(NodeOfCaller(tables', q), Fn[q])
    BY DEF Placed, FoldedIn, folded, tables
  <2>2. CASE q = c
    <3>1. Parent[c] \in folded \cup {Top}
      BY DEF ParentResolved
    <3>2. NodeOfCaller(tables', c) = ParentNode(c)
      BY <1>5, <3>1 DEF NodeOfCaller, ParentNode, tables
    <3> QED
      BY <1>5, <2>2, <3>1, <3>2 DEF n
  <2>3. CASE q \in folded
    <3>1. /\ Fn[q] \in dict /\ Parent[q] \in folded \cup {Top}
          /\ callNode[q] = Append(NodeOfCaller(tables, q), Fn[q])
      BY <2>3, TableFields DEF Sane, Placed
    <3>2. NodeOfCaller(tables', q) = NodeOfCaller(tables, q)
      BY <1>5, <3>1 DEF NodeOfCaller, tables
    <3> QED
      BY <1>5, <2>3, <3>1, <3>2
  <2> QED
    BY <1>5, <2>2, <2>3
<1>9. Rooted(tables)'
  <2>1. Root \in DOMAIN nodes /\ \A q \in folded : callNode[q] \in DOMAIN nodes
    BY TableFields DEF Sane, Rooted
  <2>2. Root \in DOMAIN nodes' /\ \A q \in folded' : callNode'[q] \in DOMAIN nodes'
    BY <1>1, <1>5, <2>1
  <2> QED
    BY <2>2 DEF Rooted, FoldedIn, folded, tables
<1>10. Derived(tables)'
  <2>1. Supported(folded, HeldIn(tables'), dict)
    BY <1>6, TableFields, SupportGrows DEF Sane, Derived
  <2>2. SUFFICES ASSUME NEW S \in SUBSET HeldIn(tables'),
                        Abstract!IsClosed(S, HeldIn(tables'), dict),
                        folded \subseteq S
                 PROVE  folded' \subseteq S
    BY <2>1 DEF Derived, Supported, FoldedIn, folded, tables
  <2>3. c \in S
    BY <1>6, <2>2 DEF Abstract!IsClosed, ParentResolved
  <2> QED
    BY <1>5, <2>2, <2>3
<1> QED
  BY <1>1, <1>5, <1>6, <1>7, <1>8, <1>9, <1>10 DEF Sane

-----------------------------------------------------------------------------
(* Taking the last element off a sequence takes just it off its elements. *)
LEMMA FrontElements ==
    ASSUME NEW X, NEW s \in Seq(X), s # <<>>
    PROVE  LET front == SubSeq(s, 1, Len(s) - 1)
           IN  /\ front \in Seq(X)
               /\ s[Len(s)] \in X
               /\ {s[i] : i \in DOMAIN s}
                    = {front[i] : i \in DOMAIN front} \cup {s[Len(s)]}
<1> DEFINE front == SubSeq(s, 1, Len(s) - 1)
<1>1. Len(s) \in Nat \ {0} /\ DOMAIN s = 1..Len(s)
  OBVIOUS
<1>2. /\ front \in Seq(X) /\ DOMAIN front = 1..(Len(s) - 1)
      /\ \A i \in 1..(Len(s) - 1) : front[i] = s[i]
  BY <1>1
<1> HIDE DEF front
<1>3. \A i \in DOMAIN s : i = Len(s) \/ i \in DOMAIN front
  BY <1>1, <1>2
<1>4. DOMAIN front \subseteq DOMAIN s /\ Len(s) \in DOMAIN s
  BY <1>1, <1>2
<1>5. {s[i] : i \in DOMAIN s} = {front[i] : i \in DOMAIN front} \cup {s[Len(s)]}
  BY <1>2, <1>3, <1>4
<1> QED
  BY <1>1, <1>2, <1>5 DEF front

LEMMA ExtendsTransitive ==
    ASSUME NEW r, NEW t, NEW s, Typed(r), Typed(t), Typed(s),
           Extends(r, t), Extends(t, s)
    PROVE  Extends(r, s)
<1> SUFFICES ASSUME NEW n \in DOMAIN s.nodes
             PROVE  /\ n \in DOMAIN r.nodes
                    /\ r.nodes[n].count >= s.nodes[n].count
                    /\ r.nodes[n].wall >= s.nodes[n].wall
                    /\ r.nodes[n].childWall >= s.nodes[n].childWall
  BY DEF Extends
<1>1. n \in DOMAIN t.nodes /\ n \in DOMAIN r.nodes
  BY DEF Extends
<1>2. s.nodes[n] \in Bucket /\ t.nodes[n] \in Bucket /\ r.nodes[n] \in Bucket
  BY <1>1 DEF Typed
<1> QED
  BY <1>1, <1>2 DEF Extends, Bucket

-----------------------------------------------------------------------------
LEMMA InitIInv == Init => IInv
<1> SUFFICES ASSUME Init PROVE IInv
  OBVIOUS
<1>1. FoldedIn(tables) = {} /\ HeldIn(tables) = {}
  BY DEF Init, FoldedIn, HeldIn, tables
<1>2. TxnTyped
  BY BoundAssumption DEF Init, TxnTyped, NoBatch, NoOutcome
<1>3. Typed(tables)
  BY DEF Init, Typed, tables, NoAnomaly, AnomalyKind
<1>4. Sane(tables) /\ Settled(tables)
  BY <1>1, <1>3
     DEF Init, Sane, Settled, Apart, Placed, Rooted, Derived, Supported, HeldIn, tables
<1>5. Extends(tables, saved)
  BY DEF Init, Extends, tables
<1> QED
  BY <1>2, <1>4, <1>5 DEF Init, IInv, TakesBatch, GateInv, DrainInv, tables

LEMMA BeginBatchIInv ==
    ASSUME IInv, NEW b \in Batches, BeginBatch(b)
    PROVE  IInv'
<1> USE DEF BeginBatch
<1>1. /\ Sane(tables) /\ Sane(saved) /\ Settled(saved) /\ TxnTyped /\ saved = tables
  BY DEF IInv
<1>2. b \in [calls : Seq(CallId), dict : SUBSET FnId]
  BY BatchAssumption
<1>3. TxnTyped'
  BY <1>1, <1>2 DEF TxnTyped, NoOutcome
<1>4. /\ FoldedIn(tables') = FoldedIn(tables)
      /\ HeldIn(tables') = HeldIn(tables)
  BY DEF FoldedIn, HeldIn, tables
<1>5. /\ DOMAIN nodes' = DOMAIN nodes \cup {Root}
      /\ \A m \in DOMAIN nodes : nodes'[m] = nodes[m]
      /\ nodes' \in [DOMAIN nodes' -> Bucket]
      /\ DOMAIN nodes' \subseteq Seq(FnId)
  <2>1. nodes \in [DOMAIN nodes -> Bucket] /\ DOMAIN nodes \subseteq Seq(FnId)
    BY <1>1, TableFields DEF Sane, Typed
  <2>2. EmptyBucket(0) \in Bucket
    BY DEF EmptyBucket, Bucket
  <2>3. Root \in Seq(FnId)
    BY DEF Root
  <2>4. nodes' = [m \in DOMAIN nodes \cup {Root} |->
                    IF m \in DOMAIN nodes THEN nodes[m] ELSE EmptyBucket(0)]
    BY DEF WithNode
  <2>5. /\ DOMAIN nodes' = DOMAIN nodes \cup {Root}
        /\ \A m \in DOMAIN nodes : nodes'[m] = nodes[m]
        /\ \A m \in DOMAIN nodes' : nodes'[m] \in Bucket
    BY <2>1, <2>2, <2>4
  <2>6. nodes' = [m \in DOMAIN nodes' |-> nodes'[m]]
    BY <2>4, <2>5
  <2> QED
    BY <2>1, <2>3, <2>5, <2>6
<1>6. Sane(tables)'
  <2>1. Typed(tables)'
    BY <1>1, <1>2, <1>5, TableFields DEF Sane, Typed, tables, MirroredState
  <2>2. Apart(tables)' /\ Placed(tables)'
    BY <1>1, <1>4, TableFields DEF Sane, Apart, Placed, NodeOfCaller, tables
  <2>3. Rooted(tables)'
    BY <1>1, <1>4, <1>5, TableFields DEF Sane, Rooted, tables, MirroredState
  <2>4. Derived(tables)'
    <3>1. Supported(FoldedIn(tables), HeldIn(tables), dict)
      BY <1>1, TableFields DEF Sane, Derived
    <3>2. Supported(FoldedIn(tables), HeldIn(tables), dict')
      BY <3>1, SupportGrows
    <3> QED
      BY <1>4, <3>2 DEF Derived, tables
  <2> QED
    BY <2>1, <2>2, <2>3, <2>4 DEF Sane
<1>7. TakesBatch'
  BY <1>1, <1>4, TableFields DEF TakesBatch, CallsOf, TxnTyped, MirroredState
<1>8. GateInv'
  BY <1>1, <1>4, TableFields DEF GateInv, Settled, tables
<1>9. Extends(tables, saved)'
  <2>1. \A n \in DOMAIN nodes : nodes[n] \in Bucket
    BY <1>1, TableFields DEF Sane, Typed
  <2> QED
    BY <1>1, <1>5, <2>1, TableFields DEF Extends, tables, Bucket
<1>10. Sane(saved)' /\ Settled(saved)' /\ pc' = "calls"
  BY <1>1
<1> QED
  BY <1>3, <1>6, <1>7, <1>8, <1>9, <1>10 DEF IInv, DrainInv

(***************************************************************************)
(* The loop over the batch: the call it takes leaves todo, and is held     *)
(* from then on.                                                           *)
(***************************************************************************)
LEMMA LoopStep ==
    ASSUME IInv, NextCall,
           HeldIn(tables') = HeldIn(tables) \cup {current},
           outcome' \in [newCalls : Nat, newWall : Nat, newAnomalies : Nat, touched : Nat]
    PROVE  current \in CallId /\ TxnTyped' /\ TakesBatch' /\ DrainInv'
<1>1. TxnTyped /\ TakesBatch /\ DrainInv
  BY DEF IInv
<1> DEFINE front == SubSeq(todo, 1, Len(todo) - 1)
<1>2. /\ front \in Seq(CallId)
      /\ current \in CallId
      /\ {todo[i] : i \in DOMAIN todo} = {front[i] : i \in DOMAIN front} \cup {current}
  BY <1>1, FrontElements DEF TxnTyped, NextCall, current
<1>3. todo' = front
  BY DEF NextCall
<1> HIDE DEF front
<1>4. TxnTyped'
  BY <1>1, <1>2, <1>3 DEF TxnTyped, NextCall
<1>5. TakesBatch'
  BY <1>1, <1>2, <1>3 DEF TakesBatch, NextCall
<1>6. DrainInv'
  BY <1>1 DEF DrainInv, NextCall
<1> QED
  BY <1>2, <1>4, <1>5, <1>6

LEMMA CurrentIsCall == IInv /\ NextCall => current \in CallId
BY FrontElements DEF IInv, TxnTyped, NextCall, current

LEMMA CountNewTyped ==
    ASSUME TxnTyped, NEW c \in CallId
    PROVE  /\ CountNew(c) \in [newCalls : Nat, newWall : Nat, newAnomalies : Nat, touched : Nat]
           /\ CountNew(c).touched = outcome.touched
<1>1. ClampedWall(c) \in Nat
  BY MeasureAssumption DEF ClampedWall
<1>2. outcome \in [newCalls : Nat, newWall : Nat, newAnomalies : Nat, touched : Nat]
  BY DEF TxnTyped
<1>3. PICK o : o = [outcome EXCEPT !.newCalls = @ + 1, !.newWall = @ + ClampedWall(c)]
  OBVIOUS
<1>4. o = [newCalls |-> outcome.newCalls + 1,
           newWall |-> outcome.newWall + ClampedWall(c),
           newAnomalies |-> outcome.newAnomalies,
           touched |-> outcome.touched]
  BY <1>2, <1>3, Zenon
<1>5. CountNew(c) = o
  BY <1>3, Zenon DEF CountNew
<1> QED
  BY <1>1, <1>2, <1>4, <1>5

LEMMA SkipKnownIInv ==
    ASSUME IInv, SkipKnown
    PROVE  IInv'
<1>1. NextCall /\ tables' = tables /\ outcome' = outcome
  BY DEF SkipKnown, NextCall, tables
<1>2. current \in CallId
  BY <1>1, CurrentIsCall
<1>3. HeldIn(tables') = HeldIn(tables) \cup {current}
  BY <1>1, <1>2, TableFields DEF SkipKnown, AlreadyKnown, HeldIn
<1>4. TxnTyped' /\ TakesBatch' /\ DrainInv'
  BY <1>1, <1>3, LoopStep DEF IInv, TxnTyped
<1>5. GateInv'
  BY <1>1 DEF IInv, GateInv, NextCall
<1> QED
  BY <1>1, <1>4, <1>5 DEF IInv, NextCall

LEMMA ParkIInv ==
    ASSUME IInv, Park
    PROVE  IInv'
<1> DEFINE c == current
<1>1. NextCall /\ c \in CallId /\ c \notin folded /\ c \notin pending
  BY CurrentIsCall DEF Park, AlreadyKnown
<1>2. /\ dict' = dict /\ nodes' = nodes /\ callNode' = callNode
      /\ anomalies' = anomalies /\ state' = state /\ saved' = saved /\ pc' = pc
      /\ batch' = batch
      /\ pending' = pending \cup {c} /\ outcome' = CountNew(c)
  BY <1>1 DEF Park, NextCall
<1> HIDE DEF c
<1>3. Sane(tables) /\ TxnTyped /\ state = "active"
  BY <1>1 DEF IInv, TakesBatch, NextCall
<1>4. FoldedIn(tables') = FoldedIn(tables) /\ HeldIn(tables') = HeldIn(tables) \cup {c}
  BY <1>2 DEF FoldedIn, HeldIn, tables
<1>5. TxnTyped' /\ TakesBatch' /\ DrainInv'
  BY <1>1, <1>2, <1>3, <1>4, LoopStep, CountNewTyped DEF c
<1>6. Sane(tables)'
  <2>1. Typed(tables)'
    BY <1>1, <1>2, <1>3, TableFields DEF Sane, Typed, tables
  <2>2. Apart(tables)'
    BY <1>1, <1>2, <1>3, <1>4, TableFields DEF Sane, Apart, tables
  <2>3. Placed(tables)'
    BY <1>2, <1>3, <1>4, TableFields DEF Sane, Placed, NodeOfCaller, tables
  <2>4. Rooted(tables)'
    BY <1>2, <1>3, <1>4, TableFields DEF Sane, Rooted, tables
  <2>5. Derived(tables)'
    <3>1. Supported(FoldedIn(tables), HeldIn(tables), dict)
      BY <1>3, TableFields DEF Sane, Derived
    <3>2. Supported(FoldedIn(tables), HeldIn(tables'), dict)
      BY <1>4, <3>1, SupportGrows
    <3> QED
      BY <1>2, <1>4, <3>2 DEF Derived, tables
  <2> QED
    BY <2>1, <2>2, <2>3, <2>4, <2>5 DEF Sane
<1>7. GateInv'
  <2>1. outcome'.touched = outcome.touched
    BY <1>1, <1>2, <1>3, CountNewTyped
  <2>2. Fn[c] \in dict => Parent[c] \notin folded \cup {Top}
    BY DEF Park, ParentResolved, c
  <2>3. Settled(tables) => Settled(tables')
    BY <1>2, <1>4, <2>2, TableFields DEF Settled, tables
  <2> QED
    BY <1>2, <2>1, <2>3 DEF IInv, GateInv
<1>8. Extends(tables', saved')
  BY <1>2, TableFields DEF IInv, Extends, tables
<1>9. pc = "calls"
  BY <1>1 DEF NextCall
<1> QED
  BY <1>2, <1>5, <1>6, <1>7, <1>8, <1>9 DEF IInv

(* A fold extends what the transaction already extended. *)
LEMMA FoldExtends ==
    ASSUME IInv, Sane(tables)', Extends(tables', tables), saved' = saved
    PROVE  Extends(tables', saved')
BY ExtendsTransitive DEF IInv, Sane

LEMMA FoldInBatchIInv ==
    ASSUME IInv, FoldInBatch
    PROVE  IInv'
<1> DEFINE c == current
<1>1. /\ NextCall /\ c \in CallId /\ c \notin folded /\ c \notin pending
      /\ Fn[c] \in dict /\ ParentResolved(c)
      /\ Fold(c, Depth[c])
      /\ outcome' = [CountNew(c) EXCEPT !.newAnomalies = @ + FoldAnomalies(c),
                                        !.touched = @ + 1]
  BY CurrentIsCall DEF FoldInBatch, AlreadyKnown
<1>2. /\ dict' = dict /\ state' = state /\ saved' = saved /\ pc' = pc
      /\ batch' = batch /\ pc = "calls" /\ pending' = pending \ {c}
  BY <1>1 DEF FoldInBatch, NextCall
<1>3. Sane(tables) /\ TxnTyped /\ state = "active" /\ Depth[c] \in Nat
  BY <1>1, MeasureAssumption DEF IInv, TakesBatch, NextCall
<1> HIDE DEF c
<1>4. /\ Sane(tables)'
      /\ folded' = folded \cup {c}
      /\ HeldIn(tables') = HeldIn(tables) \cup {c}
      /\ Extends(tables', tables)
  BY <1>1, <1>2, <1>3, FoldSane
<1>5. /\ outcome' \in [newCalls : Nat, newWall : Nat, newAnomalies : Nat, touched : Nat]
      /\ outcome'.touched # 0
  <2>1. FoldAnomalies(c) \in Nat
    BY DEF FoldAnomalies
  <2>2. CountNew(c) \in [newCalls : Nat, newWall : Nat, newAnomalies : Nat, touched : Nat]
    BY <1>1, <1>3, CountNewTyped
  <2>3. outcome' = [newCalls |-> CountNew(c).newCalls,
                    newWall |-> CountNew(c).newWall,
                    newAnomalies |-> CountNew(c).newAnomalies + FoldAnomalies(c),
                    touched |-> CountNew(c).touched + 1]
    BY <1>1, <2>2, Zenon
  <2> QED
    BY <2>1, <2>2, <2>3
<1>6. TxnTyped' /\ TakesBatch' /\ DrainInv'
  BY <1>1, <1>4, <1>5, LoopStep DEF c
<1>7. GateInv'
  BY <1>5 DEF GateInv
<1>8. Extends(tables', saved')
  BY <1>2, <1>4, FoldExtends
<1> QED
  BY <1>2, <1>4, <1>6, <1>7, <1>8 DEF IInv

-----------------------------------------------------------------------------
LEMMA SkipDrainIInv ==
    ASSUME IInv, SkipDrain
    PROVE  IInv'
<1>1. tables' = tables /\ saved' = saved /\ txn' = txn /\ delivered' = delivered
      /\ seen' = seen /\ pc' = "commit" /\ pc = "calls" /\ todo = <<>>
  BY DEF SkipDrain, unchangedTables, tables
<1>2. batch.dict = {} /\ outcome.touched = 0
  BY DEF IInv, TxnTyped, SkipDrain, NeedsDrain
<1>3. Settled(tables)
  BY <1>1, <1>2 DEF IInv, GateInv
<1>4. TxnTyped' /\ TakesBatch' /\ GateInv' /\ DrainInv'
  BY <1>1 DEF IInv, TxnTyped, TakesBatch, GateInv, DrainInv, txn, tables
<1> QED
  BY <1>1, <1>3, <1>4 DEF IInv

LEMMA SeedDrainIInv ==
    ASSUME IInv, SeedDrain
    PROVE  IInv'
<1>1. /\ tables' = tables /\ saved' = saved /\ batch' = batch /\ todo' = todo
      /\ work' = work /\ outcome' = outcome /\ delivered' = delivered
      /\ seen' = seen /\ pc' = "drain" /\ pc = "calls" /\ todo = <<>>
  BY DEF SeedDrain, unchangedTables, tables
<1>2. /\ dict' = dict /\ pending' = pending /\ callNode' = callNode /\ state' = state
      /\ folded' = folded
  BY DEF SeedDrain, unchangedTables, folded
<1> DEFINE ready == {q \in pending : ParentResolved(q) /\ Fn[q] \in dict}
           depth(c) == DrainDepth(c)
<1>3. rows' = {<<c, depth(c)>> : c \in ready}
  BY DEF SeedDrain, Unblocked
<1>4. \A c \in ready : depth(c) \in Nat
  <2>1. Sane(tables) /\ state = "active"
    BY <1>1 DEF IInv, TakesBatch
  <2>2. \A c \in ready : ParentNode(c) \in DOMAIN nodes
    BY <2>1, TableFields DEF Sane, Rooted, ParentResolved, ParentNode, FoldedIn
  <2>3. \A n \in DOMAIN nodes : nodes[n].depth \in Nat
    BY <2>1, TableFields DEF Sane, Typed, Bucket
  <2> QED
    BY <2>2, <2>3 DEF DrainDepth
<1>5. pending \subseteq CallId
  BY TableFields DEF IInv, Sane, Typed
<1> HIDE DEF depth
<1>6. TxnTyped'
  BY <1>1, <1>3, <1>4, <1>5 DEF IInv, TxnTyped
<1>7. TakesBatch' /\ GateInv'
  BY <1>1, <1>2 DEF IInv, TakesBatch, GateInv
<1>8. RowsInv'
  BY <1>2, <1>3 DEF RowsInv, ParentResolved
<1>9. NothingMissed'
  <2>1. \A c \in ready : \E r \in rows' : r[1] = c
    <3>1. \A c \in ready : <<c, depth(c)>> \in rows'
      BY <1>3
    <3>2. \A c : <<c, depth(c)>>[1] = c
      OBVIOUS
    <3> QED
      BY <3>1, <3>2
  <2> QED
    BY <1>2, <2>1 DEF NothingMissed, ParentResolved
<1>10. WorkInv'
  BY <1>1 DEF IInv, DrainInv, WorkInv
<1> QED
  BY <1>1, <1>6, <1>7, <1>8, <1>9, <1>10 DEF IInv, DrainInv

LEMMA FoldRowIInv ==
    ASSUME IInv, NEW r \in rows, FoldRow(r)
    PROVE  IInv'
<1> DEFINE c == r[1]
           d == r[2]
<1>1. /\ pc = "drain" /\ pc' = pc /\ dict' = dict /\ state' = state /\ saved' = saved
      /\ batch' = batch /\ todo' = todo /\ delivered' = delivered /\ seen' = seen
      /\ Fold(c, d) /\ pending' = pending \ {c} /\ rows' = rows \ {r}
      /\ work' = Append(work, r)
      /\ outcome' = [outcome EXCEPT !.newAnomalies = @ + FoldAnomalies(c),
                                    !.touched = @ + 1]
  BY DEF FoldRow
<1>2. /\ Sane(tables) /\ TxnTyped /\ state = "active"
      /\ RowsInv /\ WorkInv /\ NothingMissed
  BY <1>1 DEF IInv, TakesBatch, DrainInv
<1>3. /\ c \in CallId /\ d \in Nat /\ c \in pending /\ c \notin folded
      /\ Fn[c] \in dict /\ ParentResolved(c)
  BY <1>2, TableFields DEF TxnTyped, RowsInv, Sane, Apart
<1> HIDE DEF c, d
<1>4. /\ Sane(tables)'
      /\ folded' = folded \cup {c}
      /\ HeldIn(tables') = HeldIn(tables) \cup {c}
      /\ Extends(tables', tables)
  BY <1>1, <1>2, <1>3, FoldSane
<1>5. HeldIn(tables') = HeldIn(tables)
  BY <1>3, <1>4, TableFields DEF HeldIn
<1>6. outcome' \in [newCalls : Nat, newWall : Nat, newAnomalies : Nat, touched : Nat]
  <2>1. FoldAnomalies(c) \in Nat
    BY DEF FoldAnomalies
  <2>2. outcome \in [newCalls : Nat, newWall : Nat, newAnomalies : Nat, touched : Nat]
    BY <1>2 DEF TxnTyped
  <2>3. outcome' = [newCalls |-> outcome.newCalls,
                    newWall |-> outcome.newWall,
                    newAnomalies |-> outcome.newAnomalies + FoldAnomalies(c),
                    touched |-> outcome.touched + 1]
    BY <1>1, <2>2, Zenon
  <2> QED
    BY <2>1, <2>2, <2>3
<1>7. work \in Seq(CallId \X Nat) /\ r \in CallId \X Nat
  BY <1>2 DEF TxnTyped
<1>8. /\ work' \in Seq(CallId \X Nat)
      /\ \A i \in DOMAIN work : i \in DOMAIN work' /\ work'[i] = work[i]
      /\ \A i \in DOMAIN work' : i \in DOMAIN work \/ work'[i] = r
      /\ \E i \in DOMAIN work' : work'[i] = r
  <2>1. Len(work') = Len(work) + 1 /\ work'[Len(work) + 1] = r /\ Len(work) \in Nat
    BY <1>1, <1>7
  <2> QED
    BY <1>1, <1>7, <2>1
<1>9. TxnTyped'
  BY <1>1, <1>2, <1>6, <1>8 DEF TxnTyped
<1>10. TakesBatch' /\ GateInv'
  BY <1>1, <1>5 DEF IInv, TakesBatch, GateInv
<1>11. RowsInv'
  BY <1>1, <1>2, <1>4 DEF RowsInv, ParentResolved, c
<1>12. WorkInv'
  BY <1>2, <1>4, <1>8 DEF WorkInv, c
<1>13. NothingMissed'
  <2>1. SUFFICES ASSUME NEW q \in pending', Fn[q] \in dict, Parent[q] \in folded' \cup {Top}
                 PROVE  \/ \E s \in rows' : s[1] = q
                        \/ \E i \in DOMAIN work' : work'[i][1] = Parent[q]
    BY <1>1 DEF NothingMissed, ParentResolved
  <2>2. CASE Parent[q] = c
    BY <1>8, <2>2 DEF c
  <2>3. CASE Parent[q] \in folded \cup {Top}
    <3>1. \/ \E s \in rows : s[1] = q
          \/ \E i \in DOMAIN work : work[i][1] = Parent[q]
      BY <1>1, <1>2, <2>1, <2>3 DEF NothingMissed, ParentResolved
    <3>2. \A s \in rows : s[1] = q => s \in rows'
      BY <1>1, <2>1 DEF c
    <3> QED
      BY <1>8, <3>1, <3>2
  <2> QED
    BY <1>4, <2>1, <2>2, <2>3
<1>14. Extends(tables', saved')
  BY <1>1, <1>4, FoldExtends
<1> QED
  BY <1>1, <1>4, <1>9, <1>10, <1>11, <1>12, <1>13, <1>14 DEF IInv, DrainInv

LEMMA PopParentIInv ==
    ASSUME IInv, PopParent
    PROVE  IInv'
<1> DEFINE top == Head(work)
           found == {q \in pending : Parent[q] = top[1] /\ Fn[q] \in dict}
<1>1. /\ tables' = tables /\ saved' = saved /\ batch' = batch /\ todo' = todo
      /\ outcome' = outcome /\ delivered' = delivered /\ seen' = seen
      /\ pc' = "drain" /\ pc = "drain" /\ rows = {} /\ work # <<>>
      /\ work' = Tail(work)
      /\ rows' = {<<c, top[2] + 1>> : c \in found}
  BY DEF PopParent, ChildrenOf, unchangedTables, tables
<1>2. dict' = dict /\ pending' = pending /\ callNode' = callNode /\ folded' = folded
  BY DEF PopParent, unchangedTables, folded
<1>3. TxnTyped /\ RowsInv /\ WorkInv /\ NothingMissed
  BY <1>1 DEF IInv, DrainInv
<1>4. /\ top = work[1] /\ top \in CallId \X Nat /\ 1 \in DOMAIN work
      /\ work' \in Seq(CallId \X Nat)
      /\ \A i \in DOMAIN work' : i + 1 \in DOMAIN work /\ work'[i] = work[i + 1]
      /\ \A i \in DOMAIN work : i = 1 \/ (i - 1 \in DOMAIN work' /\ work'[i - 1] = work[i])
  <2>1. work \in Seq(CallId \X Nat) /\ work # <<>>
    BY <1>1, <1>3 DEF TxnTyped
  <2> QED
    BY <1>1, <2>1
<1>5. pending \subseteq CallId
  BY TableFields DEF IInv, Sane, Typed
<1> HIDE DEF top
<1>6. top[2] + 1 \in Nat
  BY <1>4
<1>7. TxnTyped'
  BY <1>1, <1>3, <1>4, <1>5, <1>6 DEF TxnTyped
<1>8. TakesBatch' /\ GateInv'
  BY <1>1, <1>2 DEF IInv, TakesBatch, GateInv, tables
<1>9. RowsInv'
  <2>1. \A c \in found : ParentResolved(c)
    BY <1>3, <1>4 DEF WorkInv, ParentResolved
  <2> QED
    BY <1>1, <1>2, <2>1 DEF RowsInv, ParentResolved
<1>10. WorkInv'
  BY <1>2, <1>3, <1>4 DEF WorkInv
<1>11. NothingMissed'
  <2>1. SUFFICES ASSUME NEW q \in pending, Fn[q] \in dict, Parent[q] \in folded \cup {Top}
                 PROVE  \/ \E s \in rows' : s[1] = q
                        \/ \E i \in DOMAIN work' : work'[i][1] = Parent[q]
    BY <1>2 DEF NothingMissed, ParentResolved
  <2>2. PICK i \in DOMAIN work : work[i][1] = Parent[q]
    BY <1>1, <1>3, <2>1 DEF NothingMissed, ParentResolved
  <2>3. CASE i = 1
    <3>1. <<q, top[2] + 1>> \in rows'
      BY <1>1, <1>4, <2>1, <2>2, <2>3
    <3>2. <<q, top[2] + 1>>[1] = q
      OBVIOUS
    <3> QED
      BY <3>1, <3>2
  <2>4. CASE i # 1
    BY <1>4, <2>2, <2>4
  <2> QED
    BY <2>3, <2>4
<1> QED
  BY <1>1, <1>7, <1>8, <1>9, <1>10, <1>11 DEF IInv, DrainInv

LEMMA EndDrainIInv ==
    ASSUME IInv, EndDrain
    PROVE  IInv'
<1>1. /\ tables' = tables /\ saved' = saved /\ txn' = txn /\ delivered' = delivered
      /\ seen' = seen /\ pc' = "commit" /\ pc = "drain" /\ rows = {} /\ work = <<>>
  BY DEF EndDrain, unchangedTables, tables
<1>2. Settled(tables)
  <2>1. NothingMissed
    BY <1>1 DEF IInv, DrainInv
  <2> QED
    BY <1>1, <2>1, TableFields DEF NothingMissed, ParentResolved, Settled
<1>3. TxnTyped' /\ TakesBatch' /\ GateInv' /\ DrainInv'
  BY <1>1 DEF IInv, TxnTyped, TakesBatch, GateInv, DrainInv, txn, tables
<1> QED
  BY <1>1, <1>2, <1>3 DEF IInv

-----------------------------------------------------------------------------
LEMMA ExtendsReflexive ==
    ASSUME NEW t, Typed(t)
    PROVE  Extends(t, t)
<1>1. \A n \in DOMAIN t.nodes : t.nodes[n] \in Bucket
  BY DEF Typed
<1> QED
  BY <1>1 DEF Extends, Bucket

LEMMA CommitIInv ==
    ASSUME IInv, Commit
    PROVE  IInv'
<1>1. /\ tables' = tables /\ saved' = tables /\ todo' = todo /\ rows' = rows
      /\ work' = work /\ delivered' = delivered + 1
      /\ pc' = "idle" /\ pc = "commit" /\ batch' = NoBatch /\ outcome' = NoOutcome
      /\ seen' = seen \cup CallsOf(batch)
  BY DEF Commit, unchangedTables, tables
<1>2. TxnTyped /\ TakesBatch /\ DrainInv /\ Sane(tables) /\ Settled(tables)
  BY <1>1 DEF IInv
<1>3. CallsOf(batch) \subseteq CallId
  BY <1>2 DEF TxnTyped, CallsOf
<1>4. TxnTyped'
  BY <1>1, <1>2, <1>3, BoundAssumption DEF TxnTyped, TakesBatch, NoBatch, NoOutcome
<1>5. Extends(tables', saved')
  BY <1>1, <1>2, ExtendsReflexive DEF Sane
<1>6. saved'.state = "active"
  BY <1>1, <1>2, TableFields DEF TakesBatch
<1> QED
  BY <1>1, <1>2, <1>4, <1>5, <1>6 DEF IInv, TakesBatch, GateInv, DrainInv

LEMMA RollbackIInv ==
    ASSUME IInv, Rollback
    PROVE  IInv'
<1>1. Sane(saved) /\ Settled(saved) /\ TxnTyped
  BY DEF IInv
<1>2. tables' = saved
  BY <1>1 DEF Rollback, Sane, Typed, tables
<1>3. TxnTyped'
  BY <1>1 DEF Rollback, TxnTyped, NoBatch, NoOutcome
<1>4. Extends(tables', saved')
  BY <1>1, <1>2, ExtendsReflexive DEF Rollback, Sane
<1> QED
  BY <1>1, <1>2, <1>3, <1>4 DEF Rollback, IInv, TakesBatch, GateInv, DrainInv

(* Finalizing drops the parked calls; the folded ones keep their reason. *)
LEMMA FinalizeDerived ==
    ASSUME NEW t, Sane(t)
    PROVE  Supported(FoldedIn(t), FoldedIn(t), t.dict)
<1> SUFFICES ASSUME NEW S \in SUBSET FoldedIn(t), Abstract!IsClosed(S, FoldedIn(t), t.dict)
             PROVE  FoldedIn(t) \subseteq S
  BY DEF Supported
<1> DEFINE R == S \cup t.pending
<1>1. R \in SUBSET HeldIn(t)
  BY DEF HeldIn
<1>2. Abstract!IsClosed(R, HeldIn(t), t.dict)
  BY DEF Abstract!IsClosed, HeldIn, Sane, Placed, Apart
<1>3. FoldedIn(t) \subseteq R
  <2> HIDE DEF R
  <2> QED
    BY <1>1, <1>2 DEF Sane, Derived, Supported
<1> QED
  BY <1>3 DEF Sane, Apart

LEMMA FinalizeTraceIInv ==
    ASSUME IInv, FinalizeTrace
    PROVE  IInv'
<1>1. /\ pc = "idle" /\ state # "absent" /\ pending' = {} /\ state' = "finalized"
      /\ dict' = dict /\ nodes' = nodes /\ callNode' = callNode /\ pc' = pc
      /\ txn' = txn /\ delivered' = delivered /\ seen' = seen /\ saved' = tables'
  BY DEF FinalizeTrace
<1>2. Sane(tables) /\ TxnTyped /\ DrainInv
  BY DEF IInv
<1>3. FoldedIn(tables') = FoldedIn(tables) /\ HeldIn(tables') = FoldedIn(tables)
  BY <1>1 DEF FoldedIn, HeldIn, tables
<1>4. Typed(tables)'
  <2>1. anomalies \in [AnomalyKind -> [CallId -> Nat]]
    BY <1>2, TableFields DEF Sane, Typed
  <2>2. anomalies' \in [AnomalyKind -> [CallId -> Nat]]
    BY <2>1 DEF FinalizeTrace
  <2> QED
    BY <1>1, <1>2, <2>2, TableFields DEF Sane, Typed, tables
<1>5. Sane(tables')
  <2>1. Apart(tables') /\ Placed(tables')
    BY <1>1, <1>2, <1>3, TableFields DEF Sane, Apart, Placed, NodeOfCaller, tables
  <2>2. Rooted(tables')
    BY <1>1, <1>2, <1>3, TableFields DEF Sane, Rooted, tables
  <2>3. Derived(tables')
    BY <1>1, <1>2, <1>3, TableFields, FinalizeDerived DEF Derived, tables
  <2> QED
    BY <1>4, <2>1, <2>2, <2>3 DEF Sane
<1>6. Settled(tables') /\ saved'.pending = {}
  BY <1>1 DEF Settled, tables
<1>7. Extends(tables', saved')
  BY <1>1, <1>5, ExtendsReflexive DEF Sane
<1>8. TxnTyped' /\ TakesBatch' /\ GateInv' /\ DrainInv'
  BY <1>1, <1>2 DEF TxnTyped, TakesBatch, GateInv, DrainInv, txn
<1> QED
  BY <1>1, <1>5, <1>6, <1>7, <1>8 DEF IInv

LEMMA StutterIInv ==
    ASSUME IInv, UNCHANGED vars
    PROVE  IInv'
<1>1. /\ tables' = tables /\ saved' = saved /\ txn' = txn /\ delivered' = delivered
      /\ seen' = seen /\ pc' = pc
      /\ dict' = dict /\ pending' = pending /\ callNode' = callNode /\ state' = state
  BY DEF vars, tables
<1>2. TxnTyped' /\ TakesBatch' /\ GateInv' /\ DrainInv'
  BY <1>1 DEF IInv, TxnTyped, TakesBatch, GateInv, DrainInv, txn, RowsInv, WorkInv,
              NothingMissed, ParentResolved, folded
<1> QED
  BY <1>1, <1>2 DEF IInv

LEMMA NextIInv == IInv /\ [Next]_vars => IInv'
<1> SUFFICES ASSUME IInv, [Next]_vars PROVE IInv'
  OBVIOUS
<1>1. CASE \E b \in Batches : BeginBatch(b)
  BY <1>1, BeginBatchIInv
<1>2. CASE Aggregate
  BY <1>2, SkipKnownIInv, ParkIInv, FoldInBatchIInv DEF Aggregate
<1>3. CASE Drain
  BY <1>3, SkipDrainIInv, SeedDrainIInv, FoldRowIInv, PopParentIInv, EndDrainIInv DEF Drain
<1>4. CASE Commit
  BY <1>4, CommitIInv
<1>5. CASE Rollback
  BY <1>5, RollbackIInv
<1>6. CASE FinalizeTrace
  BY <1>6, FinalizeTraceIInv
<1>7. CASE UNCHANGED vars
  BY <1>7, StutterIInv
<1> QED
  BY <1>1, <1>2, <1>3, <1>4, <1>5, <1>6, <1>7 DEF Next

(* The inductive invariant holds of every reachable state. *)
THEOREM Inductive == Spec => []IInv
BY InitIInv, NextIInv, PTL DEF Spec

(* Type correctness, for every trace and every way to cut it into batches. *)
THEOREM TypeCorrect == Spec => []TypeOK
<1>1. IInv => TypeOK
  BY TableFields DEF IInv, TxnTyped, Sane, Typed, TypeOK
<1> QED
  BY <1>1, Inductive, PTL

(* No call is ever both merged into the tree and parked. *)
THEOREM OneHomeHolds == Spec => []OneHome
<1>1. IInv => OneHome
  BY TableFields DEF IInv, Sane, Apart, OneHome
<1> QED
  BY <1>1, Inductive, PTL

(***************************************************************************)
(* Every merged call sits in its function's bucket under its caller's      *)
(* bucket, whichever of the two paths of the code merged it and when.      *)
(***************************************************************************)
THEOREM PlacedUnderCallerHolds == Spec => []PlacedUnderCaller
<1>1. ASSUME IInv PROVE PlacedUnderCaller
  <2>1. Placed(tables)
    BY <1>1 DEF IInv, Sane
  <2>2. \A c \in folded : NodeOfCaller(tables, c) = ParentNode(c)
    BY TableFields DEF NodeOfCaller, ParentNode
  <2> QED
    BY <2>1, <2>2, TableFields DEF Placed, PlacedUnderCaller, ParentResolved
<1> QED
  BY <1>1, Inductive, PTL

(***************************************************************************)
(* The gate, the seed query and the cascade leave no parked call that      *)
(* could have been merged.                                                 *)
(***************************************************************************)
THEOREM NothingResolvableWaitsHolds == Spec => []NothingResolvableWaits
<1>1. IInv => NothingResolvableWaits
  BY DEF IInv, Settled, NothingResolvableWaits, FoldedIn, savedFolded
<1> QED
  BY <1>1, Inductive, PTL

(* DI-4: a finalized trace has nothing parked. *)
THEOREM FinalizedIsDrainedHolds == Spec => []FinalizedIsDrained
<1>1. IInv => FinalizedIsDrained
  BY DEF IInv, FinalizedIsDrained
<1> QED
  BY <1>1, Inductive, PTL

(* No committed step takes from the tree what readers have seen of it. *)
THEOREM TreeOnlyGrowsHolds == Spec => TreeOnlyGrows
<1> DEFINE Grows == Extends(saved', saved)
<1>1. IInv /\ [Next]_vars => saved' = saved \/ Grows
  <2> SUFFICES ASSUME IInv, [Next]_vars, saved' # saved PROVE Extends(saved', saved)
    OBVIOUS
  <2>1. Commit \/ FinalizeTrace
    BY DEF Next, vars, Aggregate, Drain, BeginBatch, SkipKnown, Park, FoldInBatch,
           NextCall, SkipDrain, SeedDrain, FoldRow, PopParent, EndDrain, Rollback
  <2>2. CASE Commit
    BY <2>2, TableFields DEF IInv, Commit
  <2>3. CASE FinalizeTrace
    <3>1. saved'.nodes = saved.nodes
      BY <2>3 DEF IInv, FinalizeTrace, tables
    <3> QED
      BY <3>1, ExtendsReflexive DEF IInv, Sane, Extends
  <2> QED
    BY <2>1, <2>2, <2>3
<1>2. IInv /\ [Next]_vars =>
        [ \A n \in DOMAIN saved.nodes :
            /\ n \in DOMAIN saved'.nodes
            /\ saved'.nodes[n].count >= saved.nodes[n].count
            /\ saved'.nodes[n].wall >= saved.nodes[n].wall
            /\ saved'.nodes[n].childWall >= saved.nodes[n].childWall ]_saved
  BY <1>1 DEF Extends
<1> QED
  BY <1>2, Inductive, PTL DEF Spec, TreeOnlyGrows

-----------------------------------------------------------------------------
(***************************************************************************)
(* What is folded is what TraceTree would fold, once nothing resolvable    *)
(* waits: Derived is one half of the equality and Settled the other.       *)
(***************************************************************************)
LEMMA FoldedIsResolvable ==
    ASSUME NEW t, Sane(t), Settled(t)
    PROVE  FoldedIn(t) = Abstract!Resolvable(HeldIn(t), t.dict)
<1>1. FoldedIn(t) \in SUBSET HeldIn(t)
  BY DEF HeldIn
<1>2. Abstract!IsClosed(FoldedIn(t), HeldIn(t), t.dict)
  BY DEF Abstract!IsClosed, HeldIn, Settled
<1>3. Supported(FoldedIn(t), HeldIn(t), t.dict)
  BY DEF Sane, Derived
<1>4. FoldedIn(t) \subseteq Abstract!Resolvable(HeldIn(t), t.dict)
  BY <1>1, <1>3 DEF Supported, Abstract!Resolvable
<1>5. Abstract!Resolvable(HeldIn(t), t.dict) \subseteq FoldedIn(t)
  BY <1>1, <1>2 DEF Abstract!Resolvable
<1> QED
  BY <1>4, <1>5

LEMMA RefinedState == savedFolded = FoldedIn(saved) /\ savedFolded \cup saved.pending = HeldIn(saved)
BY DEF savedFolded, FoldedIn, HeldIn

LEMMA RefinedInit == Init => Abstract!Init
BY DEF Init, Abstract!Init, tables, savedFolded

(* A commit is one step of the abstract module: it records the batch. *)
LEMMA CommitRecords ==
    ASSUME IInv, Commit
    PROVE  \E b \in Batches : Abstract!Record(b)
<1>1. /\ Sane(tables) /\ Settled(tables) /\ TakesBatch /\ saved' = tables /\ pc = "commit"
  BY DEF IInv, Commit
<1>2. /\ batch \in Batches /\ dict = saved.dict \cup batch.dict
      /\ HeldIn(tables) = HeldIn(saved) \cup CallsOf(batch)
  <2>1. todo = <<>>
    BY <1>1 DEF TakesBatch
  <2>2. {todo[i] : i \in DOMAIN todo} = {}
    BY <2>1
  <2> QED
    BY <1>1, <2>2 DEF TakesBatch
<1>3. FoldedIn(tables) = Abstract!Resolvable(HeldIn(tables), dict)
  BY <1>1, FoldedIsResolvable, TableFields
<1>4. /\ savedFolded' = FoldedIn(tables)
      /\ (savedFolded \cup saved.pending)' = HeldIn(tables)
      /\ saved'.dict = dict
  BY <1>1, TableFields DEF savedFolded, FoldedIn, HeldIn
<1>5. Abstract!Record(batch)
  BY <1>2, <1>3, <1>4, RefinedState DEF Abstract!Record, Abstract!CallsOf, CallsOf
<1> QED
  BY <1>2, <1>5

LEMMA FinalizeGivesUp ==
    ASSUME IInv, FinalizeTrace
    PROVE  Abstract!Finalize
<1>1. saved = tables /\ saved' = tables' /\ callNode' = callNode /\ dict' = dict /\ pending' = {}
  BY DEF IInv, FinalizeTrace
<1>2. savedFolded' = savedFolded /\ saved'.pending = {} /\ saved'.dict = saved.dict
  BY <1>1 DEF savedFolded, tables
<1> QED
  BY <1>2 DEF Abstract!Finalize

(***************************************************************************)
(* CallTree implements TraceTree: the tree readers see is the function of  *)
(* the calls and the dictionary held that TraceTree defines, whatever the  *)
(* order, the cutting and the repetition of batches that led there.        *)
(***************************************************************************)
THEOREM Refinement == Spec => ImplementsTraceTree
<1>1. IInv /\ [Next]_vars => [Abstract!Next]_(Abstract!vars)
  <2> SUFFICES ASSUME IInv, [Next]_vars
               PROVE  Abstract!Next \/ UNCHANGED Abstract!vars
    OBVIOUS
  <2>1. CASE Commit
    BY <2>1, CommitRecords DEF Abstract!Next
  <2>2. CASE FinalizeTrace
    BY <2>2, FinalizeGivesUp DEF Abstract!Next
  <2>3. CASE ~Commit /\ ~FinalizeTrace
    <3>1. saved' = saved
      BY <2>3
         DEF Next, vars, Aggregate, Drain, BeginBatch, SkipKnown, Park, FoldInBatch,
             NextCall, SkipDrain, SeedDrain, FoldRow, PopParent, EndDrain, Rollback
    <3> QED
      BY <3>1 DEF Abstract!vars, savedFolded
  <2> QED
    BY <2>1, <2>2, <2>3
<1> QED
  BY <1>1, RefinedInit, Inductive, PTL DEF Spec, ImplementsTraceTree, Abstract!Spec
=============================================================================
