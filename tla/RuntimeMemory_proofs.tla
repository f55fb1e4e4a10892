------------------------ MODULE RuntimeMemory_proofs ------------------------
(***************************************************************************)
(* Theorems about the generated host program of RuntimeMemory.             *)
(*                                                                         *)
(* Traversals: however deep they and their recursions are nested, the      *)
(* pyramids are at the levels the open recursions say.  The invariant      *)
(* relates the stack of calls to the list hipaccPyramids: a call works on  *)
(* the entry of the innermost traversal around it, and two calls have all  *)
(* of their pyramids in common or none.  So the pyramids of a traversal    *)
(* stay at one level, and it is enough that hipaccTraverse asks the first  *)
(* of them whether it is at the bottom.                                    *)
(*                                                                         *)
(* Pixels: the host program implements the DSL.  The invariant MemoryInv   *)
(* gives every block its rows at the stride of its target; a transfer is   *)
(* then what it does to the rows of an image, whatever the padding.        *)
(*                                                                         *)
(* Handles: host blocks are counted and device blocks released once.  The  *)
(* invariant CountInv writes the handles on an image as a sum over the     *)
(* variables plus the entries of the context, gives every image one owner, *)
(* the variable that created it, and says which images are freed by which  *)
(* of the owners have been released.                                       *)
(***************************************************************************)
EXTENDS RuntimeMemory, FiniteSetTheorems, SequenceTheorems,
        WellFoundedInduction, TLAPS

Running(cs) == {t \in DOMAIN cs : cs[t].kind = "traversal"}
Recursing(cs, p) ==
  {t \in DOMAIN cs : cs[t].kind = "recursion" /\ p \in cs[t].pyrs}

(* The traversals among the first t calls.                                 *)
RunningAt(cs, t) == {u \in Running(cs) : u <= t}
Depth(cs, t) == Cardinality(RunningAt(cs, t))

Call == [kind : {"traversal", "recursion"}, pyrs : SUBSET PyramidNames,
         left : Nat]

(* Pyramids keep their record type; a declared one has a stage.            *)
PyramidOK(P) ==
  /\ P \in [imgs : {P.imgs}, level : Nat, bound : BOOLEAN]
  /\ Len(P.imgs) \in Nat
  /\ P = NoPyramid \/ Len(P.imgs) > 0
PyramidsOK ==
  DOMAIN pyramids = PyramidNames /\ \A p \in PyramidNames : PyramidOK(pyramids[p])

ListsOK ==
  /\ calls \in Seq(Call)
  /\ hipaccPyramids \in Seq(SUBSET PyramidNames)

(* A call works on the pyramids of the innermost traversal around it.      *)
NestedOK ==
  /\ Len(hipaccPyramids) = Cardinality(Running(calls))
  /\ \A t \in DOMAIN calls : /\ Depth(calls, t) \in DOMAIN hipaccPyramids
                             /\ calls[t].pyrs = hipaccPyramids[Depth(calls, t)]
                             /\ calls[t].pyrs # {}

(* A bound pyramid belongs to one traversal, calls have the pyramids of a  *)
(* traversal or none, and these have as many stages.                       *)
BoundOK ==
  /\ \A t \in DOMAIN calls : \A p \in calls[t].pyrs :
       /\ pyramids[p].bound
       /\ \E u \in RunningAt(calls, t) : p \in calls[u].pyrs
  /\ \A p \in PyramidNames : pyramids[p].bound => Traversing(p) # {}
  /\ \A p \in PyramidNames : \A t, u \in Traversing(p) : t = u
  /\ \A t, u \in DOMAIN calls : \A p \in PyramidNames :
       p \in calls[t].pyrs /\ p \in calls[u].pyrs => calls[t].pyrs = calls[u].pyrs
  /\ \A t \in DOMAIN calls : \A p, q \in calls[t].pyrs :
       Len(pyramids[p].imgs) = Len(pyramids[q].imgs)

LevelsOK ==
  \A p \in PyramidNames :
    /\ pyramids[p].level = Cardinality(Recursing(calls, p))
    /\ pyramids[p] # NoPyramid => pyramids[p].level <= Len(pyramids[p].imgs) - 1

TraversalInv == PyramidsOK /\ ListsOK /\ NestedOK /\ BoundOK /\ LevelsOK

-----------------------------------------------------------------------------
(* The invariant is what the property needs, and a little more.            *)
LEMMA InvImpliesLevels ==
  ASSUME TraversalInv
  PROVE  LevelsFollowTheCalls
  <1>1. ASSUME NEW p \in PyramidNames
        PROVE  Cardinality(Traversing(p)) = IF pyramids[p].bound THEN 1 ELSE 0
    <2>1. CASE pyramids[p].bound
      <3>1. PICK t : t \in Traversing(p)
        BY <2>1 DEF TraversalInv, BoundOK
      <3>2. Traversing(p) = {t}
        BY <3>1 DEF TraversalInv, BoundOK
      <3> QED
        BY <2>1, <3>2, FS_Singleton
    <2>2. CASE ~pyramids[p].bound
      <3>1. Traversing(p) = {}
        BY <2>2 DEF TraversalInv, BoundOK, Traversing
      <3> QED
        BY <2>2, <3>1, FS_EmptySet
    <2> QED
      BY <2>1, <2>2
  <1>2. ASSUME NEW p \in PyramidNames, pyramids[p] # NoPyramid
        PROVE  pyramids[p].level \in 0..Len(pyramids[p].imgs) - 1
    BY <1>2 DEF TraversalInv, PyramidsOK, PyramidOK, LevelsOK
  <1>3. Len(hipaccPyramids) = Cardinality(Running(calls))
    BY DEF TraversalInv, NestedOK
  <1> QED
    BY <1>1, <1>2, <1>3
    DEF LevelsFollowTheCalls, TraversalInv, LevelsOK, Recursing, Running

-----------------------------------------------------------------------------
(* Counting calls: one more when a call begins, one less when it ends.     *)
LEMMA FiniteCalls ==
  ASSUME NEW n \in Nat, NEW T \in SUBSET (1..n)
  PROVE  IsFiniteSet(T) /\ Cardinality(T) \in Nat
  <1>1. IsFiniteSet(1..n)
    BY FS_Interval
  <1> QED
    BY <1>1, FS_Subset, FS_CardinalityType

LEMMA CountMore ==
  ASSUME NEW n \in Nat, NEW S \in SUBSET (1..n), NEW T \in SUBSET (1..(n + 1)),
         \A t \in 1..n : t \in S <=> t \in T
  PROVE  Cardinality(T) = Cardinality(S) + (IF n + 1 \in T THEN 1 ELSE 0)
  <1>1. IsFiniteSet(S) /\ Cardinality(S) \in Nat
    BY FiniteCalls
  <1>4. \A t \in T : t \in 1..n \/ t = n + 1
    OBVIOUS
  <1>5. S \subseteq 1..n /\ n + 1 \notin 1..n
    OBVIOUS
  <1>2. CASE n + 1 \in T
    <2>1. T = S \cup {n + 1} /\ n + 1 \notin S
      BY <1>2, <1>4, <1>5
    <2> QED
      BY <1>1, <1>2, <2>1, FS_AddElement
  <1>3. CASE n + 1 \notin T
    <2>1. T = S
      BY <1>3, <1>4, <1>5
    <2> QED
      BY <1>1, <1>3, <2>1
  <1> QED
    BY <1>2, <1>3

(* cs is a list of n calls, ds the list with one more call.                *)
OneMore(n, cs, ds) ==
  /\ n \in Nat /\ DOMAIN cs = 1..n /\ DOMAIN ds = 1..(n + 1)
  /\ \A t \in 1..n : ds[t] = cs[t]

LEMMA OneCallMore ==
  ASSUME NEW n, NEW cs, NEW ds, OneMore(n, cs, ds)
  PROVE  /\ Cardinality(Running(cs)) \in Nat
         /\ Cardinality(Running(ds)) = Cardinality(Running(cs))
              + (IF ds[n + 1].kind = "traversal" THEN 1 ELSE 0)
         /\ \A t \in 1..n : RunningAt(ds, t) = RunningAt(cs, t)
         /\ RunningAt(ds, n + 1) = Running(ds)
         /\ \A t \in 1..n : Depth(cs, t) <= Cardinality(Running(cs))
         /\ \A p : /\ Cardinality(Recursing(cs, p)) \in Nat
                   /\ Cardinality(Recursing(ds, p)) = Cardinality(Recursing(cs, p))
                        + (IF n + 1 \in Recursing(ds, p) THEN 1 ELSE 0)
  <1>0. /\ n \in Nat /\ DOMAIN cs = 1..n /\ DOMAIN ds = 1..(n + 1)
        /\ \A t \in 1..n : ds[t] = cs[t]
    BY DEF OneMore
  <1>1. /\ Running(cs) \in SUBSET (1..n) /\ Running(ds) \in SUBSET (1..(n + 1))
        /\ \A t \in 1..n : t \in Running(cs) <=> t \in Running(ds)
        /\ n + 1 \in Running(ds) <=> ds[n + 1].kind = "traversal"
    BY <1>0 DEF Running
  <1>2. ASSUME NEW p
        PROVE  /\ Recursing(cs, p) \in SUBSET (1..n)
               /\ Recursing(ds, p) \in SUBSET (1..(n + 1))
               /\ \A t \in 1..n : t \in Recursing(cs, p) <=> t \in Recursing(ds, p)
    BY <1>0 DEF Recursing
  <1>3. IsFiniteSet(Running(cs)) /\ Cardinality(Running(cs)) \in Nat
    BY <1>0, <1>1, FiniteCalls
  <1>4. Cardinality(Running(ds)) = Cardinality(Running(cs))
          + (IF ds[n + 1].kind = "traversal" THEN 1 ELSE 0)
    BY <1>0, <1>1, CountMore
  <1>5. \A t \in 1..n : RunningAt(ds, t) = RunningAt(cs, t)
    <2>1. \A u \in Running(ds) : u \in 1..n \/ u = n + 1
      BY <1>0, <1>1
    <2> QED
      BY <1>0, <1>1, <2>1 DEF RunningAt
  <1>6. RunningAt(ds, n + 1) = Running(ds)
    BY <1>0, <1>1 DEF RunningAt
  <1>7. ASSUME NEW t \in 1..n
        PROVE  Depth(cs, t) <= Cardinality(Running(cs))
    <2>1. RunningAt(cs, t) \in SUBSET Running(cs)
      BY DEF RunningAt
    <2> QED
      BY <1>3, <2>1, FS_Subset DEF Depth
  <1>8. ASSUME NEW p
        PROVE  /\ Cardinality(Recursing(cs, p)) \in Nat
               /\ Cardinality(Recursing(ds, p)) = Cardinality(Recursing(cs, p))
                    + (IF n + 1 \in Recursing(ds, p) THEN 1 ELSE 0)
    BY <1>0, <1>2, FiniteCalls, CountMore
  <1> QED
    BY <1>3, <1>4, <1>5, <1>6, <1>7, <1>8

LEMMA Pushed ==
  ASSUME ListsOK, NEW c \in Call, calls' = Append(calls, c)
  PROVE  /\ Len(calls) \in Nat /\ calls' \in Seq(Call)
         /\ DOMAIN calls = 1..Len(calls) /\ DOMAIN calls' = 1..(Len(calls) + 1)
         /\ \A t \in 1..Len(calls) : calls'[t] = calls[t] /\ calls[t] \in Call
         /\ calls'[Len(calls) + 1] = c
  BY DEF ListsOK

LEMMA Popped ==
  ASSUME ListsOK, calls # << >>, calls' = Front(calls),
         NEW n, n = Len(calls) - 1
  PROVE  /\ n \in Nat /\ calls' \in Seq(Call)
         /\ DOMAIN calls = 1..(n + 1) /\ DOMAIN calls' = 1..n
         /\ \A t \in 1..n : calls'[t] = calls[t]
         /\ Last(calls) = calls[n + 1] /\ Last(calls) \in Call
  <1>1. calls \in Seq(Call) /\ Len(calls) \in Nat /\ Len(calls) > 0
    BY DEF ListsOK
  <1>2. calls' = SubSeq(calls, 1, n)
    BY DEF Front
  <1> QED
    BY <1>1, <1>2 DEF Last

LEMMA WithStages ==
  ASSUME NEW P, NEW i, NEW l, NEW b, P = [imgs |-> i, level |-> l, bound |-> b], NEW j
  PROVE  [P EXCEPT !.imgs = j] = [imgs |-> j, level |-> l, bound |-> b]
  OBVIOUS

Moved(P, by) == [P EXCEPT !.level = @ + by]

(* Binding, unbinding and moving a declared pyramid.                       *)
LEMMA ChangedPyramid ==
  ASSUME NEW P, PyramidOK(P), P # NoPyramid, NEW by \in Int, P.level + by \in Nat
  PROVE  /\ PyramidOK(Bind(P)) /\ PyramidOK(Unbind(P))
         /\ PyramidOK(Moved(P, by))
         /\ Bind(P).bound /\ Bind(P).level = 0 /\ Bind(P).imgs = P.imgs
         /\ ~Unbind(P).bound /\ Unbind(P).level = P.level /\ Unbind(P).imgs = P.imgs
         /\ Moved(P, by).bound = P.bound
         /\ Moved(P, by).level = P.level + by
         /\ Moved(P, by).imgs = P.imgs
  <1>1. /\ P \in [imgs : {P.imgs}, level : Nat, bound : BOOLEAN]
        /\ Len(P.imgs) \in Nat /\ Len(P.imgs) > 0
    BY DEF PyramidOK
  <1>2. Moved(P, by) =
          [imgs |-> P.imgs, level |-> P.level + by, bound |-> P.bound]
    BY <1>1 DEF Moved
  <1>3. ASSUME NEW l \in Nat, NEW b \in BOOLEAN
        PROVE  [[P EXCEPT !.bound = b] EXCEPT !.level = l] =
                 [imgs |-> P.imgs, level |-> l, bound |-> b]
    <2>1. P = [imgs |-> P.imgs, level |-> P.level, bound |-> P.bound]
      BY <1>1
    <2>2. \A i, k, c : [[imgs |-> i, level |-> k, bound |-> c] EXCEPT !.bound = b]
                        = [imgs |-> i, level |-> k, bound |-> b]
      OBVIOUS
    <2>3. \A i, k : [[imgs |-> i, level |-> k, bound |-> b] EXCEPT !.level = l]
                     = [imgs |-> i, level |-> l, bound |-> b]
      OBVIOUS
    <2> QED
      BY <2>1, <2>2, <2>3, Zenon
  <1>4. ASSUME NEW b \in BOOLEAN
        PROVE  [P EXCEPT !.bound = b] =
                 [imgs |-> P.imgs, level |-> P.level, bound |-> b]
    <2>1. P = [imgs |-> P.imgs, level |-> P.level, bound |-> P.bound]
      BY <1>1
    <2>2. \A i, l, c : [[imgs |-> i, level |-> l, bound |-> c] EXCEPT !.bound = b]
                        = [imgs |-> i, level |-> l, bound |-> b]
      OBVIOUS
    <2> QED
      BY <2>1, <2>2, Zenon
  <1>5. ASSUME NEW l \in Nat, NEW b \in BOOLEAN
        PROVE  PyramidOK([imgs |-> P.imgs, level |-> l, bound |-> b])
    BY <1>1 DEF PyramidOK
  <1>6. P.level \in Nat /\ P.bound \in BOOLEAN
    BY <1>1
  <1>0. 0 \in Nat
    OBVIOUS
  <1>7. Bind(P) = [imgs |-> P.imgs, level |-> 0, bound |-> TRUE]
    BY <1>0, <1>3, Zenon DEF Bind
  <1>8. Unbind(P) = [imgs |-> P.imgs, level |-> P.level, bound |-> FALSE]
    BY <1>4, Zenon DEF Unbind
  <1>9. Bind(P).bound /\ Bind(P).level = 0 /\ Bind(P).imgs = P.imgs
    BY <1>7
  <1>10. ~Unbind(P).bound /\ Unbind(P).level = P.level /\ Unbind(P).imgs = P.imgs
    BY <1>8
  <1>11. PyramidOK(Bind(P)) /\ PyramidOK(Unbind(P))
    BY <1>0, <1>5, <1>6, <1>7, <1>8, Zenon
  <1>12. PyramidOK(Moved(P, by))
    BY <1>2, <1>5, <1>6
  <1>13. /\ Moved(P, by).bound = P.bound
         /\ Moved(P, by).level = P.level + by
         /\ Moved(P, by).imgs = P.imgs
    BY <1>1, <1>2
  <1> QED
    BY <1>9, <1>10, <1>11, <1>12, <1>13, Zenon

LEMMA InitTraversalInv == Init => TraversalInv
  <1> SUFFICES ASSUME Init PROVE TraversalInv
    OBVIOUS
  <1>1. DOMAIN calls = {} /\ calls = << >> /\ hipaccPyramids = << >>
    BY DEF Init
  <1>2. ListsOK
    BY <1>1 DEF ListsOK
  <1>3. \A p \in PyramidNames : pyramids[p] = NoPyramid
    BY DEF Init
  <1>4. PyramidsOK
    <2>1. PyramidOK(NoPyramid)
      BY DEF PyramidOK, NoPyramid
    <2> QED
      BY <1>3, <2>1 DEF Init, PyramidsOK
  <1>5. Running(calls) = {} /\ \A p : Recursing(calls, p) = {}
    BY <1>1 DEF Running, Recursing
  <1>6. NestedOK
    BY <1>1, <1>5, FS_EmptySet DEF NestedOK
  <1>7. BoundOK
    BY <1>1, <1>3 DEF BoundOK, Traversing, NoPyramid
  <1>8. LevelsOK
    <2>1. NoPyramid.level = 0
      BY DEF NoPyramid
    <2>2. \A p \in PyramidNames : pyramids[p].level = Cardinality({})
      BY <1>3, <2>1, FS_EmptySet
    <2> QED
      BY <1>3, <1>5, <2>2 DEF LevelsOK
  <1> QED
    BY <1>2, <1>4, <1>6, <1>7, <1>8 DEF TraversalInv

-----------------------------------------------------------------------------
(* Steps that leave pyramids and calls alone, or declare a pyramid.        *)
LEMMA SameKeepsTraversalInv ==
  ASSUME TraversalInv, UNCHANGED <<pyramids, hipaccPyramids, calls>>
  PROVE  TraversalInv'
  BY DEF TraversalInv, PyramidsOK, ListsOK, NestedOK, BoundOK, LevelsOK, Traversing

LEMMA CallTypes ==
  ASSUME ListsOK, NEW t \in DOMAIN calls
  PROVE  calls[t] \in Call /\ calls[t].pyrs \in SUBSET PyramidNames
  <1>1. calls[t] \in Call
    BY DEF ListsOK
  <1> QED
    BY <1>1 DEF Call

LEMMA DeclareKeepsTraversalInv ==
  ASSUME TraversalInv, NEW p \in PyramidNames, NEW n \in ImageNames,
         NEW depth \in Depths, DeclarePyramid(p, n, depth)
  PROVE  TraversalInv'
  <1>1. PICK ids : /\ ids = [l \in 1..(depth - 1) |-> Len(memory) + l]
                   /\ pyramids' = [pyramids EXCEPT ![p] =
                        [NoPyramid EXCEPT !.imgs = <<images[n]>> \o ids]]
                   /\ pyramids[p] = NoPyramid
                   /\ UNCHANGED <<hipaccPyramids, calls>>
    BY DEF DeclarePyramid
  <1>2. depth \in Nat \ {0} /\ depth - 1 \in Nat
    BY DepthsArePositive
  <1>0. [NoPyramid EXCEPT !.imgs = <<images[n]>> \o ids]
          = [imgs |-> <<images[n]>> \o ids, level |-> 0, bound |-> FALSE]
    <2>1. PICK i, l, b : /\ i = << >> /\ l = 0 /\ b = FALSE
                         /\ NoPyramid = [imgs |-> i, level |-> l, bound |-> b]
      BY DEF NoPyramid
    <2>2. \A j : [NoPyramid EXCEPT !.imgs = j] = [imgs |-> j, level |-> l, bound |-> b]
      BY <2>1, WithStages
    <2> QED
      BY <2>1, <2>2, Zenon
  <1>3. PICK P : /\ P = [NoPyramid EXCEPT !.imgs = <<images[n]>> \o ids]
                 /\ P = [imgs |-> <<images[n]>> \o ids, level |-> 0, bound |-> FALSE]
    BY <1>0
  <1>4. Len(P.imgs) = depth
    <2>1. PICK S : S = {images[n]} \cup {Len(memory) + l : l \in 1..(depth - 1)}
      OBVIOUS
    <2>2. ids \in [1..(depth - 1) -> S] /\ <<images[n]>> \in Seq(S)
      BY <1>1, <2>1
    <2>3. ids \in Seq(S) /\ Len(ids) = depth - 1
      BY <1>2, <2>2
    <2> HIDE <2>1
    <2>4. Len(<<images[n]>> \o ids) = depth
      BY <1>2, <2>2, <2>3
    <2> QED
      BY <1>3, <2>4
  <1>5. ~P.bound /\ P.level = 0
    BY <1>3
  <1>6. PyramidOK(P)
    <2>1. PICK i : i = <<images[n]>> \o ids
      OBVIOUS
    <2>2. P = [imgs |-> i, level |-> 0, bound |-> FALSE]
      BY <1>3, <2>1
    <2>3. P \in [imgs : {P.imgs}, level : Nat, bound : BOOLEAN]
      BY <2>2
    <2> QED
      BY <1>2, <1>4, <2>3 DEF PyramidOK
  <1>7. /\ DOMAIN pyramids' = PyramidNames
        /\ pyramids'[p] = P
        /\ \A q \in PyramidNames : q # p => pyramids'[q] = pyramids[q]
    BY <1>1, <1>3 DEF TraversalInv, PyramidsOK
  <1>8. ~pyramids[p].bound /\ pyramids[p].level = 0
    <2>1. ~NoPyramid.bound /\ NoPyramid.level = 0
      BY DEF NoPyramid
    <2> QED
      BY <1>1, <2>1, Zenon
  <1>9. \A t \in DOMAIN calls : calls[t].pyrs \in SUBSET PyramidNames /\ p \notin calls[t].pyrs
    BY <1>8, CallTypes DEF TraversalInv, BoundOK
  <1>10. PyramidsOK'
    BY <1>6, <1>7 DEF TraversalInv, PyramidsOK
  <1>11. ListsOK' /\ NestedOK'
    BY <1>1 DEF TraversalInv, ListsOK, NestedOK
  <1>12. BoundOK'
    BY <1>1, <1>5, <1>7, <1>9 DEF TraversalInv, BoundOK, Traversing
  <1>13. LevelsOK'
    <2>1. ASSUME NEW q \in PyramidNames
          PROVE  /\ pyramids'[q].level = pyramids[q].level
                 /\ pyramids'[q] # NoPyramid => pyramids'[q].level <= Len(pyramids'[q].imgs) - 1
      BY <1>2, <1>4, <1>5, <1>7, <1>8 DEF TraversalInv, LevelsOK
    <2> QED
      BY <1>1, <2>1 DEF TraversalInv, LevelsOK
  <1> QED
    BY <1>10, <1>11, <1>12, <1>13 DEF TraversalInv

-----------------------------------------------------------------------------
(* Steps of traversals.                                                    *)
LEMMA CallsHavePyramids ==
  ASSUME TraversalInv, NEW t \in DOMAIN calls
  PROVE  /\ calls[t].pyrs \in SUBSET PyramidNames
         /\ \A p \in calls[t].pyrs :
              /\ pyramids[p].bound /\ pyramids[p] # NoPyramid
              /\ PyramidOK(pyramids[p]) /\ pyramids[p].level \in Nat
              /\ Len(pyramids[p].imgs) \in Nat /\ Len(pyramids[p].imgs) > 0
         /\ \A p, q \in calls[t].pyrs :
              /\ Recursing(calls, p) = Recursing(calls, q)
              /\ pyramids[p].level = pyramids[q].level
              /\ Len(pyramids[p].imgs) = Len(pyramids[q].imgs)
  <1>1. \A u \in DOMAIN calls : calls[u].pyrs \in SUBSET PyramidNames
    BY CallTypes DEF TraversalInv
  <1>2. ~NoPyramid.bound
    BY DEF NoPyramid
  <1>3. ASSUME NEW p \in calls[t].pyrs
        PROVE  /\ pyramids[p].bound /\ pyramids[p] # NoPyramid
               /\ PyramidOK(pyramids[p]) /\ pyramids[p].level \in Nat
               /\ Len(pyramids[p].imgs) \in Nat /\ Len(pyramids[p].imgs) > 0
    <2>1. pyramids[p].bound /\ p \in PyramidNames /\ PyramidOK(pyramids[p])
      BY <1>1 DEF TraversalInv, BoundOK, PyramidsOK
    <2>2. pyramids[p] # NoPyramid
      BY <1>2, <2>1, Zenon
    <2> QED
      BY <2>1, <2>2 DEF PyramidOK
  <1>4. ASSUME NEW p \in calls[t].pyrs, NEW q \in calls[t].pyrs
        PROVE  /\ Recursing(calls, p) = Recursing(calls, q)
               /\ pyramids[p].level = pyramids[q].level
               /\ Len(pyramids[p].imgs) = Len(pyramids[q].imgs)
    <2>1. p \in PyramidNames /\ q \in PyramidNames
      BY <1>1
    <2>2. \A u \in DOMAIN calls : p \in calls[u].pyrs <=> q \in calls[u].pyrs
      BY <2>1 DEF TraversalInv, BoundOK
    <2>3. Recursing(calls, p) = Recursing(calls, q)
      BY <2>2 DEF Recursing
    <2> QED
      BY <2>1, <2>3 DEF TraversalInv, BoundOK, LevelsOK
  <1> QED
    BY <1>1, <1>3, <1>4

LEMMA TraverseKeepsTraversalInv ==
  ASSUME TraversalInv, NEW ps \in SUBSET PyramidNames, Traverse(ps)
  PROVE  TraversalInv'
  <1>1. PICK n, c : n = Len(calls) /\ c = [kind |-> "traversal", pyrs |-> ps, left |-> 1]
    OBVIOUS
  <1>2. c \in Call /\ c.kind = "traversal" /\ c.pyrs = ps
    BY <1>1 DEF Call
  <1>3. /\ n \in Nat /\ calls' \in Seq(Call)
        /\ DOMAIN calls = 1..n /\ DOMAIN calls' = 1..(n + 1)
        /\ \A t \in 1..n : calls'[t] = calls[t]
        /\ calls'[n + 1] = c
    BY <1>1, <1>2, Pushed DEF Traverse, TraversalInv
  <1>4. /\ ps # {} /\ hipaccPyramids' = Append(hipaccPyramids, ps)
        /\ \A p \in ps : pyramids[p] # NoPyramid /\ ~pyramids[p].bound
        /\ \A p, q \in ps : Len(pyramids[p].imgs) = Len(pyramids[q].imgs)
        /\ DOMAIN pyramids' = PyramidNames
        /\ \A p \in PyramidNames :
             pyramids'[p] = IF p \in ps THEN Bind(pyramids[p]) ELSE pyramids[p]
    BY DEF Traverse
  <1>5. ASSUME NEW p \in PyramidNames
        PROVE  /\ PyramidOK(pyramids'[p]) /\ pyramids'[p].imgs = pyramids[p].imgs
               /\ p \in ps => pyramids'[p].bound /\ pyramids'[p].level = 0
               /\ p \notin ps => pyramids'[p] = pyramids[p]
    <2>1. PyramidOK(pyramids[p])
      BY DEF TraversalInv, PyramidsOK
    <2>2. pyramids[p].level + 0 \in Nat
      BY <2>1 DEF PyramidOK
    <2>3. 0 \in Int
      OBVIOUS
    <2>4. CASE p \in ps
      <3>1. pyramids[p] # NoPyramid
        BY <1>4, <2>4
      <3>2. /\ PyramidOK(Bind(pyramids[p])) /\ Bind(pyramids[p]).bound
            /\ Bind(pyramids[p]).level = 0
            /\ Bind(pyramids[p]).imgs = pyramids[p].imgs
        BY <2>1, <2>2, <2>3, <3>1, ChangedPyramid
      <3> QED
        BY <1>4, <2>4, <3>2
    <2> QED
      BY <1>4, <2>1, <2>4
  <1>6. \A t \in 1..n : \A p \in calls[t].pyrs : p \in PyramidNames /\ p \notin ps
    BY <1>3, <1>4, CallsHavePyramids
  <1>7. /\ Cardinality(Running(calls)) \in Nat
        /\ Cardinality(Running(calls')) = Cardinality(Running(calls)) + 1
        /\ \A t \in 1..n : RunningAt(calls', t) = RunningAt(calls, t)
        /\ RunningAt(calls', n + 1) = Running(calls')
        /\ \A p : Cardinality(Recursing(calls', p)) = Cardinality(Recursing(calls, p))
    <2>0. OneMore(n, calls, calls')
      BY <1>3 DEF OneMore
    <2>1. \A p : n + 1 \notin Recursing(calls', p)
      BY <1>2, <1>3 DEF Recursing
    <2>2. \A p : Cardinality(Recursing(calls, p)) \in Nat
      BY <2>0, OneCallMore
    <2>3. \A p : Cardinality(Recursing(calls', p)) = Cardinality(Recursing(calls, p))
                  + (IF n + 1 \in Recursing(calls', p) THEN 1 ELSE 0)
      BY <2>0, OneCallMore
    <2>4. \A p : Cardinality(Recursing(calls', p)) = Cardinality(Recursing(calls, p))
      BY <2>1, <2>2, <2>3
    <2>5. /\ Cardinality(Running(calls)) \in Nat
          /\ Cardinality(Running(calls')) = Cardinality(Running(calls))
               + (IF calls'[n + 1].kind = "traversal" THEN 1 ELSE 0)
      BY <2>0, OneCallMore
    <2>6. /\ \A t \in 1..n : RunningAt(calls', t) = RunningAt(calls, t)
          /\ RunningAt(calls', n + 1) = Running(calls')
      BY <2>0, OneCallMore
    <2> QED
      BY <1>2, <1>3, <2>4, <2>5, <2>6
  <1>8. PyramidsOK'
    BY <1>4, <1>5 DEF PyramidsOK
  <1>9. ListsOK'
    BY <1>3, <1>4 DEF ListsOK, TraversalInv
  <1>10. NestedOK'
    <2>1. PICK h : h = Len(hipaccPyramids)
      OBVIOUS
    <2>2. /\ h \in Nat /\ DOMAIN hipaccPyramids = 1..h
          /\ DOMAIN hipaccPyramids' = 1..(h + 1) /\ Len(hipaccPyramids') = h + 1
          /\ \A k \in 1..h : hipaccPyramids'[k] = hipaccPyramids[k]
          /\ hipaccPyramids'[h + 1] = ps
      BY <1>4, <2>1 DEF TraversalInv, ListsOK
    <2>3. h = Cardinality(Running(calls))
      BY <2>1 DEF TraversalInv, NestedOK
    <2>4. ASSUME NEW t \in 1..n
          PROVE  /\ Depth(calls', t) \in DOMAIN hipaccPyramids'
                 /\ calls'[t].pyrs = hipaccPyramids'[Depth(calls', t)]
                 /\ calls'[t].pyrs # {}
      <3>1. Depth(calls', t) = Depth(calls, t)
        BY <1>7 DEF Depth
      <3>2. /\ Depth(calls, t) \in 1..h /\ calls[t].pyrs = hipaccPyramids[Depth(calls, t)]
            /\ calls[t].pyrs # {}
        BY <1>3, <2>2 DEF TraversalInv, NestedOK
      <3> QED
        BY <1>3, <2>2, <3>1, <3>2
    <2>5. Depth(calls', n + 1) = h + 1
      BY <1>7, <2>3 DEF Depth
    <2>6. \A t \in DOMAIN calls' : t \in 1..n \/ t = n + 1
      BY <1>3
    <2>7. h + 1 \in DOMAIN hipaccPyramids' /\ Len(hipaccPyramids') = Cardinality(Running(calls'))
      BY <1>7, <2>2, <2>3
    <2> QED
      BY <1>2, <1>3, <1>4, <2>2, <2>4, <2>5, <2>6, <2>7 DEF NestedOK
  <1>11. BoundOK'
    <2>1. \A t \in DOMAIN calls' : t \in 1..n \/ t = n + 1
      BY <1>3
    <2>2. n + 1 \in RunningAt(calls', n + 1)
      BY <1>2, <1>3, <1>7 DEF Running
    <2>3. ASSUME NEW t \in DOMAIN calls', NEW p \in calls'[t].pyrs
          PROVE  pyramids'[p].bound /\ \E u \in RunningAt(calls', t) : p \in calls'[u].pyrs
      <3>1. CASE t \in 1..n
        <4>1. p \in calls[t].pyrs /\ p \in PyramidNames /\ p \notin ps
          BY <1>3, <1>6, <3>1
        <4>2. pyramids[p].bound /\ pyramids'[p] = pyramids[p]
          BY <1>3, <1>5, <3>1, <4>1, CallsHavePyramids
        <4>3. PICK u \in RunningAt(calls, t) : p \in calls[u].pyrs
          BY <1>3, <3>1, <4>1 DEF TraversalInv, BoundOK
        <4>4. u \in 1..n
          BY <1>3 DEF RunningAt, Running
        <4> QED
          BY <1>3, <1>7, <3>1, <4>2, <4>3, <4>4
      <3>2. CASE t = n + 1
        BY <1>2, <1>3, <1>5, <2>2, <3>2
      <3> QED
        BY <2>1, <3>1, <3>2
    <2>4. ASSUME NEW p \in PyramidNames
          PROVE  /\ p \in ps => Traversing(p)' = {n + 1}
                 /\ p \notin ps => Traversing(p)' = Traversing(p)
      <3>1. \A t \in 1..n : p \in ps => p \notin calls[t].pyrs
        BY <1>6
      <3>2. \A t : t \in Traversing(p)' <=>
                     t \in DOMAIN calls' /\ calls'[t].kind = "traversal" /\ p \in calls'[t].pyrs
        BY DEF Traversing
      <3>3. \A t : t \in Traversing(p) <=>
                     t \in DOMAIN calls /\ calls[t].kind = "traversal" /\ p \in calls[t].pyrs
        BY DEF Traversing
      <3>4. n + 1 \in DOMAIN calls' /\ n + 1 \notin DOMAIN calls /\ \A t \in 1..n : t \in DOMAIN calls'
        BY <1>3
      <3>5. \A t : t \in Traversing(p)' <=>
                     (t \in Traversing(p) \/ (t = n + 1 /\ p \in ps))
        BY <1>2, <1>3, <2>1, <3>2, <3>3, <3>4
      <3>6. p \in ps => Traversing(p) = {}
        BY <1>3, <3>1, <3>3
      <3> QED
        BY <3>5, <3>6
    <2>5. ASSUME NEW p \in PyramidNames
          PROVE  /\ pyramids'[p].bound => Traversing(p)' # {}
                 /\ \A t, u \in Traversing(p)' : t = u
      <3>1. CASE p \in ps
        BY <2>4, <3>1
      <3>2. CASE p \notin ps
        BY <1>5, <2>4, <3>2 DEF TraversalInv, BoundOK
      <3> QED
        BY <3>1, <3>2
    <2>6. ASSUME NEW t \in DOMAIN calls', NEW u \in DOMAIN calls', NEW p \in PyramidNames,
                 p \in calls'[t].pyrs, p \in calls'[u].pyrs
          PROVE  calls'[t].pyrs = calls'[u].pyrs
      BY <1>2, <1>3, <1>6, <2>1, <2>6 DEF TraversalInv, BoundOK
    <2>7. ASSUME NEW t \in DOMAIN calls', NEW p \in calls'[t].pyrs, NEW q \in calls'[t].pyrs
          PROVE  Len(pyramids'[p].imgs) = Len(pyramids'[q].imgs)
      <3>1. /\ p \in PyramidNames /\ q \in PyramidNames
            /\ Len(pyramids[p].imgs) = Len(pyramids[q].imgs)
        BY <1>2, <1>3, <1>4, <1>6, <2>1, CallsHavePyramids
      <3> QED
        BY <1>5, <3>1
    <2> QED
      BY <2>3, <2>5, <2>6, <2>7 DEF BoundOK
  <1>12. LevelsOK'
    <2>1. ASSUME NEW p \in PyramidNames, p \in ps
          PROVE  /\ pyramids'[p].level = Cardinality(Recursing(calls', p))
                 /\ pyramids'[p].level <= Len(pyramids'[p].imgs) - 1
      <3>1. Recursing(calls, p) = {}
        BY <1>3, <1>6, <2>1 DEF Recursing
      <3>2. Len(pyramids[p].imgs) > 0 /\ Len(pyramids[p].imgs) \in Nat
        BY <1>4, <2>1 DEF TraversalInv, PyramidsOK, PyramidOK
      <3>3. pyramids'[p].level = 0 /\ Cardinality(Recursing(calls', p)) = 0
        BY <1>5, <1>7, <2>1, <3>1, FS_EmptySet
      <3>4. Len(pyramids'[p].imgs) = Len(pyramids[p].imgs)
        BY <1>5
      <3> QED
        BY <3>2, <3>3, <3>4
    <2>2. ASSUME NEW p \in PyramidNames, p \notin ps
          PROVE  /\ pyramids'[p].level = Cardinality(Recursing(calls', p))
                 /\ pyramids'[p] # NoPyramid =>
                      pyramids'[p].level <= Len(pyramids'[p].imgs) - 1
      BY <1>5, <1>7, <2>2 DEF TraversalInv, LevelsOK
    <2> QED
      BY <2>1, <2>2 DEF LevelsOK
  <1> QED
    BY <1>8, <1>9, <1>10, <1>11, <1>12 DEF TraversalInv

(* The innermost call works on the last entry of hipaccPyramids.           *)
LEMMA InnermostCall ==
  ASSUME TraversalInv, hipaccPyramids # << >>
  PROVE  /\ Len(calls) \in Nat /\ Len(calls) \in DOMAIN calls
         /\ calls[Len(calls)].pyrs = Last(hipaccPyramids)
         /\ RunningAt(calls, Len(calls)) = Running(calls)
         /\ Cardinality(Running(calls)) = Len(hipaccPyramids)
  <1>1. /\ Len(calls) \in Nat /\ DOMAIN calls = 1..Len(calls)
        /\ Len(hipaccPyramids) \in Nat /\ Len(hipaccPyramids) # 0
    BY DEF TraversalInv, ListsOK
  <1>2. Cardinality(Running(calls)) = Len(hipaccPyramids)
    BY DEF TraversalInv, NestedOK
  <1>3. Running(calls) # {}
    BY <1>1, <1>2, FS_EmptySet
  <1>4. Len(calls) \in DOMAIN calls
    <2>1. PICK t \in 1..Len(calls) : TRUE
      BY <1>1, <1>3 DEF Running
    <2> QED
      BY <1>1, <2>1
  <1>5. RunningAt(calls, Len(calls)) = Running(calls)
    BY <1>1 DEF RunningAt, Running
  <1>6. calls[Len(calls)].pyrs = hipaccPyramids[Depth(calls, Len(calls))]
    BY <1>4 DEF TraversalInv, NestedOK
  <1> QED
    BY <1>1, <1>2, <1>4, <1>5, <1>6 DEF Depth, Last

(* A recursion goes one level down, below which all pyramids of the        *)
(* traversal have a stage as the one asked has.                            *)
LEMMA RecurseKeepsTraversalInv ==
  ASSUME TraversalInv, NEW loop \in 1..MaxLoop, loop \in Nat, Recurse(loop)
  PROVE  TraversalInv'
  <1>1. PICK n, ps, c :
          /\ n = Len(calls) /\ ps = Last(hipaccPyramids)
          /\ c = [kind |-> "recursion", pyrs |-> ps, left |-> loop]
    OBVIOUS
  <1>2. /\ hipaccPyramids # << >>
        /\ \E p \in ps : pyramids[p].level # Len(pyramids[p].imgs) - 1
        /\ pyramids' = Move(ps, 1) /\ calls' = Append(calls, c)
        /\ hipaccPyramids' = hipaccPyramids
    BY <1>1 DEF Recurse
  <1>3. n \in DOMAIN calls /\ calls[n].pyrs = ps /\ RunningAt(calls, n) = Running(calls)
    BY <1>1, <1>2, InnermostCall
  <1>4. ps \in SUBSET PyramidNames
    BY <1>3, CallsHavePyramids
  <1>5. c \in Call /\ c.kind = "recursion" /\ c.pyrs = ps
    BY <1>1, <1>4 DEF Call
  <1>6. /\ n \in Nat /\ calls' \in Seq(Call)
        /\ DOMAIN calls = 1..n /\ DOMAIN calls' = 1..(n + 1)
        /\ \A t \in 1..n : calls'[t] = calls[t]
        /\ calls'[n + 1] = c
    BY <1>1, <1>2, <1>5, Pushed DEF TraversalInv
  <1>7. \A p \in ps : /\ pyramids[p].level # Len(pyramids[p].imgs) - 1
                      /\ pyramids[p].level \in Nat /\ Len(pyramids[p].imgs) \in Nat
                      /\ pyramids[p].level <= Len(pyramids[p].imgs) - 1
    <2>1. \A p, q \in ps : /\ pyramids[p].level = pyramids[q].level
                           /\ Len(pyramids[p].imgs) = Len(pyramids[q].imgs)
                           /\ pyramids[p].level \in Nat /\ Len(pyramids[p].imgs) \in Nat
                           /\ pyramids[p] # NoPyramid
      BY <1>3, CallsHavePyramids
    <2>2. \A p \in ps : pyramids[p].level <= Len(pyramids[p].imgs) - 1
      BY <1>4, <2>1 DEF TraversalInv, LevelsOK
    <2> QED
      BY <1>2, <2>1, <2>2
  <1>8. ASSUME NEW p \in PyramidNames
        PROVE  /\ PyramidOK(pyramids'[p]) /\ pyramids'[p].imgs = pyramids[p].imgs
               /\ pyramids'[p].bound = pyramids[p].bound
               /\ p \in ps => pyramids'[p].level = pyramids[p].level + 1
               /\ p \notin ps => pyramids'[p] = pyramids[p]
    <2>1. pyramids'[p] = IF p \in ps THEN Moved(pyramids[p], 1)
                         ELSE pyramids[p]
      BY <1>2 DEF Move, Moved
    <2>2. PyramidOK(pyramids[p]) /\ 1 \in Int
      BY DEF TraversalInv, PyramidsOK
    <2>3. CASE p \in ps
      <3>1. pyramids[p] # NoPyramid /\ pyramids[p].level + 1 \in Nat
        BY <1>3, <1>7, <2>3, CallsHavePyramids
      <3>2. /\ PyramidOK(Moved(pyramids[p], 1))
            /\ Moved(pyramids[p], 1).bound = pyramids[p].bound
            /\ Moved(pyramids[p], 1).level = pyramids[p].level + 1
            /\ Moved(pyramids[p], 1).imgs = pyramids[p].imgs
        BY <2>2, <3>1, ChangedPyramid
      <3>3. pyramids'[p] = Moved(pyramids[p], 1)
        BY <2>1, <2>3
      <3> HIDE <2>1
      <3> QED
        BY <2>3, <3>2, <3>3, Zenon
    <2> QED
      BY <2>1, <2>2, <2>3
  <1>0. OneMore(n, calls, calls')
    BY <1>6 DEF OneMore
  <1>9. /\ Cardinality(Running(calls')) = Cardinality(Running(calls))
        /\ \A t \in 1..n : RunningAt(calls', t) = RunningAt(calls, t)
        /\ RunningAt(calls', n + 1) = Running(calls')
    <2>1. /\ Cardinality(Running(calls)) \in Nat
          /\ Cardinality(Running(calls')) = Cardinality(Running(calls))
               + (IF calls'[n + 1].kind = "traversal" THEN 1 ELSE 0)
      BY <1>0, OneCallMore
    <2>2. /\ \A t \in 1..n : RunningAt(calls', t) = RunningAt(calls, t)
          /\ RunningAt(calls', n + 1) = Running(calls')
      BY <1>0, OneCallMore
    <2> QED
      BY <1>5, <1>6, <2>1, <2>2
  <1>10. \A p : Cardinality(Recursing(calls', p))
                  = Cardinality(Recursing(calls, p)) + (IF p \in ps THEN 1 ELSE 0)
    <2>1. \A p : n + 1 \in Recursing(calls', p) <=> p \in ps
      BY <1>5, <1>6 DEF Recursing
    <2>2. \A p : Cardinality(Recursing(calls', p)) = Cardinality(Recursing(calls, p))
                  + (IF n + 1 \in Recursing(calls', p) THEN 1 ELSE 0)
      BY <1>0, OneCallMore
    <2> QED
      BY <2>1, <2>2
  <1>11. Running(calls') = Running(calls)
    <2>1. \A t \in DOMAIN calls' : t \in 1..n \/ t = n + 1
      BY <1>6
    <2> QED
      BY <1>5, <1>6, <2>1 DEF Running
  <1>12. \A t \in DOMAIN calls' :
           \/ t \in 1..n /\ calls'[t] = calls[t]
           \/ t = n + 1 /\ calls'[t].pyrs = calls[n].pyrs
    BY <1>3, <1>5, <1>6
  <1>13. PyramidsOK'
    BY <1>2, <1>8 DEF PyramidsOK, Move
  <1>14. ListsOK'
    BY <1>2, <1>6 DEF ListsOK, TraversalInv
  <1>15. NestedOK'
    <2>1. ASSUME NEW t \in DOMAIN calls'
          PROVE  /\ Depth(calls', t) \in DOMAIN hipaccPyramids
                 /\ calls'[t].pyrs = hipaccPyramids[Depth(calls', t)]
                 /\ calls'[t].pyrs # {}
      <3>1. PICK u \in 1..n : /\ calls'[t].pyrs = calls[u].pyrs
                              /\ RunningAt(calls', t) = RunningAt(calls, u)
        <4>1. n \in 1..n
          BY <1>3, <1>6
        <4>2. RunningAt(calls', n + 1) = RunningAt(calls, n)
          BY <1>3, <1>9, <1>11
        <4> QED
          BY <1>9, <1>12, <4>1, <4>2
      <3> QED
        BY <1>6, <3>1 DEF TraversalInv, NestedOK, Depth
    <2> QED
      BY <1>2, <1>9, <2>1 DEF TraversalInv, NestedOK
  <1>16. BoundOK'
    <2>1. ASSUME NEW p \in PyramidNames
          PROVE  Traversing(p)' = Traversing(p)
      <3>1. \A t : t \in Traversing(p)' <=> t \in Running(calls') /\ p \in calls'[t].pyrs
        BY DEF Traversing, Running
      <3>2. \A t : t \in Traversing(p) <=> t \in Running(calls) /\ p \in calls[t].pyrs
        BY DEF Traversing, Running
      <3>3. \A t \in Running(calls) : calls'[t] = calls[t]
        BY <1>6 DEF Running
      <3>4. \A t : t \in Traversing(p)' <=> t \in Traversing(p)
        BY <1>11, <3>1, <3>2, <3>3
      <3> QED
        BY <3>4
    <2>2. n \in 1..n
      BY <1>3, <1>6
    <2>3. ASSUME NEW t \in DOMAIN calls'
          PROVE  \E u \in 1..n : /\ calls'[t].pyrs = calls[u].pyrs
                                 /\ RunningAt(calls', t) = RunningAt(calls, u)
      <3>1. RunningAt(calls', n + 1) = RunningAt(calls, n)
        BY <1>3, <1>9, <1>11
      <3> QED
        BY <1>9, <1>12, <2>2, <3>1
    <2>4. ASSUME NEW t \in DOMAIN calls', NEW p \in calls'[t].pyrs
          PROVE  pyramids'[p].bound /\ \E u \in RunningAt(calls', t) : p \in calls'[u].pyrs
      <3>1. PICK u \in 1..n : /\ calls'[t].pyrs = calls[u].pyrs
                              /\ RunningAt(calls', t) = RunningAt(calls, u)
        BY <2>3
      <3>2. p \in PyramidNames /\ pyramids[p].bound
        BY <1>6, <3>1, CallsHavePyramids
      <3>3. PICK v \in RunningAt(calls, u) : p \in calls[v].pyrs
        BY <1>6, <3>1 DEF TraversalInv, BoundOK
      <3>4. v \in 1..n
        BY <1>6 DEF RunningAt, Running
      <3>5. pyramids'[p].bound = pyramids[p].bound
        BY <1>8, <3>2
      <3> QED
        BY <1>6, <3>1, <3>2, <3>3, <3>4, <3>5
    <2>5. ASSUME NEW p \in PyramidNames
          PROVE  /\ pyramids'[p].bound => Traversing(p)' # {}
                 /\ \A t, u \in Traversing(p)' : t = u
      <3>1. pyramids'[p].bound = pyramids[p].bound
        BY <1>8
      <3> QED
        BY <2>1, <3>1 DEF TraversalInv, BoundOK
    <2>6. ASSUME NEW t \in DOMAIN calls', NEW u \in DOMAIN calls', NEW p \in PyramidNames,
                 p \in calls'[t].pyrs, p \in calls'[u].pyrs
          PROVE  calls'[t].pyrs = calls'[u].pyrs
      <3>1. PICK a \in 1..n : calls'[t].pyrs = calls[a].pyrs
        BY <2>3
      <3>2. PICK b \in 1..n : calls'[u].pyrs = calls[b].pyrs
        BY <2>3
      <3>3. a \in DOMAIN calls /\ b \in DOMAIN calls
        BY <1>6
      <3>4. p \in calls[a].pyrs /\ p \in calls[b].pyrs
        BY <2>6, <3>1, <3>2
      <3>5. calls[a].pyrs = calls[b].pyrs
        BY <3>3, <3>4 DEF TraversalInv, BoundOK
      <3> QED
        BY <3>1, <3>2, <3>5
    <2>7. ASSUME NEW t \in DOMAIN calls', NEW p \in calls'[t].pyrs, NEW q \in calls'[t].pyrs
          PROVE  Len(pyramids'[p].imgs) = Len(pyramids'[q].imgs)
      <3>1. /\ p \in PyramidNames /\ q \in PyramidNames
            /\ Len(pyramids[p].imgs) = Len(pyramids[q].imgs)
        BY <1>6, <2>3, CallsHavePyramids
      <3> QED
        BY <1>8, <3>1
    <2> QED
      BY <2>4, <2>5, <2>6, <2>7 DEF BoundOK
  <1>17. LevelsOK'
    <2>1. ASSUME NEW p \in PyramidNames, p \in ps
          PROVE  /\ pyramids'[p].level = Cardinality(Recursing(calls', p))
                 /\ pyramids'[p].level <= Len(pyramids'[p].imgs) - 1
      <3>1. pyramids[p].level = Cardinality(Recursing(calls, p))
        BY DEF TraversalInv, LevelsOK
      <3>2. Len(pyramids'[p].imgs) = Len(pyramids[p].imgs)
        BY <1>8
      <3>3. pyramids'[p].level = pyramids[p].level + 1
        BY <1>8, <2>1
      <3>4. Cardinality(Recursing(calls', p)) = Cardinality(Recursing(calls, p)) + 1
        BY <1>10, <2>1
      <3> QED
        BY <1>7, <2>1, <3>1, <3>2, <3>3, <3>4
    <2>2. ASSUME NEW p \in PyramidNames, p \notin ps
          PROVE  /\ pyramids'[p].level = Cardinality(Recursing(calls', p))
                 /\ pyramids'[p] # NoPyramid =>
                      pyramids'[p].level <= Len(pyramids'[p].imgs) - 1
      <3>1. Cardinality(Recursing(calls, p)) \in Nat
        BY <1>0, OneCallMore
      <3> QED
        BY <1>8, <1>10, <2>2, <3>1 DEF TraversalInv, LevelsOK
    <2> QED
      BY <2>1, <2>2 DEF LevelsOK
  <1> QED
    BY <1>13, <1>14, <1>15, <1>16, <1>17 DEF TraversalInv

LEMMA RepeatKeepsTraversalInv ==
  ASSUME TraversalInv, NextRepetition
  PROVE  TraversalInv'
  <1>1. PICK n : n = Len(calls)
    OBVIOUS
  <1>2. /\ calls \in Seq(Call) /\ n \in Nat /\ n # 0 /\ DOMAIN calls = 1..n
        /\ calls' = [calls EXCEPT ![n].left = @ - 1] /\ Last(calls) = calls[n]
        /\ calls[n].left > 1
        /\ UNCHANGED <<pyramids, hipaccPyramids>>
    BY <1>1 DEF NextRepetition, TraversalInv, ListsOK, Last
  <1>3. calls[n] \in Call
    BY <1>2
  <1>4. PICK c : c = [calls[n] EXCEPT !.left = @ - 1]
    OBVIOUS
  <1>5. c \in Call /\ c.kind = calls[n].kind /\ c.pyrs = calls[n].pyrs
    <2>1. PICK d : d = calls[n]
      OBVIOUS
    <2>2. d \in Call /\ d.left > 1 /\ c = [d EXCEPT !.left = d.left - 1]
      BY <1>2, <1>3, <1>4, <2>1
    <2>3. c = [kind |-> d.kind, pyrs |-> d.pyrs, left |-> d.left - 1]
      BY <2>2 DEF Call
    <2>4. d.left - 1 \in Nat
      BY <2>2 DEF Call
    <2>5. d.kind \in {"traversal", "recursion"} /\ d.pyrs \in SUBSET PyramidNames
      BY <2>2 DEF Call
    <2> QED
      BY <2>1, <2>3, <2>4, <2>5 DEF Call
  <1>6. calls' = [calls EXCEPT ![n] = c]
    BY <1>2, <1>4
  <1>7. /\ calls' \in Seq(Call) /\ DOMAIN calls' = DOMAIN calls
        /\ \A t \in DOMAIN calls : calls'[t] = IF t = n THEN c ELSE calls[t]
    BY <1>2, <1>5, <1>6
  <1>8. \A t \in DOMAIN calls : /\ calls'[t].kind = calls[t].kind
                                /\ calls'[t].pyrs = calls[t].pyrs
    BY <1>5, <1>7
  <1>9. Running(calls') = Running(calls)
    BY <1>7, <1>8 DEF Running
  <1>10. \A t : RunningAt(calls', t) = RunningAt(calls, t)
    BY <1>9 DEF RunningAt
  <1>11. \A p : Recursing(calls', p) = Recursing(calls, p)
    BY <1>7, <1>8 DEF Recursing
  <1>12. \A p : Traversing(p)' = Traversing(p)
    BY <1>7, <1>8 DEF Traversing
  <1>13. \A t : \A u \in RunningAt(calls, t) : u \in DOMAIN calls
    BY DEF RunningAt, Running
  <1>14. PyramidsOK' /\ ListsOK'
    BY <1>2, <1>7 DEF TraversalInv, PyramidsOK, ListsOK
  <1>15. NestedOK'
    <2>1. \A t : Depth(calls', t) = Depth(calls, t)
      BY <1>10 DEF Depth
    <2>2. Len(hipaccPyramids') = Cardinality(Running(calls'))
      BY <1>2, <1>9 DEF TraversalInv, NestedOK
    <2>3. ASSUME NEW t \in DOMAIN calls'
          PROVE  /\ Depth(calls', t) \in DOMAIN hipaccPyramids'
                 /\ calls'[t].pyrs = hipaccPyramids'[Depth(calls', t)]
                 /\ calls'[t].pyrs # {}
      <3>1. /\ t \in DOMAIN calls /\ calls'[t].pyrs = calls[t].pyrs
            /\ Depth(calls', t) = Depth(calls, t)
        BY <1>7, <1>8, <2>1
      <3> QED
        BY <1>2, <3>1 DEF TraversalInv, NestedOK
    <2> QED
      BY <2>2, <2>3 DEF NestedOK
  <1>16. BoundOK'
    <2>1. \A t \in DOMAIN calls' : t \in DOMAIN calls /\ calls'[t].pyrs = calls[t].pyrs
      BY <1>7, <1>8
    <2>2. ASSUME NEW t \in DOMAIN calls', NEW p \in calls'[t].pyrs
          PROVE  pyramids'[p].bound /\ \E u \in RunningAt(calls', t) : p \in calls'[u].pyrs
      <3>1. t \in DOMAIN calls /\ p \in calls[t].pyrs
        BY <2>1
      <3>2. PICK u \in RunningAt(calls, t) : p \in calls[u].pyrs
        BY <3>1 DEF TraversalInv, BoundOK
      <3>3. pyramids[p].bound
        BY <3>1, CallsHavePyramids
      <3>4. u \in RunningAt(calls', t) /\ calls'[u].pyrs = calls[u].pyrs
        BY <1>8, <1>10, <1>13, <3>2
      <3> QED
        BY <1>2, <3>2, <3>3, <3>4
    <2>3. ASSUME NEW p \in PyramidNames
          PROVE  /\ pyramids'[p].bound => Traversing(p)' # {}
                 /\ \A t, u \in Traversing(p)' : t = u
      BY <1>2, <1>12 DEF TraversalInv, BoundOK
    <2>4. ASSUME NEW t \in DOMAIN calls', NEW u \in DOMAIN calls', NEW p \in PyramidNames,
                 p \in calls'[t].pyrs, p \in calls'[u].pyrs
          PROVE  calls'[t].pyrs = calls'[u].pyrs
      BY <2>1, <2>4 DEF TraversalInv, BoundOK
    <2>5. ASSUME NEW t \in DOMAIN calls', NEW p \in calls'[t].pyrs, NEW q \in calls'[t].pyrs
          PROVE  Len(pyramids'[p].imgs) = Len(pyramids'[q].imgs)
      BY <1>2, <2>1 DEF TraversalInv, BoundOK
    <2> QED
      BY <2>2, <2>3, <2>4, <2>5 DEF BoundOK
  <1>17. LevelsOK'
    BY <1>2, <1>11 DEF TraversalInv, LevelsOK
  <1> QED
    BY <1>14, <1>15, <1>16, <1>17 DEF TraversalInv

(* When a call ends, those around it remain.                               *)
LEMMA EndOfCall ==
  ASSUME TraversalInv, calls # << >>, calls' = Front(calls),
         NEW n, n = Len(calls) - 1
  PROVE  /\ n \in Nat /\ calls' \in Seq(Call)
         /\ DOMAIN calls = 1..(n + 1) /\ DOMAIN calls' = 1..n
         /\ \A t \in 1..n : calls'[t] = calls[t]
         /\ Last(calls) = calls[n + 1]
         /\ Cardinality(Running(calls')) \in Nat
         /\ Cardinality(Running(calls)) = Cardinality(Running(calls'))
              + (IF calls[n + 1].kind = "traversal" THEN 1 ELSE 0)
         /\ \A t \in 1..n : /\ RunningAt(calls', t) = RunningAt(calls, t)
                            /\ Depth(calls', t) = Depth(calls, t)
                            /\ Depth(calls', t) <= Cardinality(Running(calls'))
         /\ \A p : /\ Cardinality(Recursing(calls', p)) \in Nat
                   /\ Cardinality(Recursing(calls, p)) = Cardinality(Recursing(calls', p))
                        + (IF n + 1 \in Recursing(calls, p) THEN 1 ELSE 0)
  <1>1. /\ n \in Nat /\ calls' \in Seq(Call)
        /\ DOMAIN calls = 1..(n + 1) /\ DOMAIN calls' = 1..n
        /\ \A t \in 1..n : calls'[t] = calls[t]
        /\ Last(calls) = calls[n + 1]
    BY Popped DEF TraversalInv
  <1>2. OneMore(n, calls', calls)
    BY <1>1 DEF OneMore
  <1>3. \A t \in 1..n : RunningAt(calls', t) = RunningAt(calls, t)
    BY <1>2, OneCallMore
  <1>4. \A t \in 1..n : Depth(calls', t) = Depth(calls, t)
    BY <1>3 DEF Depth
  <1>5. \A t \in 1..n : Depth(calls', t) <= Cardinality(Running(calls'))
    BY <1>2, OneCallMore
  <1>6. \A p : /\ Cardinality(Recursing(calls', p)) \in Nat
               /\ Cardinality(Recursing(calls, p)) = Cardinality(Recursing(calls', p))
                    + (IF n + 1 \in Recursing(calls, p) THEN 1 ELSE 0)
    BY <1>2, OneCallMore
  <1>7. /\ Cardinality(Running(calls')) \in Nat
        /\ Cardinality(Running(calls)) = Cardinality(Running(calls'))
              + (IF calls[n + 1].kind = "traversal" THEN 1 ELSE 0)
    BY <1>2, OneCallMore
  <1> QED
    BY <1>1, <1>3, <1>4, <1>5, <1>6, <1>7

LEMMA EndRecursionKeepsTraversalInv ==
  ASSUME TraversalInv, EndRecursion
  PROVE  TraversalInv'
  <1>1. PICK n, ps : n = Len(calls) - 1 /\ ps = Last(calls).pyrs
    OBVIOUS
  <1>2. /\ calls # << >> /\ Last(calls).kind = "recursion"
        /\ pyramids' = Move(ps, -1) /\ calls' = Front(calls)
        /\ hipaccPyramids' = hipaccPyramids
    BY <1>1 DEF EndRecursion
  <1>3. /\ n \in Nat /\ calls' \in Seq(Call)
        /\ DOMAIN calls = 1..(n + 1) /\ DOMAIN calls' = 1..n
        /\ \A t \in 1..n : calls'[t] = calls[t]
        /\ Last(calls) = calls[n + 1]
        /\ Cardinality(Running(calls')) \in Nat
        /\ \A t \in 1..n : /\ RunningAt(calls', t) = RunningAt(calls, t)
                           /\ Depth(calls', t) = Depth(calls, t)
        /\ \A p : /\ Cardinality(Recursing(calls', p)) \in Nat
                  /\ Cardinality(Recursing(calls, p)) = Cardinality(Recursing(calls', p))
                       + (IF n + 1 \in Recursing(calls, p) THEN 1 ELSE 0)
    BY <1>1, <1>2, EndOfCall
  <1>4. calls[n + 1].kind = "recursion" /\ calls[n + 1].pyrs = ps /\ n + 1 \in DOMAIN calls
    BY <1>1, <1>2, <1>3
  <1>5. ps \in SUBSET PyramidNames
    BY <1>4, CallsHavePyramids
  <1>6. Cardinality(Running(calls')) = Cardinality(Running(calls))
    <2>1. Cardinality(Running(calls)) = Cardinality(Running(calls'))
            + (IF calls[n + 1].kind = "traversal" THEN 1 ELSE 0)
      BY <1>1, <1>2, EndOfCall
    <2> QED
      BY <1>3, <1>4, <2>1
  <1>7. \A p : Cardinality(Recursing(calls, p))
                 = Cardinality(Recursing(calls', p)) + (IF p \in ps THEN 1 ELSE 0)
    <2>1. \A p : n + 1 \in Recursing(calls, p) <=> p \in ps
      BY <1>4 DEF Recursing
    <2> QED
      BY <1>3, <2>1
  <1>8. ASSUME NEW p \in PyramidNames
        PROVE  /\ PyramidOK(pyramids'[p]) /\ pyramids'[p].imgs = pyramids[p].imgs
               /\ pyramids'[p].bound = pyramids[p].bound
               /\ p \in ps => pyramids'[p].level = pyramids[p].level - 1
               /\ p \notin ps => pyramids'[p] = pyramids[p]
    <2>1. pyramids'[p] = IF p \in ps THEN Moved(pyramids[p], -1) ELSE pyramids[p]
      BY <1>2 DEF Move, Moved
    <2>2. PyramidOK(pyramids[p]) /\ -1 \in Int
      BY DEF TraversalInv, PyramidsOK
    <2>3. CASE p \in ps
      <3>1. pyramids[p] # NoPyramid
        BY <1>4, <2>3, CallsHavePyramids
      <3>2. pyramids[p].level + (-1) \in Nat
        BY <1>3, <1>7, <2>3 DEF TraversalInv, LevelsOK
      <3>3. /\ PyramidOK(Moved(pyramids[p], -1))
            /\ Moved(pyramids[p], -1).bound = pyramids[p].bound
            /\ Moved(pyramids[p], -1).level = pyramids[p].level + (-1)
            /\ Moved(pyramids[p], -1).imgs = pyramids[p].imgs
        BY <2>2, <3>1, <3>2, ChangedPyramid
      <3>4. pyramids'[p] = Moved(pyramids[p], -1)
        BY <2>1, <2>3
      <3>5. pyramids[p].level + (-1) = pyramids[p].level - 1
        BY <2>2 DEF PyramidOK
      <3> HIDE <2>1
      <3> QED
        BY <2>3, <3>3, <3>4, <3>5, Zenon
    <2> QED
      BY <2>1, <2>2, <2>3
  <1>9. Running(calls') = Running(calls)
    <2>1. \A t \in DOMAIN calls : t \in 1..n \/ t = n + 1
      BY <1>3
    <2> QED
      BY <1>3, <1>4, <2>1 DEF Running
  <1>10. PyramidsOK'
    BY <1>2, <1>8 DEF PyramidsOK, Move
  <1>11. ListsOK'
    BY <1>2, <1>3 DEF ListsOK, TraversalInv
  <1>12. NestedOK'
    BY <1>2, <1>3, <1>6 DEF TraversalInv, NestedOK
  <1>13. ASSUME NEW p \in PyramidNames
         PROVE  Traversing(p)' = Traversing(p)
    <2>1. \A t : t \in Traversing(p)' <=> t \in Running(calls') /\ p \in calls'[t].pyrs
      BY DEF Traversing, Running
    <2>2. \A t : t \in Traversing(p) <=> t \in Running(calls) /\ p \in calls[t].pyrs
      BY DEF Traversing, Running
    <2>3. \A t \in Running(calls') : calls'[t] = calls[t]
      BY <1>3 DEF Running
    <2>4. \A t : t \in Traversing(p)' <=> t \in Traversing(p)
      BY <1>9, <2>1, <2>2, <2>3
    <2> QED
      BY <2>4
  <1>14. BoundOK'
    <2>1. ASSUME NEW t \in DOMAIN calls', NEW p \in calls'[t].pyrs
          PROVE  pyramids'[p].bound /\ \E u \in RunningAt(calls', t) : p \in calls'[u].pyrs
      <3>1. t \in 1..n /\ t \in DOMAIN calls /\ p \in calls[t].pyrs
        BY <1>3
      <3>2. p \in PyramidNames /\ pyramids[p].bound
        BY <3>1, CallsHavePyramids
      <3>3. PICK u \in RunningAt(calls, t) : p \in calls[u].pyrs
        BY <3>1 DEF TraversalInv, BoundOK
      <3>4. u \in 1..n
        BY <1>3, <3>1 DEF RunningAt, Running
      <3>5. pyramids'[p].bound = pyramids[p].bound
        BY <1>8, <3>2
      <3> QED
        BY <1>3, <3>1, <3>2, <3>3, <3>4, <3>5
    <2>2. ASSUME NEW p \in PyramidNames
          PROVE  /\ pyramids'[p].bound => Traversing(p)' # {}
                 /\ \A t, u \in Traversing(p)' : t = u
      <3>1. pyramids'[p].bound = pyramids[p].bound
        BY <1>8
      <3> QED
        BY <1>13, <3>1 DEF TraversalInv, BoundOK
    <2>3. \A t \in DOMAIN calls' : t \in DOMAIN calls /\ calls'[t] = calls[t]
      BY <1>3
    <2>4. ASSUME NEW t \in DOMAIN calls', NEW u \in DOMAIN calls', NEW p \in PyramidNames,
                 p \in calls'[t].pyrs, p \in calls'[u].pyrs
          PROVE  calls'[t].pyrs = calls'[u].pyrs
      BY <2>3, <2>4 DEF TraversalInv, BoundOK
    <2>5. ASSUME NEW t \in DOMAIN calls', NEW p \in calls'[t].pyrs, NEW q \in calls'[t].pyrs
          PROVE  Len(pyramids'[p].imgs) = Len(pyramids'[q].imgs)
      <3>1. /\ p \in PyramidNames /\ q \in PyramidNames
            /\ Len(pyramids[p].imgs) = Len(pyramids[q].imgs)
        BY <2>3, CallsHavePyramids
      <3> QED
        BY <1>8, <3>1
    <2> QED
      BY <2>1, <2>2, <2>4, <2>5 DEF BoundOK
  <1>15. LevelsOK'
    <2>1. ASSUME NEW p \in PyramidNames, p \in ps
          PROVE  /\ pyramids'[p].level = Cardinality(Recursing(calls', p))
                 /\ pyramids'[p].level <= Len(pyramids'[p].imgs) - 1
      <3>1. pyramids[p].level = Cardinality(Recursing(calls, p))
        BY DEF TraversalInv, LevelsOK
      <3>2. /\ pyramids[p].level \in Nat /\ Len(pyramids[p].imgs) \in Nat
            /\ pyramids[p].level <= Len(pyramids[p].imgs) - 1
        BY <1>4, <2>1, CallsHavePyramids DEF TraversalInv, LevelsOK
      <3>3. Len(pyramids'[p].imgs) = Len(pyramids[p].imgs)
        BY <1>8
      <3>4. pyramids'[p].level = pyramids[p].level - 1
        BY <1>8, <2>1
      <3>5. Cardinality(Recursing(calls, p)) = Cardinality(Recursing(calls', p)) + 1
        BY <1>7, <2>1
      <3>6. Cardinality(Recursing(calls', p)) \in Nat
        BY <1>3
      <3> QED
        BY <3>1, <3>2, <3>3, <3>4, <3>5, <3>6
    <2>2. ASSUME NEW p \in PyramidNames, p \notin ps
          PROVE  /\ pyramids'[p].level = Cardinality(Recursing(calls', p))
                 /\ pyramids'[p] # NoPyramid =>
                      pyramids'[p].level <= Len(pyramids'[p].imgs) - 1
      BY <1>3, <1>7, <1>8, <2>2 DEF TraversalInv, LevelsOK
    <2> QED
      BY <2>1, <2>2 DEF LevelsOK
  <1> QED
    BY <1>10, <1>11, <1>12, <1>14, <1>15 DEF TraversalInv

LEMMA EndTraversalKeepsTraversalInv ==
  ASSUME TraversalInv, EndTraversal
  PROVE  TraversalInv'
  <1>1. PICK n, ps : n = Len(calls) - 1 /\ ps = Last(calls).pyrs
    OBVIOUS
  <1>2. /\ calls # << >> /\ Last(calls).kind = "traversal"
        /\ hipaccPyramids' = Front(hipaccPyramids) /\ calls' = Front(calls)
        /\ pyramids' = [p \in PyramidNames |-> IF p \in ps THEN Unbind(pyramids[p])
                                               ELSE pyramids[p]]
    BY <1>1 DEF EndTraversal
  <1>3. /\ n \in Nat /\ calls' \in Seq(Call)
        /\ DOMAIN calls = 1..(n + 1) /\ DOMAIN calls' = 1..n
        /\ \A t \in 1..n : calls'[t] = calls[t]
        /\ Last(calls) = calls[n + 1]
        /\ Cardinality(Running(calls')) \in Nat
        /\ \A t \in 1..n : /\ RunningAt(calls', t) = RunningAt(calls, t)
                           /\ Depth(calls', t) = Depth(calls, t)
                           /\ Depth(calls', t) <= Cardinality(Running(calls'))
        /\ \A p : /\ Cardinality(Recursing(calls', p)) \in Nat
                  /\ Cardinality(Recursing(calls, p)) = Cardinality(Recursing(calls', p))
                       + (IF n + 1 \in Recursing(calls, p) THEN 1 ELSE 0)
    BY <1>1, <1>2, EndOfCall
  <1>4. calls[n + 1].kind = "traversal" /\ calls[n + 1].pyrs = ps /\ n + 1 \in DOMAIN calls
    BY <1>1, <1>2, <1>3
  <1>5. ps \in SUBSET PyramidNames
    BY <1>4, CallsHavePyramids
  <1>6. Cardinality(Running(calls)) = Cardinality(Running(calls')) + 1
    <2>1. Cardinality(Running(calls)) = Cardinality(Running(calls'))
            + (IF calls[n + 1].kind = "traversal" THEN 1 ELSE 0)
      BY <1>1, <1>2, EndOfCall
    <2> QED
      BY <1>3, <1>4, <2>1
  <1>7. \A p : Cardinality(Recursing(calls', p)) = Cardinality(Recursing(calls, p))
    <2>1. \A p : n + 1 \notin Recursing(calls, p)
      BY <1>4 DEF Recursing
    <2> QED
      BY <1>3, <2>1
  \* No other call has a pyramid of the traversal that ends.
  <1>8. ASSUME NEW t \in 1..n, NEW p \in calls[t].pyrs
        PROVE  p \in PyramidNames /\ p \notin ps
    <2>1. t \in DOMAIN calls
      BY <1>3
    <2>2. p \in PyramidNames
      BY <2>1, CallsHavePyramids
    <2>3. PICK u \in RunningAt(calls, t) : p \in calls[u].pyrs
      BY <2>1 DEF TraversalInv, BoundOK
    <2>4. u \in 1..n /\ u \in Traversing(p)
      BY <1>3, <2>1, <2>3 DEF RunningAt, Running, Traversing
    <2>5. p \in ps => n + 1 \in Traversing(p)
      BY <1>4 DEF Traversing
    <2>6. u # n + 1
      BY <1>3, <2>4
    <2> QED
      BY <2>2, <2>4, <2>5, <2>6 DEF TraversalInv, BoundOK
  <1>9. ASSUME NEW p \in PyramidNames
        PROVE  /\ PyramidOK(pyramids'[p]) /\ pyramids'[p].imgs = pyramids[p].imgs
               /\ pyramids'[p].level = pyramids[p].level
               /\ p \in ps => ~pyramids'[p].bound /\ pyramids[p] # NoPyramid
               /\ p \notin ps => pyramids'[p] = pyramids[p]
    <2>1. pyramids'[p] = IF p \in ps THEN Unbind(pyramids[p]) ELSE pyramids[p]
      BY <1>2
    <2>2. PyramidOK(pyramids[p]) /\ 0 \in Int
      BY DEF TraversalInv, PyramidsOK
    <2>3. CASE p \in ps
      <3>1. pyramids[p] # NoPyramid /\ pyramids[p].level + 0 \in Nat
        BY <1>4, <2>3, CallsHavePyramids
      <3>2. /\ PyramidOK(Unbind(pyramids[p])) /\ ~Unbind(pyramids[p]).bound
            /\ Unbind(pyramids[p]).level = pyramids[p].level
            /\ Unbind(pyramids[p]).imgs = pyramids[p].imgs
        BY <2>2, <3>1, ChangedPyramid
      <3>3. pyramids'[p] = Unbind(pyramids[p])
        BY <2>1, <2>3
      <3> HIDE <2>1
      <3> QED
        BY <2>3, <3>1, <3>2, <3>3, Zenon
    <2> QED
      BY <2>1, <2>2, <2>3
  <1>10. PyramidsOK'
    BY <1>2, <1>9 DEF PyramidsOK
  <1>11. PICK h : h = Len(hipaccPyramids) - 1
    OBVIOUS
  <1>12. /\ h = Cardinality(Running(calls')) /\ h \in Nat
         /\ hipaccPyramids' \in Seq(SUBSET PyramidNames) /\ Len(hipaccPyramids') = h
         /\ DOMAIN hipaccPyramids = 1..(h + 1) /\ DOMAIN hipaccPyramids' = 1..h
         /\ \A k \in 1..h : hipaccPyramids'[k] = hipaccPyramids[k]
    <2>1. h = Cardinality(Running(calls')) /\ h \in Nat
      BY <1>3, <1>6, <1>11 DEF TraversalInv, NestedOK
    <2>2. /\ hipaccPyramids \in Seq(SUBSET PyramidNames)
          /\ Len(hipaccPyramids) = h + 1
          /\ hipaccPyramids' = SubSeq(hipaccPyramids, 1, h)
      BY <1>2, <1>11, <2>1 DEF Front, TraversalInv, ListsOK
    <2> QED
      BY <2>1, <2>2
  <1>13. ListsOK'
    BY <1>3, <1>12 DEF ListsOK
  <1>14. NestedOK'
    <2>1. ASSUME NEW t \in 1..n
          PROVE  /\ Depth(calls', t) \in DOMAIN hipaccPyramids'
                 /\ calls'[t].pyrs = hipaccPyramids'[Depth(calls', t)]
                 /\ calls'[t].pyrs # {}
      <3>1. /\ Depth(calls, t) \in 1..(h + 1)
            /\ calls[t].pyrs = hipaccPyramids[Depth(calls, t)] /\ calls[t].pyrs # {}
        <4>1. t \in DOMAIN calls
          BY <1>3
        <4>2. /\ Depth(calls, t) \in DOMAIN hipaccPyramids
              /\ calls[t].pyrs = hipaccPyramids[Depth(calls, t)] /\ calls[t].pyrs # {}
          BY <4>1 DEF TraversalInv, NestedOK
        <4> QED
          BY <1>12, <4>2
      <3>2. Depth(calls', t) = Depth(calls, t) /\ Depth(calls', t) <= h
        BY <1>3, <1>12
      <3>3. Depth(calls, t) \in 1..h
        BY <1>12, <3>1, <3>2
      <3> QED
        BY <1>3, <1>12, <3>1, <3>2, <3>3
    <2> QED
      BY <1>3, <1>12, <2>1 DEF NestedOK
  <1>15. ASSUME NEW p \in PyramidNames
         PROVE  /\ p \in ps => Traversing(p)' = {}
                /\ p \notin ps => Traversing(p)' = Traversing(p)
    <2>1. \A t : t \in Traversing(p)' <=>
                   t \in 1..n /\ calls'[t].kind = "traversal" /\ p \in calls'[t].pyrs
      BY <1>3 DEF Traversing
    <2>2. \A t : t \in Traversing(p) <=>
                   t \in 1..(n + 1) /\ calls[t].kind = "traversal" /\ p \in calls[t].pyrs
      BY <1>3 DEF Traversing
    <2>3. \A t \in 1..(n + 1) : t \in 1..n \/ t = n + 1
      BY <1>3
    <2>4. \A t \in 1..n : t \in 1..(n + 1) /\ calls'[t] = calls[t]
      BY <1>3
    <2>5. p \in ps => Traversing(p)' = {}
      BY <1>8, <2>1, <2>4
    <2>6. p \notin ps => \A t : t \in Traversing(p)' <=> t \in Traversing(p)
      BY <1>4, <2>1, <2>2, <2>3, <2>4
    <2> QED
      BY <2>5, <2>6
  <1>16. BoundOK'
    <2>1. ASSUME NEW t \in DOMAIN calls', NEW p \in calls'[t].pyrs
          PROVE  pyramids'[p].bound /\ \E u \in RunningAt(calls', t) : p \in calls'[u].pyrs
      <3>1. t \in 1..n /\ t \in DOMAIN calls /\ p \in calls[t].pyrs
        BY <1>3
      <3>2. p \in PyramidNames /\ pyramids[p].bound
        BY <3>1, CallsHavePyramids
      <3>3. pyramids'[p] = pyramids[p]
        BY <1>8, <1>9, <3>1, <3>2
      <3>4. PICK u \in RunningAt(calls, t) : p \in calls[u].pyrs
        BY <3>1 DEF TraversalInv, BoundOK
      <3>5. u \in 1..n
        BY <1>3, <3>1 DEF RunningAt, Running
      <3> QED
        BY <1>3, <3>1, <3>2, <3>3, <3>4, <3>5
    <2>2. ASSUME NEW p \in PyramidNames
          PROVE  /\ pyramids'[p].bound => Traversing(p)' # {}
                 /\ \A t, u \in Traversing(p)' : t = u
      <3>1. CASE p \in ps
        BY <1>9, <1>15, <3>1
      <3>2. CASE p \notin ps
        BY <1>9, <1>15, <3>2 DEF TraversalInv, BoundOK
      <3> QED
        BY <3>1, <3>2
    <2>3. \A t \in DOMAIN calls' : t \in DOMAIN calls /\ calls'[t] = calls[t]
      BY <1>3
    <2>4. ASSUME NEW t \in DOMAIN calls', NEW u \in DOMAIN calls', NEW p \in PyramidNames,
                 p \in calls'[t].pyrs, p \in calls'[u].pyrs
          PROVE  calls'[t].pyrs = calls'[u].pyrs
      BY <2>3, <2>4 DEF TraversalInv, BoundOK
    <2>5. ASSUME NEW t \in DOMAIN calls', NEW p \in calls'[t].pyrs, NEW q \in calls'[t].pyrs
          PROVE  Len(pyramids'[p].imgs) = Len(pyramids'[q].imgs)
      <3>1. /\ p \in PyramidNames /\ q \in PyramidNames
            /\ Len(pyramids[p].imgs) = Len(pyramids[q].imgs)
        BY <2>3, CallsHavePyramids
      <3> QED
        BY <1>9, <3>1
    <2> QED
      BY <2>1, <2>2, <2>4, <2>5 DEF BoundOK
  <1>17. LevelsOK'
    <2>1. ASSUME NEW p \in PyramidNames
          PROVE  /\ pyramids'[p].level = pyramids[p].level
                 /\ Len(pyramids'[p].imgs) = Len(pyramids[p].imgs)
                 /\ pyramids'[p] # NoPyramid => pyramids[p] # NoPyramid
      BY <1>9
    <2> QED
      BY <1>7, <2>1 DEF TraversalInv, LevelsOK
  <1> QED
    BY <1>10, <1>13, <1>14, <1>16, <1>17 DEF TraversalInv

-----------------------------------------------------------------------------
LEMMA NextKeepsTraversalInv ==
  ASSUME TraversalInv, [Next]_vars
  PROVE  TraversalInv'
  <1>1. ASSUME NEW ps \in SUBSET PyramidNames, Traverse(ps)
        PROVE  TraversalInv'
    BY <1>1, TraverseKeepsTraversalInv
  <1>2. ASSUME NEW loop \in 1..MaxLoop, Recurse(loop)
        PROVE  TraversalInv'
    <2>1. loop \in Nat
      BY BoundsAreNat
    <2> QED
      BY <1>2, <2>1, RecurseKeepsTraversalInv
  <1>3. ASSUME NEW p \in PyramidNames, NEW n \in ImageNames, NEW depth \in Depths,
               DeclarePyramid(p, n, depth)
        PROVE  TraversalInv'
    BY <1>3, DeclareKeepsTraversalInv
  <1>4. CASE NextRepetition
    BY <1>4, RepeatKeepsTraversalInv
  <1>5. CASE EndRecursion
    BY <1>5, EndRecursionKeepsTraversalInv
  <1>6. CASE EndTraversal
    BY <1>6, EndTraversalKeepsTraversalInv
  <1>7. ASSUME NEW n \in ImageNames, NEW size, NEW a, DeclareImage(n, size, a)
        PROVE  UNCHANGED <<pyramids, hipaccPyramids, calls>>
    BY <1>7 DEF DeclareImage
  <1>8. ASSUME NEW c \in AccessorNames, NEW o, NEW r, DeclareAccessor(c, o, r)
        PROVE  UNCHANGED <<pyramids, hipaccPyramids, calls>>
    BY <1>8 DEF DeclareAccessor
  <1>9. ASSUME NEW d, NEW s, Assign(d, s)
        PROVE  UNCHANGED <<pyramids, hipaccPyramids, calls>>
    BY <1>9 DEF Assign
  <1>10. ASSUME NEW d, NEW n, AssignData(d, n)
         PROVE  UNCHANGED <<pyramids, hipaccPyramids, calls>>
    BY <1>10 DEF AssignData
  <1>11. ASSUME NEW d, NEW a, AssignArray(d, a)
         PROVE  UNCHANGED <<pyramids, hipaccPyramids, calls>>
    BY <1>11 DEF AssignArray
  <1>12. ASSUME NEW n, Data(n)
         PROVE  UNCHANGED <<pyramids, hipaccPyramids, calls>>
    BY <1>12 DEF Data
  <1>13. ASSUME NEW v, ReleaseImage(v) \/ ReleasePyramid(v)
         PROVE  UNCHANGED <<pyramids, hipaccPyramids, calls>>
    BY <1>13 DEF ReleaseImage, ReleasePyramid, ReleaseVariable
  <1>14. LeaveMain \/ UNCHANGED vars => UNCHANGED <<pyramids, hipaccPyramids, calls>>
    BY DEF LeaveMain, vars
  <1> QED
    BY <1>1, <1>2, <1>3, <1>4, <1>5, <1>6, <1>7, <1>8, <1>9, <1>10, <1>11, <1>12,
       <1>13, <1>14, SameKeepsTraversalInv DEF Next

(* However traversals of pyramids and their recursions are nested, with    *)
(* any statements between them: a pyramid is bound by at most one of them, *)
(* its level is the number of recursions open on it, and that level        *)
(* exists.  hipaccTraverse asks only the first pyramid of the innermost    *)
(* traversal for the bottom, and moves all of them.                        *)
THEOREM LevelsAreRight == Spec => []LevelsFollowTheCalls
  <1>1. TraversalInv /\ [Next]_vars => TraversalInv'
    BY NextKeepsTraversalInv
  <1> QED
    BY <1>1, InitTraversalInv, InvImpliesLevels, PTL DEF Spec

-----------------------------------------------------------------------------
(* An image keeps its fields, whichever of them is updated.                *)
Fields == {"width", "height", "stride", "array2D", "device", "host", "live",
           "refs", "freed"}

IsImage(m) == DOMAIN m = Fields

SameShape(m, M) ==
  /\ M.width = m.width /\ M.height = m.height
  /\ M.stride = m.stride /\ M.array2D = m.array2D

SamePixels(m, M) == M.device = m.device /\ M.host = m.host

SameCount(m, M) == M.refs = m.refs /\ M.live = m.live /\ M.freed = m.freed

WithDevice(m, d) == [m EXCEPT !.device = d]
WithHost(m, b)   == [m EXCEPT !.host = b]
WithRefs(m, r)   == [m EXCEPT !.refs = r]
WithFreed(m)     == [m EXCEPT !.freed = @ + 1]

LEMMA DeviceUpdate ==
  ASSUME NEW m, IsImage(m), NEW d
  PROVE  /\ IsImage(WithDevice(m, d)) /\ SameShape(m, WithDevice(m, d))
         /\ SameCount(m, WithDevice(m, d))
         /\ WithDevice(m, d).device = d /\ WithDevice(m, d).host = m.host
  BY DEF IsImage, Fields, WithDevice, SameShape, SameCount

LEMMA HostUpdate ==
  ASSUME NEW m, IsImage(m), NEW b
  PROVE  /\ IsImage(WithHost(m, b)) /\ SameShape(m, WithHost(m, b))
         /\ SameCount(m, WithHost(m, b))
         /\ WithHost(m, b).host = b /\ WithHost(m, b).device = m.device
  BY DEF IsImage, Fields, WithHost, SameShape, SameCount

LEMMA RefsUpdate ==
  ASSUME NEW m, IsImage(m), NEW r
  PROVE  /\ IsImage(WithRefs(m, r)) /\ SameShape(m, WithRefs(m, r))
         /\ SamePixels(m, WithRefs(m, r)) /\ WithRefs(m, r).refs = r
         /\ WithRefs(m, r).live = m.live /\ WithRefs(m, r).freed = m.freed
  BY DEF IsImage, Fields, WithRefs, SameShape, SamePixels

LEMMA FreedUpdate ==
  ASSUME NEW m, IsImage(m)
  PROVE  /\ IsImage(WithFreed(m)) /\ SameShape(m, WithFreed(m))
         /\ SamePixels(m, WithFreed(m)) /\ WithFreed(m).freed = m.freed + 1
         /\ WithFreed(m).live = m.live /\ WithFreed(m).refs = m.refs
  BY DEF IsImage, Fields, WithFreed, SameShape, SamePixels

LEMMA WrittenUpdate ==
  ASSUME NEW m, IsImage(m), NEW t, NEW b
  PROVE  /\ IsImage(Written(t, m, b)) /\ SameShape(m, Written(t, m, b))
         /\ SameCount(m, Written(t, m, b)) /\ Written(t, m, b).host = b
         /\ Written(t, m, b).device = WriteMemory(t.lang, m, b)
  <1>1. PICK d : d = WriteMemory(t.lang, m, b)
    OBVIOUS
  <1>2. Written(t, m, b) = [m EXCEPT !.host = b, !.device = d]
    BY <1>1 DEF Written
  <1> QED
    BY <1>1, <1>2 DEF IsImage, Fields, SameShape, SameCount

LEMMA DroppedUpdate ==
  ASSUME NEW m, IsImage(m), NEW n
  PROVE  /\ IsImage(Dropped(m, n)) /\ SameShape(m, Dropped(m, n))
         /\ SamePixels(m, Dropped(m, n)) /\ Dropped(m, n).refs = m.refs - n
         /\ Dropped(m, n).live = (m.live /\ m.refs > n)
         /\ Dropped(m, n).freed = m.freed
  BY DEF IsImage, Fields, Dropped, SameShape, SamePixels

LEMMA CopiedUpdate ==
  ASSUME NEW m, IsImage(m)
  PROVE  /\ IsImage(Copied(m)) /\ SameShape(m, Copied(m))
         /\ SamePixels(m, Copied(m)) /\ Copied(m).refs = m.refs + 1
         /\ Copied(m).live = m.live /\ Copied(m).freed = m.freed
  BY DEF IsImage, Fields, Copied, SameShape, SamePixels

IsNew(t, w, h, m) ==
  /\ IsImage(m) /\ m.width = w /\ m.height = h
  /\ m.stride = Stride(t, w) /\ m.array2D = t.texture
  /\ m.device = [k \in 0..(Stride(t, w) * h - 1) |-> Garbage]
  /\ m.host = HostArray(w, h, 0)
  /\ m.live = TRUE /\ m.refs = 1 /\ m.freed = 0

LEMMA NewImageFields ==
  ASSUME NEW t, NEW size
  PROVE  IsNew(t, size[1], size[2], NewImage(t, size))
  BY DEF IsNew, NewImage, IsImage, Fields

-----------------------------------------------------------------------------
(* Rows and columns.                                                       *)
LEMMA Products ==
  ASSUME NEW a \in Int, NEW b \in Int, NEW c \in Int
  PROVE  /\ a * b \in Int /\ a * b = b * a
         /\ (a + 1) * b = (a * b) + b
         /\ a <= b /\ c >= 0 => a * c <= b * c
  OBVIOUS

LEMMA Pixel ==
  ASSUME NEW w \in Nat \ {0}, NEW k \in Nat
  PROVE  /\ k \div w \in Nat /\ k % w \in 0..(w - 1)
         /\ k = ((k \div w) * w) + (k % w)
  <1>1. PICK q \in Int, r \in Int : q = k \div w /\ r = k % w
    OBVIOUS
  <1>2. k = (w * q) + r /\ r \in 0..(w - 1)
    BY <1>1
  <1>3. q >= 0
    <2>1. SUFFICES ASSUME q + 1 <= 0 PROVE FALSE
      OBVIOUS
    <2>2. (q + 1) * w <= 0 * w
      BY <2>1, Products
    <2>3. (q + 1) * w = (q * w) + w /\ q * w = w * q /\ q * w \in Int
      BY Products
    <2> QED
      BY <1>2, <2>2, <2>3
  <1>4. q * w = w * q
    BY Products
  <1> QED
    BY <1>1, <1>2, <1>3, <1>4

LEMMA RowColumn ==
  ASSUME NEW w \in Nat \ {0}, NEW y \in Nat, NEW x \in 0..(w - 1), NEW k,
         k = (y * w) + x
  PROVE  k \in Nat /\ k \div w = y /\ k % w = x
  <1>1. y * w \in Int /\ y * w >= 0
    BY Products
  <1>2. k \in Nat
    BY <1>1
  <1>3. PICK q \in Int, r \in Int : q = k \div w /\ r = k % w
    BY <1>2
  <1>4. q \in Nat /\ r \in 0..(w - 1) /\ k = (q * w) + r
    BY <1>2, <1>3, Pixel
  <1>5. q * w \in Int /\ (q + 1) * w = (q * w) + w /\ (y + 1) * w = (y * w) + w
    BY Products
  <1>6. ~(q + 1 <= y)
    <2>1. q + 1 <= y => (q + 1) * w <= y * w
      BY <1>4, Products
    <2> QED
      BY <1>1, <1>4, <1>5, <2>1
  <1>7. ~(y + 1 <= q)
    <2>1. y + 1 <= q => (y + 1) * w <= q * w
      BY <1>4, Products
    <2> QED
      BY <1>1, <1>4, <1>5, <2>1
  <1>8. q = y
    BY <1>4, <1>6, <1>7
  <1>9. r = x
    BY <1>1, <1>4, <1>8
  <1> QED
    BY <1>2, <1>3, <1>8, <1>9

LEMMA RowOfPixel ==
  ASSUME NEW w \in Nat \ {0}, NEW h \in Nat, NEW k \in 0..(w * h - 1)
  PROVE  /\ k \in Nat /\ k \div w \in 0..(h - 1) /\ k % w \in 0..(w - 1)
         /\ k = ((k \div w) * w) + (k % w)
  <1>1. k \in Nat /\ k < w * h /\ w * h \in Int
    BY Products
  <1>2. PICK q \in Int, r \in Int : q = k \div w /\ r = k % w
    BY <1>1
  <1>3. q \in Nat /\ r \in 0..(w - 1) /\ k = (q * w) + r
    BY <1>1, <1>2, Pixel
  <1>4. q < h
    <2>1. h <= q => h * w <= q * w
      BY <1>3, Products
    <2>2. h * w = w * h /\ q * w \in Int
      BY Products
    <2> QED
      BY <1>1, <1>3, <2>1, <2>2
  <1> QED
    BY <1>1, <1>2, <1>3, <1>4

LEMMA PixelInRows ==
  ASSUME NEW w \in Nat, NEW h \in Nat, NEW s \in Nat, NEW y \in 0..(h - 1),
         NEW x \in 0..(w - 1), w <= s
  PROVE  (y * s) + x \in 0..(s * h - 1)
  <1>1. /\ y * s \in Int /\ y * s >= 0 /\ (y + 1) * s = (y * s) + s
        /\ (y + 1) * s <= h * s /\ h * s = s * h /\ s * h \in Int
    <2>1. y + 1 <= h /\ 0 <= y /\ y \in Int /\ s >= 0
      OBVIOUS
    <2>2. (y + 1) * s <= h * s
      BY <2>1, Products
    <2>3. 0 * s <= y * s /\ 0 * s = 0
      BY <2>1, Products
    <2> QED
      BY <2>1, <2>2, <2>3, Products
  <1> QED
    BY <1>1

-----------------------------------------------------------------------------
(* Transfers, on images whose rows are as far apart as their target says.  *)
LEMMA RoundedUp ==
  ASSUME NEW w \in Nat, NEW a \in Nat \ {0}
  PROVE  /\ -((-w) \div a) * a \in Nat
         /\ w <= -((-w) \div a) * a
  <1>1. PICK n \in Int : n = -w
    OBVIOUS
  <1>2. PICK q \in Int, r \in Int : q = n \div a /\ r = n % a
    BY <1>1
  <1>3. n = (a * q) + r /\ r \in 0..(a - 1)
    BY <1>1, <1>2
  <1>4. PICK p \in Int : p = q * a
    BY Products
  <1>5. p = a * q
    BY <1>4, Products
  <1>6. p <= n
    BY <1>3, <1>5
  <1>7. -((-w) \div a) * a = -p
    BY <1>1, <1>2, <1>4
  <1> QED
    BY <1>1, <1>6, <1>7

LEMMA StrideFits ==
  ASSUME NEW t \in Targets, NEW w \in Nat
  PROVE  /\ Stride(t, w) \in Nat /\ w <= Stride(t, w)
         /\ t.texture /\ t.lang \in {"CUDA", "OpenCL"} => Stride(t, w) = w
  <1>1. t.lang \in Languages /\ t.alignment \in Nat /\ t.texture \in BOOLEAN
    BY TargetsAreKnown
  <1>2. PICK a \in Nat : a = Alignment(t)
    BY <1>1 DEF Alignment
  <1>3. ASSUME a # 0
        PROVE  -((-w) \div a) * a \in Nat /\ w <= -((-w) \div a) * a
    BY <1>3, RoundedUp
  <1>4. PICK s : s = -((-w) \div a) * a
    OBVIOUS
  <1>5. \/ Stride(t, w) = w
        \/ a # 0 /\ Stride(t, w) = s /\ ~(t.texture /\ t.lang \in {"CUDA", "OpenCL"})
    <2>1. CASE t.lang = "C99"
      BY <1>2, <1>4, <2>1 DEF Stride, CPUStride
    <2>2. CASE t.lang = "CUDA"
      BY <1>2, <1>4, <2>2 DEF Stride, CUDAStride
    <2>3. CASE t.lang = "OpenCL"
      BY <1>2, <1>4, <2>3 DEF Stride, OpenCLStride
    <2>4. CASE t.lang = "Renderscript"
      BY <1>2, <1>4, <2>4 DEF Stride, RenderscriptStride
    <2>5. CASE t.lang = "Vivado"
      BY <2>5 DEF Stride
    <2> QED
      BY <1>1, <2>1, <2>2, <2>3, <2>4, <2>5 DEF Languages
  <1> QED
    BY <1>3, <1>4, <1>5

Pixels(m) == 0..(m.width * m.height - 1)
Cells(m)  == 0..(m.stride * m.height - 1)

IsDevice(m, d) == d = [k \in Cells(m) |-> d[k]]
IsHost(m, b)   == b = [k \in Pixels(m) |-> b[k]]

Shape(t, m) ==
  /\ IsImage(m)
  /\ m.width \in Nat \ {0} /\ m.height \in Nat \ {0}
  /\ m.stride = Stride(t, m.width) /\ m.array2D = t.texture
  /\ IsDevice(m, m.device) /\ IsHost(m, m.host)

\* Where pixel k of an image is on the device.
Place(m, k) == ((k \div m.width) * m.stride) + (k % m.width)

LEMMA ShapeFacts ==
  ASSUME NEW t \in Targets, NEW m, Shape(t, m)
  PROVE  /\ m.width \in Nat \ {0} /\ m.height \in Nat \ {0}
         /\ m.stride \in Nat \ {0} /\ m.width <= m.stride
         /\ t.texture \in BOOLEAN /\ t.lang \in Languages
         /\ m.array2D /\ t.lang \in {"CUDA", "OpenCL"} => m.stride = m.width
  <1>1. /\ m.width \in Nat \ {0} /\ m.height \in Nat \ {0}
        /\ m.stride = Stride(t, m.width) /\ m.array2D = t.texture
    BY DEF Shape
  <1>2. /\ Stride(t, m.width) \in Nat /\ m.width <= Stride(t, m.width)
        /\ t.texture /\ t.lang \in {"CUDA", "OpenCL"} => Stride(t, m.width) = m.width
    BY <1>1, StrideFits
  <1>3. t.texture \in BOOLEAN /\ t.lang \in Languages
    BY TargetsAreKnown
  <1> QED
    BY <1>1, <1>2, <1>3

LEMMA Places ==
  ASSUME NEW t \in Targets, NEW m, Shape(t, m), NEW k \in Pixels(m)
  PROVE  /\ Place(m, k) \in Cells(m) /\ Place(m, k) \in Nat
         /\ Place(m, k) % m.stride = k % m.width
         /\ Place(m, k) \div m.stride = k \div m.width
         /\ k \in Nat /\ k \div m.width \in 0..(m.height - 1)
         /\ k % m.width \in 0..(m.width - 1)
         /\ k = ((k \div m.width) * m.width) + (k % m.width)
  <1>1. PICK w \in Nat \ {0}, h \in Nat \ {0}, s \in Nat \ {0} :
          w = m.width /\ h = m.height /\ s = m.stride /\ w <= s
    BY ShapeFacts
  <1>2. k \in 0..(w * h - 1)
    BY <1>1 DEF Pixels
  <1>3. /\ k \in Nat /\ k \div w \in 0..(h - 1) /\ k % w \in 0..(w - 1)
        /\ k = ((k \div w) * w) + (k % w)
    BY <1>2, RowOfPixel
  <1>4. PICK y \in 0..(h - 1), x \in 0..(w - 1) : y = k \div w /\ x = k % w
    BY <1>3
  <1>5. PICK p : p = (y * s) + x
    OBVIOUS
  <1>6. p \in 0..(s * h - 1)
    BY <1>1, <1>5, PixelInRows
  <1>7. x \in 0..(s - 1) /\ y \in Nat
    BY <1>1
  <1>8. p \in Nat /\ p \div s = y /\ p % s = x
    BY <1>5, <1>7, RowColumn
  <1>9. p = Place(m, k)
    BY <1>1, <1>4, <1>5 DEF Place
  <1> QED
    BY <1>1, <1>3, <1>4, <1>6, <1>8, <1>9 DEF Cells

LEMMA Rows ==
  ASSUME NEW m
  PROVE  /\ RowsOut(m) = [k \in Pixels(m) |-> m.device[Place(m, k)]]
         /\ IsHost(m, RowsOut(m))
  BY DEF RowsOut, Pixels, Place, IsHost

LEMMA PackedPlace ==
  ASSUME NEW t \in Targets, NEW m, Shape(t, m), m.stride = m.width
  PROVE  /\ Cells(m) = Pixels(m)
         /\ \A k \in Pixels(m) : Place(m, k) = k
  <1>1. Cells(m) = Pixels(m)
    BY DEF Cells, Pixels
  <1>2. ASSUME NEW k \in Pixels(m)
        PROVE  Place(m, k) = k
    <2>1. k = ((k \div m.width) * m.width) + (k % m.width)
      BY Places
    <2> QED
      BY <2>1 DEF Place
  <1> QED
    BY <1>1, <1>2

LEMMA PackedRows ==
  ASSUME NEW t \in Targets, NEW m, Shape(t, m), m.stride = m.width
  PROVE  RowsOut(m) = m.device
  <1>1. m.device = [k \in Pixels(m) |-> m.device[k]]
    BY PackedPlace DEF Shape, IsDevice
  <1>2. RowsOut(m) = [k \in Pixels(m) |-> m.device[Place(m, k)]]
    BY Rows
  <1>3. \A k \in Pixels(m) : Place(m, k) = k
    BY PackedPlace
  <1>4. RowsOut(m) = [k \in Pixels(m) |-> m.device[k]]
    BY <1>2, <1>3
  <1> QED
    BY <1>1, <1>4

(* hipaccReadMemory returns the rows of the image without their padding.   *)
LEMMA ReadIsRows ==
  ASSUME NEW t \in Targets, NEW m, Shape(t, m), t.lang # "Vivado"
  PROVE  ReadMemory(t.lang, m) = RowsOut(m)
  <1>1. /\ t.lang \in {"C99", "CUDA", "OpenCL", "Renderscript"}
        /\ m.array2D /\ t.lang \in {"CUDA", "OpenCL"} => m.stride = m.width
    BY ShapeFacts DEF Languages
  <1>2. m.stride = m.width => RowsOut(m) = m.device
    BY PackedRows
  <1>3. CASE t.lang = "C99"
    BY <1>3 DEF ReadMemory, CPURead
  <1>4. CASE t.lang = "CUDA"
    BY <1>1, <1>2, <1>4 DEF ReadMemory, CUDARead
  <1>5. CASE t.lang = "OpenCL"
    BY <1>1, <1>2, <1>5 DEF ReadMemory, OpenCLRead
  <1>6. CASE t.lang = "Renderscript"
    BY <1>6 DEF ReadMemory, RenderscriptRead
  <1> QED
    BY <1>1, <1>3, <1>4, <1>5, <1>6

(* hipaccWriteMemory puts a host array into the rows of the image.         *)
Spread(m, b, d) ==
  IsDevice(m, d) /\ \A k \in Pixels(m) : d[Place(m, k)] = b[k]

LEMMA RowsInSpread ==
  ASSUME NEW t \in Targets, NEW m, Shape(t, m), NEW b, NEW f, NEW d,
         d = [k \in Cells(m) |->
                IF k % m.stride < m.width
                THEN b[((k \div m.stride) * m.width) + (k % m.stride)]
                ELSE f[k]]
  PROVE  Spread(m, b, d)
  <1>1. IsDevice(m, d)
    BY DEF IsDevice
  <1>2. ASSUME NEW k \in Pixels(m)
        PROVE  d[Place(m, k)] = b[k]
    <2>1. PICK p : p = Place(m, k)
      OBVIOUS
    <2>2. /\ p \in Cells(m) /\ p % m.stride = k % m.width
          /\ p \div m.stride = k \div m.width
          /\ k % m.width \in 0..(m.width - 1)
          /\ k = ((k \div m.width) * m.width) + (k % m.width)
      BY <2>1, Places
    <2>3. k % m.width < m.width
      BY <2>2, ShapeFacts
    <2>4. d[p] = b[((p \div m.stride) * m.width) + (p % m.stride)]
      BY <2>2, <2>3
    <2>5. d[p] = b[((k \div m.width) * m.width) + (k % m.width)]
      BY <2>2, <2>4
    <2> QED
      BY <2>1, <2>2, <2>5
  <1> QED
    BY <1>1, <1>2 DEF Spread

LEMMA PackedSpread ==
  ASSUME NEW t \in Targets, NEW m, Shape(t, m), m.stride = m.width,
         NEW b, IsHost(m, b)
  PROVE  Spread(m, b, b)
  <1>1. Cells(m) = Pixels(m) /\ \A k \in Pixels(m) : Place(m, k) = k
    BY PackedPlace
  <1> QED
    BY <1>1 DEF Spread, IsDevice, IsHost

LEMMA WriteSpreads ==
  ASSUME NEW t \in Targets, NEW m, Shape(t, m), NEW b, IsHost(m, b),
         t.lang # "Vivado"
  PROVE  Spread(m, b, WriteMemory(t.lang, m, b))
  <1>1. /\ t.lang \in {"C99", "CUDA", "OpenCL", "Renderscript"}
        /\ m.array2D /\ t.lang \in {"CUDA", "OpenCL"} => m.stride = m.width
    BY ShapeFacts DEF Languages
  <1>2. m.stride = m.width => Spread(m, b, b)
    BY PackedSpread
  <1>3. DOMAIN m.device = Cells(m)
    BY DEF Shape, IsDevice
  <1>4. PICK d : d = [k \in Cells(m) |->
                        IF k % m.stride < m.width
                        THEN b[((k \div m.stride) * m.width) + (k % m.stride)]
                        ELSE m.device[k]]
    OBVIOUS
  <1>5. Spread(m, b, d)
    BY <1>4, RowsInSpread
  <1>6. RowsIn(m, b, LAMBDA k : m.device[k]) = d
    BY <1>3, <1>4 DEF RowsIn
  <1>7. CASE t.lang = "C99"
    <2>1. WriteMemory(t.lang, m, b) = RowsIn(m, b, LAMBDA k : m.device[k])
      BY <1>7 DEF WriteMemory, CPUWrite
    <2> QED
      BY <1>5, <1>6, <2>1
  <1>8. CASE t.lang = "CUDA"
    <2>1. WriteMemory(t.lang, m, b)
            = IF m.array2D \/ m.stride = m.width THEN b
              ELSE RowsIn(m, b, LAMBDA k : m.device[k])
      BY <1>8 DEF WriteMemory, CUDAWrite
    <2> QED
      BY <1>1, <1>2, <1>5, <1>6, <1>8, <2>1
  <1>9. CASE t.lang = "OpenCL"
    <2>1. WriteMemory(t.lang, m, b)
            = IF m.array2D THEN b ELSE RowsIn(m, b, LAMBDA k : m.device[k])
      BY <1>9 DEF WriteMemory, OpenCLWrite
    <2> QED
      BY <1>1, <1>2, <1>5, <1>6, <1>9, <2>1
  <1>10. CASE t.lang = "Renderscript"
    <2>1. PICK g : g = [k \in Cells(m) |-> Garbage]
      OBVIOUS
    <2>2. PICK e : e = [k \in Cells(m) |->
                          IF k % m.stride < m.width
                          THEN b[((k \div m.stride) * m.width) + (k % m.stride)]
                          ELSE g[k]]
      OBVIOUS
    <2>3. Spread(m, b, e)
      BY <2>2, RowsInSpread
    <2>4. RowsIn(m, b, LAMBDA k : Garbage) = e
      BY <1>3, <2>1, <2>2 DEF RowsIn
    <2>5. WriteMemory(t.lang, m, b) = RowsIn(m, b, LAMBDA k : Garbage)
      BY <1>10 DEF WriteMemory, RenderscriptWrite
    <2> QED
      BY <2>3, <2>4, <2>5
  <1> QED
    BY <1>1, <1>7, <1>8, <1>9, <1>10

(* What an operation leaves of an image: its shape, and well-formed pixels.*)
LEMMA KeepsShape ==
  ASSUME NEW t, NEW m, Shape(t, m), NEW M, IsImage(M), SameShape(m, M),
         IsDevice(m, M.device), IsHost(m, M.host)
  PROVE  Shape(t, M) /\ Pixels(M) = Pixels(m) /\ \A k : Place(M, k) = Place(m, k)
  <1>1. /\ M.width = m.width /\ M.height = m.height /\ M.stride = m.stride
        /\ M.array2D = m.array2D
    BY DEF SameShape
  <1>2. Pixels(M) = Pixels(m) /\ Cells(M) = Cells(m) /\ \A k : Place(M, k) = Place(m, k)
    BY <1>1 DEF Pixels, Cells, Place
  <1> QED
    BY <1>1, <1>2 DEF Shape, IsDevice, IsHost

LEMMA WrittenImage ==
  ASSUME NEW t \in Targets, NEW m, Shape(t, m), NEW b, IsHost(m, b),
         t.lang # "Vivado"
  PROVE  /\ Shape(t, Written(t, m, b)) /\ SameShape(m, Written(t, m, b))
         /\ SameCount(m, Written(t, m, b))
         /\ RowsOut(Written(t, m, b)) = b /\ Written(t, m, b).host = b
  <1>1. PICK M : M = Written(t, m, b)
    OBVIOUS
  <1>2. /\ IsImage(M) /\ SameShape(m, M) /\ SameCount(m, M)
        /\ M.host = b /\ M.device = WriteMemory(t.lang, m, b)
    BY <1>1, WrittenUpdate DEF Shape
  <1>3. Spread(m, b, M.device)
    BY <1>2, WriteSpreads
  <1>4. /\ Shape(t, M) /\ Pixels(M) = Pixels(m)
        /\ \A k : Place(M, k) = Place(m, k)
    BY <1>2, <1>3, KeepsShape DEF Spread
  <1>5. RowsOut(M) = [k \in Pixels(m) |-> b[k]]
    BY <1>3, <1>4, Rows DEF Spread
  <1>6. RowsOut(M) = b
    BY <1>5 DEF IsHost
  <1> QED
    BY <1>1, <1>2, <1>4, <1>6

(* A copy of the first pixels of a block is one of all rows, if it is long *)
(* enough for the last.                                                    *)
LEMMA FirstPixelsCopy ==
  ASSUME NEW t \in Targets, NEW m, Shape(t, m), NEW s, Shape(t, s),
         m.width = s.width, m.height = s.height, NEW n
  PROVE  /\ Shape(t, WithDevice(m, FirstPixels(m, s, n)))
         /\ SameShape(m, WithDevice(m, FirstPixels(m, s, n)))
         /\ (\A k \in Pixels(s) : Place(s, k) < n) =>
              RowsOut(WithDevice(m, FirstPixels(m, s, n))) = RowsOut(s)
  <1>1. PICK d : d = FirstPixels(m, s, n)
    OBVIOUS
  <1>2. PICK M : M = WithDevice(m, d)
    OBVIOUS
  <1>3. IsImage(M) /\ SameShape(m, M) /\ M.device = d /\ M.host = m.host
    BY <1>2, DeviceUpdate DEF Shape
  <1>4. d = [k \in Cells(m) |-> IF k < n THEN s.device[k] ELSE m.device[k]]
    BY <1>1 DEF FirstPixels, Shape, IsDevice
  <1>5. IsDevice(m, d)
    BY <1>4 DEF IsDevice
  <1>6. Shape(t, M) /\ Pixels(M) = Pixels(m) /\ \A k : Place(M, k) = Place(m, k)
    BY <1>3, <1>5, KeepsShape DEF Shape
  <1>7. m.stride = s.stride
    BY DEF Shape
  <1>8. Pixels(m) = Pixels(s) /\ \A k : Place(m, k) = Place(s, k)
    BY <1>7 DEF Pixels, Place
  <1>9. ASSUME NEW k \in Pixels(s), Place(s, k) < n
        PROVE  M.device[Place(M, k)] = s.device[Place(s, k)]
    <2>1. PICK p : p = Place(s, k)
      OBVIOUS
    <2>2. p \in Cells(m) /\ p < n
      BY <1>8, <1>9, <2>1, Places
    <2> QED
      BY <1>3, <1>4, <1>6, <1>8, <2>1, <2>2
  <1>10. ASSUME \A k \in Pixels(s) : Place(s, k) < n
         PROVE  RowsOut(M) = [k \in Pixels(s) |-> s.device[Place(s, k)]]
    BY <1>6, <1>8, <1>9, <1>10, Rows
  <1> QED
    BY <1>1, <1>2, <1>3, <1>6, <1>10, Rows

(* A whole copy, of all rows unless OpenCL copies fewer pixels than those  *)
(* take: then the image has padding and more than one row.                 *)
CopiesAllRows(t, s) ==
  t.lang = "OpenCL" => s.array2D \/ s.height = 1 \/ s.stride = s.width

LEMMA WholeCopy ==
  ASSUME NEW t \in Targets, NEW m, Shape(t, m), NEW s, Shape(t, s),
         m.width = s.width, m.height = s.height, t.lang # "Vivado"
  PROVE  /\ Shape(t, WithDevice(m, CopyMemory(t.lang, m, s)))
         /\ SameShape(m, WithDevice(m, CopyMemory(t.lang, m, s)))
         /\ CopiesAllRows(t, s) =>
              RowsOut(WithDevice(m, CopyMemory(t.lang, m, s))) = RowsOut(s)
  <1>1. /\ s.width \in Nat \ {0} /\ s.height \in Nat \ {0}
        /\ s.stride \in Nat \ {0} /\ s.width <= s.stride
        /\ t.lang \in {"C99", "CUDA", "OpenCL", "Renderscript"}
        /\ s.array2D /\ t.lang \in {"CUDA", "OpenCL"} => s.stride = s.width
    BY ShapeFacts DEF Languages
  <1>2. PICK n \in Int : n = s.stride * s.height
    BY <1>1, Products
  <1>3. PICK l \in Int : l = s.width * s.height
    BY <1>1, Products
  <1>4. \A k \in Pixels(s) : Place(s, k) < n
    BY <1>2, Places DEF Cells
  <1>5. ASSUME t.lang = "OpenCL", CopiesAllRows(t, s), NEW k \in Pixels(s)
        PROVE  Place(s, k) < l
    <2>1. CASE s.stride = s.width
      BY <1>2, <1>3, <1>4, <2>1
    <2>2. CASE s.height = 1
      <3>1. k \div s.width = 0 /\ k % s.width < s.width /\ k % s.width \in Int
        BY <1>1, <2>2, Places
      <3>2. 0 * s.stride = 0 /\ l = s.width
        BY <1>1, <1>3, <2>2
      <3> QED
        BY <3>1, <3>2 DEF Place
    <2> QED
      BY <1>1, <1>5, <2>1, <2>2 DEF CopiesAllRows
  <1>6. CopyMemory(t.lang, m, s) =
          FirstPixels(m, s, IF t.lang = "OpenCL" THEN l ELSE n)
    <2>1. CASE t.lang = "C99"
      BY <1>2, <2>1 DEF CopyMemory, CPUCopy
    <2>2. CASE t.lang = "CUDA"
      BY <1>2, <2>2 DEF CopyMemory, CUDACopy
    <2>3. CASE t.lang = "OpenCL"
      BY <1>3, <2>3 DEF CopyMemory, OpenCLCopy
    <2>4. CASE t.lang = "Renderscript"
      BY <1>2, <2>4 DEF CopyMemory, RenderscriptCopy
    <2> QED
      BY <1>1, <2>1, <2>2, <2>3, <2>4
  <1>7. CASE t.lang = "OpenCL"
    <2>1. CopyMemory(t.lang, m, s) = FirstPixels(m, s, l)
      BY <1>6, <1>7
    <2> QED
      BY <1>5, <1>7, <2>1, FirstPixelsCopy
  <1>8. CASE t.lang # "OpenCL"
    <2>1. CopyMemory(t.lang, m, s) = FirstPixels(m, s, n)
      BY <1>6, <1>8
    <2> QED
      BY <1>4, <2>1, FirstPixelsCopy
  <1> QED
    BY <1>7, <1>8

Inside(m, r) ==
  /\ r.x \in Nat /\ r.y \in Nat /\ r.width \in Nat /\ r.height \in Nat
  /\ r.x + r.width <= m.width /\ r.y + r.height <= m.height

\* Pixel k of an image of width w, from where the corner of region r is.
Within(w, r, k) ==
  /\ (k % w) - r.x \in 0..(r.width - 1)
  /\ (k \div w) - r.y \in 0..(r.height - 1)

\* The pixel of an image of width v that is copied there from region s.
Source(w, r, v, s, k) ==
  ((((k \div w) - r.y) + s.y) * v) + (((k % w) - r.x) + s.x)

(* A pixel of the region comes from a pixel of the source region.          *)
LEMMA SourcePixel ==
  ASSUME NEW t \in Targets, NEW m, Shape(t, m), NEW n, Shape(t, n),
         NEW r, Inside(m, r), NEW s, Inside(n, s),
         r.width = s.width, r.height = s.height,
         NEW k \in Pixels(m), Within(m.width, r, k)
  PROVE  LET j == Source(m.width, r, n.width, s, k) IN
         /\ j \in Pixels(n)
         /\ Place(n, j) = Source(m.width, r, n.stride, s, k)
  <1>1. PICK w \in Nat \ {0}, h \in Nat \ {0}, d \in Nat \ {0} :
          w = n.width /\ h = n.height /\ d = n.stride /\ w <= d
    BY ShapeFacts
  <1>2. PICK u \in Nat : u = k % m.width
    BY Places, ShapeFacts
  <1>3. PICK v \in Nat : v = k \div m.width
    BY Places, ShapeFacts
  <1>4. /\ u - r.x \in 0..(s.width - 1) /\ v - r.y \in 0..(s.height - 1)
        /\ r.x \in Nat /\ r.y \in Nat
        /\ s.x \in Nat /\ s.y \in Nat /\ s.width \in Nat /\ s.height \in Nat
        /\ s.x + s.width <= w /\ s.y + s.height <= h
    BY <1>1, <1>2, <1>3 DEF Within, Inside
  <1>5. PICK x \in 0..(w - 1) : x = (u - r.x) + s.x
    BY <1>4
  <1>6. PICK y \in 0..(h - 1) : y = (v - r.y) + s.y
    BY <1>4
  <1>7. PICK j : j = (y * w) + x
    OBVIOUS
  <1>8. j = Source(m.width, r, n.width, s, k)
    BY <1>1, <1>2, <1>3, <1>5, <1>6, <1>7 DEF Source
  <1>9. j \in 0..(w * h - 1)
    BY <1>7, PixelInRows
  <1>10. y \in Nat
    BY <1>6
  <1>11. j \div w = y /\ j % w = x
    BY <1>7, <1>10, RowColumn
  <1>12. Place(n, j) = (y * d) + x
    BY <1>1, <1>11 DEF Place
  <1>13. (y * d) + x = Source(m.width, r, n.stride, s, k)
    BY <1>1, <1>2, <1>3, <1>5, <1>6 DEF Source
  <1> QED
    BY <1>1, <1>8, <1>9, <1>12, <1>13 DEF Pixels

(* The rectangle copied on the device is the region of the image, and the  *)
(* rest of the image stays.                                                *)
LEMMA RectangleCopy ==
  ASSUME NEW t \in Targets, NEW m, Shape(t, m), NEW n, Shape(t, n),
         NEW r, Inside(m, r), NEW s, Inside(n, s),
         r.width = s.width, r.height = s.height,
         NEW M, M = WithDevice(m, CopyRectangle(m, r, n, s, r.width, r.height))
  PROVE  /\ Shape(t, M) /\ SameShape(m, M)
         /\ RowsOut(M) =
              [k \in Pixels(m) |->
                 IF Within(m.width, r, k)
                 THEN RowsOut(n)[Source(m.width, r, n.width, s, k)]
                 ELSE RowsOut(m)[k]]
  <1>1. PICK d : d = CopyRectangle(m, r, n, s, r.width, r.height)
    OBVIOUS
  <1>2. IsImage(M) /\ SameShape(m, M) /\ M.device = d /\ M.host = m.host
    BY <1>1, DeviceUpdate DEF Shape
  <1>3. d = [k \in Cells(m) |->
               IF Within(m.stride, r, k)
               THEN n.device[Source(m.stride, r, n.stride, s, k)]
               ELSE m.device[k]]
    <2>1. DOMAIN m.device = Cells(m)
      BY DEF Shape, IsDevice
    <2> QED
      BY <1>1, <2>1 DEF CopyRectangle, Within, Source
  <1>4. IsDevice(m, d)
    BY <1>3 DEF IsDevice
  <1>5. Shape(t, M) /\ Pixels(M) = Pixels(m) /\ \A k : Place(M, k) = Place(m, k)
    BY <1>2, <1>4, KeepsShape DEF Shape
  <1>6. ASSUME NEW k \in Pixels(m)
        PROVE  M.device[Place(M, k)] =
                 IF Within(m.width, r, k)
                 THEN RowsOut(n)[Source(m.width, r, n.width, s, k)]
                 ELSE RowsOut(m)[k]
    <2>1. PICK p : p = Place(m, k)
      OBVIOUS
    <2>2. /\ p \in Cells(m) /\ p % m.stride = k % m.width
          /\ p \div m.stride = k \div m.width
      BY <2>1, Places
    <2>3. /\ Within(m.stride, r, p) <=> Within(m.width, r, k)
          /\ Source(m.stride, r, n.stride, s, p) = Source(m.width, r, n.stride, s, k)
      BY <2>2 DEF Within, Source
    <2>4. M.device[Place(M, k)] = d[p]
      BY <1>2, <1>5, <2>1
    <2>5. CASE Within(m.width, r, k)
      <3>1. PICK j : j = Source(m.width, r, n.width, s, k)
        OBVIOUS
      <3>2. j \in Pixels(n) /\ Place(n, j) = Source(m.width, r, n.stride, s, k)
        BY <2>5, <3>1, SourcePixel
      <3>3. d[p] = n.device[Place(n, j)]
        BY <1>3, <2>2, <2>3, <2>5, <3>2
      <3>4. RowsOut(n)[j] = n.device[Place(n, j)]
        BY <3>2, Rows
      <3> QED
        BY <2>4, <2>5, <3>1, <3>3, <3>4
    <2>6. CASE ~Within(m.width, r, k)
      <3>1. d[p] = m.device[p]
        BY <1>3, <2>2, <2>3, <2>6
      <3>2. RowsOut(m)[k] = m.device[p]
        BY <2>1, Rows
      <3> QED
        BY <2>4, <2>6, <3>1, <3>2
    <2> QED
      BY <2>5, <2>6
  <1>7. RowsOut(M) = [k \in Pixels(m) |-> M.device[Place(M, k)]]
    BY <1>5, Rows
  <1> QED
    BY <1>2, <1>5, <1>6, <1>7

(* What the DSL sees of an image.                                          *)
Abs(t, m) ==
  [width |-> m.width, height |-> m.height,
   pixel |-> IF t.lang = "Vivado" THEN m.host ELSE RowsOut(m)]

LEMMA AbsFields ==
  ASSUME NEW t, NEW m
  PROVE  /\ Abs(t, m).width = m.width /\ Abs(t, m).height = m.height
         /\ t.lang = "Vivado" => Abs(t, m).pixel = m.host
         /\ t.lang # "Vivado" => Abs(t, m).pixel = RowsOut(m)
  BY DEF Abs

LEMMA SamePixelsSameAbs ==
  ASSUME NEW t, NEW m, Shape(t, m), NEW M, IsImage(M),
         SameShape(m, M), SamePixels(m, M)
  PROVE  Shape(t, M) /\ Abs(t, M) = Abs(t, m)
  <1>1. /\ M.width = m.width /\ M.height = m.height /\ M.stride = m.stride
        /\ M.device = m.device /\ M.host = m.host
    BY DEF SameShape, SamePixels
  <1>2. Shape(t, M)
    BY <1>1, KeepsShape DEF Shape
  <1>3. RowsOut(M) = RowsOut(m)
    BY <1>1 DEF RowsOut
  <1>4. Abs(t, M) = Abs(t, m)
    BY <1>1, <1>3 DEF Abs
  <1> QED
    BY <1>2, <1>4

LEMMA NewImageShape ==
  ASSUME NEW t \in Targets, NEW size,
         size[1] \in Nat \ {0}, size[2] \in Nat \ {0}
  PROVE  Shape(t, NewImage(t, size))
  <1>1. PICK m : m = NewImage(t, size)
    OBVIOUS
  <1>2. /\ IsImage(m) /\ m.width = size[1] /\ m.height = size[2]
        /\ m.stride = Stride(t, size[1]) /\ m.array2D = t.texture
        /\ m.device = [k \in 0..(Stride(t, size[1]) * size[2] - 1) |-> Garbage]
        /\ m.host = HostArray(size[1], size[2], 0)
    <2>1. IsNew(t, size[1], size[2], m)
      BY <1>1, NewImageFields
    <2> QED
      BY <2>1 DEF IsNew
  <1>3. IsDevice(m, m.device)
    BY <1>2 DEF IsDevice, Cells
  <1>4. IsHost(m, m.host)
    BY <1>2 DEF IsHost, Pixels, HostArray
  <1> QED
    BY <1>1, <1>2, <1>3, <1>4 DEF Shape

LEMMA FilledIsArray ==
  ASSUME NEW size, NEW a
  PROVE  DSL!Filled(size, a) =
           [width |-> size[1], height |-> size[2],
            pixel |-> HostArray(size[1], size[2], a)]
  BY DEF DSL!Filled, DSL!HostPixel, HostArray, HostPixel

IsCreated(t, size, a, C) ==
  /\ Shape(t, C) /\ Abs(t, C) = DSL!Filled(size, a)
  /\ C.refs = IF t.lang = "Renderscript" THEN 3 ELSE 2
  /\ C.live = TRUE /\ C.freed = 0

(* An image is created with the pixels of its host array, and a handle of  *)
(* the context beside that of the variable.                                *)
LEMMA CreatedImage ==
  ASSUME NEW t \in Targets, NEW size,
         size[1] \in Nat \ {0}, size[2] \in Nat \ {0},
         NEW a, t.lang = "Vivado" => a = 0
  PROVE  IsCreated(t, size, a, CreateImage(t, size, a))
  <1>0. PICK C : C = CreateImage(t, size, a)
    OBVIOUS
  <1>1. PICK m : m = NewImage(t, size)
    OBVIOUS
  <1>2. PICK b : b = HostArray(size[1], size[2], a)
    OBVIOUS
  <1>3. /\ Shape(t, m) /\ IsImage(m) /\ m.width = size[1] /\ m.height = size[2]
        /\ m.host = HostArray(size[1], size[2], 0) /\ m.live = TRUE /\ m.freed = 0
    <2>1. IsNew(t, size[1], size[2], m) /\ Shape(t, m)
      BY <1>1, NewImageFields, NewImageShape
    <2> QED
      BY <2>1 DEF IsNew
  <1>4. IsHost(m, b)
    BY <1>2, <1>3 DEF IsHost, Pixels, HostArray
  <1>5. PICK W : W = IF t.lang = "Vivado" THEN m ELSE Written(t, m, b)
    OBVIOUS
  <1>6. /\ Shape(t, W) /\ W.width = size[1] /\ W.height = size[2]
        /\ W.live = TRUE /\ W.freed = 0
        /\ Abs(t, W) = [width |-> size[1], height |-> size[2], pixel |-> b]
    <2>1. CASE t.lang = "Vivado"
      <3>1. W = m /\ m.host = b
        BY <1>2, <1>3, <1>5, <2>1
      <3>2. Abs(t, W) = [width |-> size[1], height |-> size[2], pixel |-> b]
        BY <1>3, <2>1, <3>1 DEF Abs
      <3> QED
        BY <1>3, <3>1, <3>2
    <2>2. CASE t.lang # "Vivado"
      <3>1. W = Written(t, m, b)
        BY <1>5, <2>2
      <3>2. /\ Shape(t, W) /\ SameShape(m, W) /\ SameCount(m, W)
            /\ RowsOut(W) = b
        BY <1>3, <1>4, <2>2, <3>1, WrittenImage
      <3>3. /\ W.width = size[1] /\ W.height = size[2]
            /\ W.live = TRUE /\ W.freed = 0
        BY <1>3, <3>2 DEF SameShape, SameCount
      <3>4. Abs(t, W) = [width |-> size[1], height |-> size[2], pixel |-> b]
        BY <2>2, <3>2, <3>3 DEF Abs
      <3> QED
        BY <3>2, <3>3, <3>4
    <2> QED
      BY <2>1, <2>2
  <1>7. PICK r : r = IF t.lang = "Renderscript" THEN 3 ELSE 2
    OBVIOUS
  <1>8. C = WithRefs(W, r)
    BY <1>0, <1>1, <1>2, <1>5, <1>7 DEF CreateImage, WithRefs
  <1>9. /\ IsImage(C) /\ SameShape(W, C) /\ SamePixels(W, C)
        /\ C.refs = r /\ C.live = W.live /\ C.freed = W.freed
    BY <1>6, <1>8, RefsUpdate DEF Shape
  <1>10. Shape(t, C) /\ Abs(t, C) = Abs(t, W)
    BY <1>6, <1>9, SamePixelsSameAbs
  <1>11. Abs(t, C) = DSL!Filled(size, a)
    BY <1>2, <1>6, <1>10, FilledIsArray
  <1> QED
    BY <1>0, <1>6, <1>7, <1>9, <1>10, <1>11 DEF IsCreated

-----------------------------------------------------------------------------
(* Sequences, whatever their elements.                                     *)
IsSeq(s) == \E S : s \in Seq(S)

LEMMA SeqFacts ==
  ASSUME NEW s, IsSeq(s)
  PROVE  /\ Len(s) \in Nat /\ DOMAIN s = 1..Len(s)
         /\ s = [i \in 1..Len(s) |-> s[i]]
  BY DEF IsSeq

LEMMA SeqMade ==
  ASSUME NEW n \in Nat, NEW s, s = [i \in 1..n |-> s[i]]
  PROVE  IsSeq(s) /\ Len(s) = n /\ DOMAIN s = 1..n
  <1>1. PICK S : S = {s[i] : i \in 1..n}
    OBVIOUS
  <1>2. s \in [1..n -> S]
    BY <1>1
  <1>3. s \in Seq(S) /\ Len(s) = n
    BY <1>2
  <1> QED
    BY <1>3 DEF IsSeq

LEMMA EqualSeqs ==
  ASSUME NEW s, IsSeq(s), NEW r, IsSeq(r), Len(s) = Len(r),
         \A i \in 1..Len(s) : s[i] = r[i]
  PROVE  s = r
  <1>1. PICK n : n = Len(s)
    OBVIOUS
  <1>2. s = [i \in 1..n |-> s[i]]
    BY <1>1, SeqFacts
  <1>3. r = [i \in 1..n |-> r[i]]
    BY <1>1, SeqFacts
  <1>4. [i \in 1..n |-> s[i]] = [i \in 1..n |-> r[i]]
    BY <1>1
  <1> QED
    BY <1>2, <1>3, <1>4

Longer(s, e, S) ==
  /\ IsSeq(S) /\ Len(S) = Len(s) + 1
  /\ \A i \in 1..Len(s) : S[i] = s[i]
  /\ S[Len(s) + 1] = e

LEMMA SeqAppend ==
  ASSUME NEW s, IsSeq(s), NEW e
  PROVE  Longer(s, e, Append(s, e))
  <1>1. PICK S : s \in Seq(S)
    BY DEF IsSeq
  <1>2. PICK T : T = S \cup {e}
    OBVIOUS
  <1>3. s \in Seq(T) /\ e \in T
    <2>1. s = [i \in 1..Len(s) |-> s[i]] /\ Len(s) \in Nat
      BY SeqFacts
    <2>2. \A i \in 1..Len(s) : s[i] \in T
      BY <1>1, <1>2
    <2>3. s \in [1..Len(s) -> T]
      BY <2>1, <2>2
    <2> QED
      BY <1>2, <2>1, <2>3
  <1>4. Append(s, e) \in Seq(T)
    BY <1>3
  <1> QED
    BY <1>3, <1>4 DEF IsSeq, Longer

Joined(s, u, S) ==
  /\ IsSeq(S) /\ Len(S) = Len(s) + Len(u)
  /\ \A i \in 1..Len(s) : S[i] = s[i]
  /\ \A i \in 1..Len(u) : S[Len(s) + i] = u[i]

LEMMA SeqConcat ==
  ASSUME NEW s, IsSeq(s), NEW u, IsSeq(u)
  PROVE  Joined(s, u, s \o u)
  <1>1. PICK S : s \in Seq(S)
    BY DEF IsSeq
  <1>2. PICK U : u \in Seq(U)
    BY DEF IsSeq
  <1>3. PICK T : T = S \cup U
    OBVIOUS
  <1>4. s \in Seq(T)
    <2>1. s = [i \in 1..Len(s) |-> s[i]] /\ Len(s) \in Nat
      BY SeqFacts
    <2>2. \A i \in 1..Len(s) : s[i] \in T
      BY <1>1, <1>3
    <2>3. s \in [1..Len(s) -> T]
      BY <2>1, <2>2
    <2> QED
      BY <2>1, <2>3
  <1>5. u \in Seq(T)
    <2>1. u = [i \in 1..Len(u) |-> u[i]] /\ Len(u) \in Nat
      BY SeqFacts
    <2>2. \A i \in 1..Len(u) : u[i] \in T
      BY <1>2, <1>3
    <2>3. u \in [1..Len(u) -> T]
      BY <2>1, <2>2
    <2> QED
      BY <2>1, <2>3
  <1>6. s \o u \in Seq(T)
    BY <1>4, <1>5
  <1>7. /\ Len(s \o u) = Len(s) + Len(u)
        /\ \A i \in 1..Len(s) : (s \o u)[i] = s[i]
    BY <1>4, <1>5
  <1>8. \A i \in 1..Len(u) : (s \o u)[Len(s) + i] = u[i]
    BY <1>4, <1>5
  <1> QED
    BY <1>6, <1>7, <1>8 DEF IsSeq, Joined

LEMMA SeqUpdate ==
  ASSUME NEW s, IsSeq(s), NEW i \in DOMAIN s, NEW e
  PROVE  /\ IsSeq([s EXCEPT ![i] = e]) /\ Len([s EXCEPT ![i] = e]) = Len(s)
         /\ [s EXCEPT ![i] = e][i] = e
         /\ \A j \in DOMAIN s : j # i => [s EXCEPT ![i] = e][j] = s[j]
  <1>1. PICK n \in Nat : n = Len(s) /\ DOMAIN s = 1..n
    BY SeqFacts
  <1>2. PICK S : S = [s EXCEPT ![i] = e]
    OBVIOUS
  <1>3. /\ DOMAIN S = 1..n /\ S[i] = e
        /\ \A j \in DOMAIN s : j # i => S[j] = s[j]
    BY <1>1, <1>2
  <1>4. S = [j \in 1..n |-> S[j]]
    BY <1>1, <1>2
  <1>5. IsSeq(S) /\ Len(S) = n
    BY <1>4, SeqMade
  <1> QED
    BY <1>1, <1>2, <1>3, <1>5

(* The images the DSL sees, in the order of allocation.                    *)
Mapped(t, mem) == [i \in DOMAIN mem |-> Abs(t, mem[i])]

LEMMA MappedSeq ==
  ASSUME NEW t, NEW mem, IsSeq(mem)
  PROVE  /\ IsSeq(Mapped(t, mem)) /\ Len(Mapped(t, mem)) = Len(mem)
         /\ DOMAIN Mapped(t, mem) = DOMAIN mem
         /\ \A i \in DOMAIN mem : Mapped(t, mem)[i] = Abs(t, mem[i])
  <1>1. PICK n \in Nat : n = Len(mem) /\ DOMAIN mem = 1..n
    BY SeqFacts
  <1>2. PICK S : S = Mapped(t, mem)
    OBVIOUS
  <1>3. S = [i \in 1..n |-> Abs(t, mem[i])]
    BY <1>1, <1>2 DEF Mapped
  <1>4. S = [i \in 1..n |-> S[i]]
    BY <1>3
  <1>5. IsSeq(S) /\ Len(S) = n /\ DOMAIN S = 1..n
    BY <1>4, SeqMade
  <1>6. \A i \in 1..n : S[i] = Abs(t, mem[i])
    BY <1>3
  <1> QED
    BY <1>1, <1>2, <1>5, <1>6

LEMMA MappedAppend ==
  ASSUME NEW t, NEW mem, IsSeq(mem), NEW e
  PROVE  Mapped(t, Append(mem, e)) = Append(Mapped(t, mem), Abs(t, e))
  <1>1. PICK n \in Nat : n = Len(mem) /\ DOMAIN mem = 1..n
    BY SeqFacts
  <1>2. PICK M : M = Append(mem, e)
    OBVIOUS
  <1>3. /\ IsSeq(M) /\ Len(M) = n + 1 /\ M[n + 1] = e
        /\ \A i \in 1..n : M[i] = mem[i]
    <2>1. Longer(mem, e, M)
      BY <1>2, SeqAppend
    <2> QED
      BY <1>1, <2>1 DEF Longer
  <1>4. DOMAIN M = 1..(n + 1)
    BY <1>3, SeqFacts
  <1>5. PICK A : A = Mapped(t, mem)
    OBVIOUS
  <1>6. IsSeq(A) /\ Len(A) = n /\ \A i \in 1..n : A[i] = Abs(t, mem[i])
    BY <1>1, <1>5, MappedSeq
  <1>7. PICK B : B = Append(A, Abs(t, e))
    OBVIOUS
  <1>8. /\ IsSeq(B) /\ Len(B) = n + 1 /\ B[n + 1] = Abs(t, e)
        /\ \A i \in 1..n : B[i] = A[i]
    <2>1. Longer(A, Abs(t, e), B)
      BY <1>6, <1>7, SeqAppend
    <2> QED
      BY <1>6, <2>1 DEF Longer
  <1>9. PICK C : C = Mapped(t, M)
    OBVIOUS
  <1>10. /\ IsSeq(C) /\ Len(C) = n + 1
         /\ \A i \in 1..(n + 1) : C[i] = Abs(t, M[i])
    BY <1>3, <1>4, <1>9, MappedSeq
  <1>11. \A i \in 1..(n + 1) : C[i] = B[i]
    <2>1. \A i \in 1..(n + 1) : i \in 1..n \/ i = n + 1
      OBVIOUS
    <2> QED
      BY <1>3, <1>6, <1>8, <1>10, <2>1
  <1>12. C = B
    BY <1>8, <1>10, <1>11, EqualSeqs
  <1> QED
    BY <1>2, <1>5, <1>7, <1>9, <1>12

LEMMA MappedConcat ==
  ASSUME NEW t, NEW mem, IsSeq(mem), NEW new, IsSeq(new)
  PROVE  Mapped(t, mem \o new) = Mapped(t, mem) \o Mapped(t, new)
  <1>1. PICK n \in Nat : n = Len(mem) /\ DOMAIN mem = 1..n
    BY SeqFacts
  <1>2. PICK l \in Nat : l = Len(new) /\ DOMAIN new = 1..l
    BY SeqFacts
  <1>3. PICK M : M = mem \o new
    OBVIOUS
  <1>4. /\ IsSeq(M) /\ Len(M) = n + l
        /\ \A i \in 1..n : M[i] = mem[i]
        /\ \A i \in 1..l : M[n + i] = new[i]
    <2>1. Joined(mem, new, M)
      BY <1>3, SeqConcat
    <2> QED
      BY <1>1, <1>2, <2>1 DEF Joined
  <1>5. DOMAIN M = 1..(n + l)
    BY <1>4, SeqFacts
  <1>6. PICK A : A = Mapped(t, mem)
    OBVIOUS
  <1>7. IsSeq(A) /\ Len(A) = n /\ \A i \in 1..n : A[i] = Abs(t, mem[i])
    BY <1>1, <1>6, MappedSeq
  <1>8. PICK N : N = Mapped(t, new)
    OBVIOUS
  <1>9. IsSeq(N) /\ Len(N) = l /\ \A i \in 1..l : N[i] = Abs(t, new[i])
    BY <1>2, <1>8, MappedSeq
  <1>10. PICK B : B = A \o N
    OBVIOUS
  <1>11. /\ IsSeq(B) /\ Len(B) = n + l
         /\ \A i \in 1..n : B[i] = A[i]
         /\ \A i \in 1..l : B[n + i] = N[i]
    <2>1. Joined(A, N, B)
      BY <1>7, <1>9, <1>10, SeqConcat
    <2> QED
      BY <1>7, <1>9, <2>1 DEF Joined
  <1>12. PICK C : C = Mapped(t, M)
    OBVIOUS
  <1>13. /\ IsSeq(C) /\ Len(C) = n + l
         /\ \A i \in 1..(n + l) : C[i] = Abs(t, M[i])
    BY <1>4, <1>5, <1>12, MappedSeq
  <1>14. ASSUME NEW i \in 1..(n + l)
         PROVE  C[i] = B[i]
    <2>1. CASE i \in 1..n
      BY <1>4, <1>7, <1>11, <1>13, <2>1
    <2>2. CASE i \notin 1..n
      <3>1. PICK j \in 1..l : i = n + j
        <4>1. i - n \in 1..l /\ i = n + (i - n)
          BY <2>2
        <4> QED
          BY <4>1
      <3>2. M[i] = new[j] /\ B[i] = N[j] /\ N[j] = Abs(t, new[j])
        BY <1>4, <1>9, <1>11, <3>1
      <3> QED
        BY <1>13, <3>2
    <2> QED
      BY <2>1, <2>2
  <1>15. C = B
    BY <1>11, <1>13, <1>14, EqualSeqs
  <1> QED
    BY <1>3, <1>6, <1>8, <1>10, <1>12, <1>15

LEMMA MappedSame ==
  ASSUME NEW t, NEW mem, NEW M, DOMAIN M = DOMAIN mem,
         \A i \in DOMAIN mem : Abs(t, M[i]) = Abs(t, mem[i])
  PROVE  Mapped(t, M) = Mapped(t, mem)
  BY DEF Mapped

LEMMA ArraysAreMapped ==
  Arrays = Mapped(target, memory) /\ Arrays' = Mapped(target', memory')
  BY DEF Arrays, Mapped, Abs

-----------------------------------------------------------------------------
(* The images, and what variables, stages and accessors refer to.          *)
RegionIn(mem, r) == r.img \in DOMAIN mem /\ Inside(mem[r.img], r)

ImagesOK(t, mem) ==
  IsSeq(mem) /\ \A i \in DOMAIN mem : Shape(t, mem[i])

StagesIn(mem, P) ==
  IsSeq(P.imgs) /\ \A k \in DOMAIN P.imgs : P.imgs[k] \in DOMAIN mem

HandlesOK(mem, imgs, pyrs, accs) ==
  /\ imgs \in [ImageNames -> 0..Len(mem)]
  /\ \A p \in PyramidNames : StagesIn(mem, pyrs[p])
  /\ DOMAIN accs = AccessorNames
  /\ \A c \in AccessorNames : accs[c] = NoAccessor \/ RegionIn(mem, accs[c])

MemoryInv ==
  /\ target \in Targets
  /\ ImagesOK(target, memory)
  /\ HandlesOK(memory, images, pyramids, accessors)

\* A later memory: images keep their shape, new ones come behind.
Grown(mem, M) ==
  /\ IsSeq(mem) /\ IsSeq(M) /\ Len(mem) <= Len(M)
  /\ \A i \in DOMAIN mem : SameShape(mem[i], M[i])

LEMMA GrownKeepsHandles ==
  ASSUME NEW mem, NEW M, Grown(mem, M),
         NEW imgs, NEW pyrs, NEW accs, HandlesOK(mem, imgs, pyrs, accs)
  PROVE  HandlesOK(M, imgs, pyrs, accs)
  <1>1. PICK n \in Nat : n = Len(mem) /\ DOMAIN mem = 1..n
    BY SeqFacts DEF Grown
  <1>2. PICK l \in Nat : l = Len(M) /\ DOMAIN M = 1..l
    BY SeqFacts DEF Grown
  <1>3. n <= l /\ \A i \in 1..n : SameShape(mem[i], M[i])
    BY <1>1, <1>2 DEF Grown
  <1>4. \A i \in DOMAIN mem : i \in DOMAIN M
    BY <1>1, <1>2, <1>3
  <1>5. ASSUME NEW r, RegionIn(mem, r)
        PROVE  RegionIn(M, r)
    <2>1. SameShape(mem[r.img], M[r.img])
      BY <1>1, <1>3, <1>5 DEF RegionIn
    <2> QED
      BY <1>4, <1>5, <2>1 DEF RegionIn, Inside, SameShape
  <1>6. ASSUME NEW P, StagesIn(mem, P)
        PROVE  StagesIn(M, P)
    BY <1>4, <1>6 DEF StagesIn
  <1>7. imgs \in [ImageNames -> 0..Len(M)]
    BY <1>1, <1>2, <1>3 DEF HandlesOK
  <1> QED
    BY <1>5, <1>6, <1>7 DEF HandlesOK

LEMMA MemoryFacts ==
  ASSUME MemoryInv
  PROVE  /\ target \in Targets /\ IsSeq(memory)
         /\ Len(memory) \in Nat /\ DOMAIN memory = 1..Len(memory)
         /\ \A i \in DOMAIN memory : Shape(target, memory[i])
         /\ Arrays = Mapped(target, memory) /\ IsSeq(Arrays)
         /\ Len(Arrays) = Len(memory) /\ DOMAIN Arrays = DOMAIN memory
         /\ \A i \in DOMAIN memory : /\ Arrays[i] = Abs(target, memory[i])
                                     /\ Arrays[i].width = memory[i].width
                                     /\ Arrays[i].height = memory[i].height
  <1>1. /\ target \in Targets /\ IsSeq(memory)
        /\ \A i \in DOMAIN memory : Shape(target, memory[i])
    BY DEF MemoryInv, ImagesOK
  <1>2. Len(memory) \in Nat /\ DOMAIN memory = 1..Len(memory)
    BY <1>1, SeqFacts
  <1>3. Arrays = Mapped(target, memory)
    BY ArraysAreMapped
  <1>4. /\ IsSeq(Arrays) /\ Len(Arrays) = Len(memory)
        /\ DOMAIN Arrays = DOMAIN memory
        /\ \A i \in DOMAIN memory : Arrays[i] = Abs(target, memory[i])
    BY <1>1, <1>3, MappedSeq
  <1> QED
    BY <1>1, <1>2, <1>3, <1>4, AbsFields

LEMMA WholeImageFields ==
  ASSUME NEW i
  PROVE  /\ WholeImage(i).img = i
         /\ WholeImage(i).width = memory[i].width
         /\ WholeImage(i).height = memory[i].height
         /\ WholeImage(i).x = 0 /\ WholeImage(i).y = 0
  BY DEF WholeImage

LEMMA WholeImageInside ==
  ASSUME MemoryInv, NEW i \in DOMAIN memory
  PROVE  RegionIn(memory, WholeImage(i))
  <1>1. memory[i].width \in Nat \ {0} /\ memory[i].height \in Nat \ {0}
    BY DEF MemoryInv, ImagesOK, Shape
  <1>2. /\ WholeImage(i).img = i
        /\ WholeImage(i).width = memory[i].width
        /\ WholeImage(i).height = memory[i].height
        /\ WholeImage(i).x = 0 /\ WholeImage(i).y = 0
    BY WholeImageFields
  <1> QED
    BY <1>1, <1>2 DEF RegionIn, Inside

LEMMA StageOfLevel ==
  ASSUME MemoryInv, TraversalInv, NEW p \in PyramidNames, NEW r \in Int,
         HasStage(pyramids[p], r)
  PROVE  Stage(pyramids[p], r) \in DOMAIN memory
  <1>1. PyramidOK(pyramids[p]) /\ StagesIn(memory, pyramids[p])
    BY DEF MemoryInv, HandlesOK, TraversalInv, PyramidsOK
  <1>2. PICK l \in Nat : l = pyramids[p].level
    BY <1>1 DEF PyramidOK
  <1>3. PICK n \in Nat : n = Len(pyramids[p].imgs) /\ DOMAIN pyramids[p].imgs = 1..n
    BY <1>1, SeqFacts DEF StagesIn
  <1>4. l + r + 1 \in DOMAIN pyramids[p].imgs
    BY <1>2, <1>3 DEF HasStage
  <1> QED
    BY <1>1, <1>2, <1>4 DEF StagesIn, Stage

(* What an operand denotes is a region of an image, and the region the DSL *)
(* means.                                                                  *)
LEMMA OperandRegion ==
  ASSUME MemoryInv, TraversalInv, NEW o \in Operands, Denotes(o)
  PROVE  /\ RegionIn(memory, AccessorOf(o))
         /\ o.kind # "accessor" => AccessorOf(o) = WholeImage(AccessorOf(o).img)
         /\ DSL!Denotes(o) /\ DSL!Region(o) = AccessorOf(o)
  <1>0. PICK l \in Nat : l = Len(memory) /\ DOMAIN memory = 1..l
    BY MemoryFacts
  <1>1. CASE o.kind = "image"
    <2>1. o.name \in ImageNames /\ images[o.name] # 0
      BY <1>1 DEF Operands, Denotes
    <2>2. images[o.name] \in DOMAIN memory
      BY <1>0, <2>1 DEF MemoryInv, HandlesOK
    <2>3. AccessorOf(o) = WholeImage(images[o.name])
      BY <1>1 DEF AccessorOf
    <2>4. RegionIn(memory, AccessorOf(o))
      BY <2>2, <2>3, WholeImageInside
    <2>5. AccessorOf(o) = WholeImage(AccessorOf(o).img)
      BY <2>3, WholeImageFields
    <2>6. DSL!Denotes(o)
      BY <1>1, <2>1 DEF DSL!Denotes
    <2>7. DSL!Region(o) = DSL!Whole(images[o.name])
      BY <1>1 DEF DSL!Region
    <2>8. DSL!Whole(images[o.name]) = WholeImage(images[o.name])
      BY <2>2, MemoryFacts DEF DSL!Whole, WholeImage
    <2> QED
      BY <2>3, <2>4, <2>5, <2>6, <2>7, <2>8
  <1>2. CASE o.kind = "level"
    <2>1. o.name \in PyramidNames /\ o.at \in Int /\ HasStage(pyramids[o.name], o.at)
      BY <1>2 DEF Operands, Denotes
    <2>2. PICK i \in DOMAIN memory : i = Stage(pyramids[o.name], o.at)
      BY <2>1, StageOfLevel
    <2>3. AccessorOf(o) = WholeImage(i)
      BY <1>2, <2>2 DEF AccessorOf
    <2>4. RegionIn(memory, AccessorOf(o))
      BY <2>2, <2>3, WholeImageInside
    <2>5. AccessorOf(o) = WholeImage(AccessorOf(o).img)
      BY <2>3, WholeImageFields
    <2>6. DSL!Denotes(o)
      BY <1>2, <2>1 DEF DSL!Denotes, DSL!HasStage, HasStage
    <2>7. DSL!Region(o) = DSL!Whole(i)
      BY <1>2, <2>2 DEF DSL!Region, DSL!Stage, Stage
    <2>8. DSL!Whole(i) = WholeImage(i)
      BY <2>2, MemoryFacts DEF DSL!Whole, WholeImage
    <2> QED
      BY <2>3, <2>4, <2>5, <2>6, <2>7, <2>8
  <1>3. CASE o.kind = "accessor"
    <2>1. o.name \in AccessorNames /\ accessors[o.name] # NoAccessor
      BY <1>3 DEF Operands, Denotes
    <2>2. AccessorOf(o) = accessors[o.name]
      BY <1>3 DEF AccessorOf
    <2>3. RegionIn(memory, AccessorOf(o))
      BY <2>1, <2>2 DEF MemoryInv, HandlesOK
    <2>4. DSL!Denotes(o)
      BY <1>3, <2>1 DEF DSL!Denotes, DSL!NoAccessor, NoAccessor
    <2>5. DSL!Region(o) = accessors[o.name]
      BY <1>3 DEF DSL!Region
    <2> QED
      BY <1>3, <2>2, <2>3, <2>4, <2>5
  <1>4. o.kind \in {"image", "level", "accessor"}
    BY DEF Operands
  <1> QED
    BY <1>1, <1>2, <1>3, <1>4

-----------------------------------------------------------------------------
(* Statements.                                                             *)
AbsCalls(cs) == [t \in DOMAIN cs |-> [kind |-> cs[t].kind, left |-> cs[t].left]]

LEMMA DeclareImageRefines ==
  ASSUME MemoryInv, NEW n \in ImageNames, NEW size \in Sizes, NEW a,
         DeclareImage(n, size, a)
  PROVE  MemoryInv' /\ DSL!DeclareImage(n, size, a)
  <1>1. PICK l \in Nat : l = Len(memory) /\ DOMAIN memory = 1..l
    BY MemoryFacts
  <1>2. PICK C : C = CreateImage(target, size, a)
    OBVIOUS
  <1>3. size[1] \in Nat \ {0} /\ size[2] \in Nat \ {0}
    BY SizesArePositive
  <1>4. target \in Targets /\ target' = target /\ (target.lang = "Vivado" => a = 0)
    BY DEF MemoryInv, DeclareImage, Statement
  <1>5. Shape(target, C) /\ Abs(target, C) = DSL!Filled(size, a)
    <2>1. IsCreated(target, size, a, CreateImage(target, size, a))
      BY <1>3, <1>4, CreatedImage
    <2> QED
      BY <1>2, <2>1 DEF IsCreated
  <1>6. PICK M : M = Append(memory, C)
    OBVIOUS
  <1>7. memory' = M
    BY <1>2, <1>6 DEF DeclareImage
  <1>8. /\ IsSeq(M) /\ Len(M) = l + 1 /\ M[l + 1] = C
        /\ \A i \in 1..l : M[i] = memory[i]
    <2>1. Longer(memory, C, M)
      BY <1>6, MemoryFacts, SeqAppend
    <2> QED
      BY <1>1, <2>1 DEF Longer
  <1>9. DOMAIN M = 1..(l + 1)
    BY <1>8, SeqFacts
  <1>10. ImagesOK(target, M)
    <2>1. ASSUME NEW i \in DOMAIN M
          PROVE  Shape(target, M[i])
      <3>1. i \in 1..l \/ i = l + 1
        BY <1>9
      <3>2. \A j \in 1..l : Shape(target, memory[j])
        BY <1>1, MemoryFacts
      <3> QED
        BY <1>5, <1>8, <3>1, <3>2
    <2> QED
      BY <1>8, <2>1 DEF ImagesOK
  <1>11. HandlesOK(M, images, pyramids, accessors)
    <2>1. Grown(memory, M)
      BY <1>1, <1>8, MemoryFacts DEF Grown, SameShape
    <2> QED
      BY <2>1, GrownKeepsHandles DEF MemoryInv
  <1>12. images' = [images EXCEPT ![n] = l + 1]
    BY <1>1 DEF DeclareImage
  <1>13. HandlesOK(M, images', pyramids, accessors)
    <2>1. images \in [ImageNames -> 0..Len(M)] /\ l + 1 \in 0..Len(M)
      BY <1>8, <1>11 DEF HandlesOK
    <2>2. images' \in [ImageNames -> 0..Len(M)]
      BY <1>12, <2>1
    <2> QED
      BY <1>11, <2>2 DEF HandlesOK
  <1>14. MemoryInv'
    <2>1. pyramids' = pyramids /\ accessors' = accessors
      BY DEF DeclareImage
    <2> QED
      BY <1>4, <1>7, <1>10, <1>13, <2>1 DEF MemoryInv
  <1>15. Arrays' = Append(Arrays, DSL!Filled(size, a))
    <2>1. Arrays' = Mapped(target, M) /\ Arrays = Mapped(target, memory)
      BY <1>4, <1>7, ArraysAreMapped
    <2> QED
      BY <1>5, <1>6, <2>1, MappedAppend, MemoryFacts
  <1>16. Len(Arrays) = l
    BY <1>1, MemoryFacts
  <1>17. DSL!DeclareImage(n, size, a)
    BY <1>12, <1>15, <1>16
       DEF DeclareImage, Statement, DSL!DeclareImage, DSL!Statement
  <1> QED
    BY <1>14, <1>17

(* Induction, as a fact about sets.                                        *)
LEMMA InductionOnNat ==
  ASSUME NEW S, 0 \in S, \A n \in Nat : n \in S => n + 1 \in S
  PROVE  Nat \subseteq S
  <1> DEFINE T == {n \in Nat : n \notin S}
             R == {ss \in Nat \X Nat : ss[1] < ss[2]}
  <1>1. SUFFICES ASSUME T # {} PROVE FALSE
    OBVIOUS
  <1>2. IsWellFoundedOn(R, Nat)
    BY NatLessThanWellFounded DEF OpToRel
  <1>3. PICK x \in T : \A y \in T : <<y, x>> \notin R
    <2> HIDE DEF R
    <2> QED
      BY <1>1, <1>2, WFMin
  <1>4. x \in Nat /\ x # 0
    BY <1>3
  <1>5. x - 1 \in T
    BY <1>4, <1>3
  <1>6. <<x - 1, x>> \in R
    BY <1>4
  <1> QED
    BY <1>3, <1>5, <1>6

(* The sizes of the stages of a pyramid.                                   *)
Halved(size) == <<size[1] \div 2, size[2] \div 2>>

HalvesUpTo(f, size, n) ==
  f = [l \in 0..(n - 1) |-> IF l = 0 THEN size ELSE Halved(f[l - 1])]

LEMMA HalvesExist ==
  ASSUME NEW N \in Nat, NEW size
  PROVE  \E f : HalvesUpTo(f, size, N)
  <1> DEFINE S == {n \in Nat : \E f : HalvesUpTo(f, size, n)}
  <1>1. 0 \in S
    <2>1. PICK f : f = [l \in 0..(0 - 1) |-> size]
      OBVIOUS
    <2>2. HalvesUpTo(f, size, 0)
      <3>1. 0..(0 - 1) = {}
        OBVIOUS
      <3> QED
        BY <2>1, <3>1 DEF HalvesUpTo
    <2> QED
      BY <2>2
  <1>2. ASSUME NEW n \in Nat, n \in S
        PROVE  n + 1 \in S
    <2>1. PICK f : HalvesUpTo(f, size, n)
      BY <1>2
    <2>2. PICK e : e = IF n = 0 THEN size ELSE Halved(f[n - 1])
      OBVIOUS
    <2>3. PICK g : g = [l \in 0..n |-> IF l = n THEN e ELSE f[l]]
      OBVIOUS
    <2>4. f = [l \in 0..(n - 1) |-> IF l = 0 THEN size ELSE Halved(f[l - 1])]
      BY <2>1 DEF HalvesUpTo
    <2>5. \A l \in 0..(n - 1) : f[l] = IF l = 0 THEN size ELSE Halved(f[l - 1])
      BY <2>4
    <2>6. ASSUME NEW l \in 0..n
          PROVE  g[l] = IF l = 0 THEN size ELSE Halved(g[l - 1])
      <3>1. l # 0 => g[l - 1] = f[l - 1]
        BY <2>3
      <3>2. CASE l = n
        BY <2>2, <2>3, <3>1, <3>2
      <3>3. CASE l # n
        <4>1. l \in 0..(n - 1) /\ g[l] = f[l]
          BY <2>3, <3>3
        <4> QED
          BY <2>5, <3>1, <4>1
      <3> QED
        BY <3>2, <3>3
    <2>7. g = [l \in 0..n |-> g[l]]
      BY <2>3
    <2>8. g = [l \in 0..n |-> IF l = 0 THEN size ELSE Halved(g[l - 1])]
      BY <2>6, <2>7
    <2>9. (n + 1) - 1 = n
      OBVIOUS
    <2>10. HalvesUpTo(g, size, n + 1)
      BY <2>8, <2>9 DEF HalvesUpTo
    <2> QED
      BY <2>10
  <1>3. Nat \subseteq S
    <2> HIDE DEF S
    <2> QED
      BY <1>1, <1>2, InductionOnNat
  <1> QED
    BY <1>3

LEMMA LevelSizesAreNat ==
  ASSUME NEW depth \in Nat \ {0}, NEW w \in Nat, NEW h \in Nat,
         NEW l \in 0..(depth - 1)
  PROVE  /\ LevelSizes(<<w, h>>, depth)[l][1] \in Nat
         /\ LevelSizes(<<w, h>>, depth)[l][2] \in Nat
  <1>1. PICK f : f = LevelSizes(<<w, h>>, depth)
    OBVIOUS
  <1>2. HalvesUpTo(f, <<w, h>>, depth)
    <2>1. f = CHOOSE g : HalvesUpTo(g, <<w, h>>, depth)
      BY <1>1 DEF LevelSizes, HalvesUpTo, Halved
    <2> QED
      BY <2>1, HalvesExist
  <1>3. \A k \in 0..(depth - 1) :
          f[k] = IF k = 0 THEN <<w, h>> ELSE Halved(f[k - 1])
    <2>1. f = [k \in 0..(depth - 1) |->
                 IF k = 0 THEN <<w, h>> ELSE Halved(f[k - 1])]
      BY <1>2 DEF HalvesUpTo
    <2> QED
      BY <2>1
  <1> DEFINE S == {k \in Nat : k \in 0..(depth - 1) => f[k] \in Nat \X Nat}
  <1>4. 0 \in S
    BY <1>3
  <1>5. ASSUME NEW k \in Nat, k \in S
        PROVE  k + 1 \in S
    <2>1. CASE k + 1 \in 0..(depth - 1)
      <3>1. k \in 0..(depth - 1) /\ k + 1 # 0 /\ (k + 1) - 1 = k
        BY <2>1
      <3>2. f[k + 1] = Halved(f[k])
        BY <1>3, <2>1, <3>1
      <3>3. PICK a \in Nat, b \in Nat : f[k] = <<a, b>>
        BY <1>5, <3>1
      <3>4. f[k + 1] = <<a \div 2, b \div 2>>
        BY <3>2, <3>3 DEF Halved
      <3> QED
        BY <3>4
    <2>2. CASE k + 1 \notin 0..(depth - 1)
      BY <2>2
    <2> QED
      BY <2>1, <2>2
  <1>6. Nat \subseteq S
    <2> HIDE DEF S
    <2> QED
      BY <1>4, <1>5, InductionOnNat
  <1>7. f[l] \in Nat \X Nat
    BY <1>6
  <1> QED
    BY <1>1, <1>7

LEMMA DeclarePyramidRefines ==
  ASSUME MemoryInv, NEW p \in PyramidNames, NEW n \in ImageNames,
         NEW depth \in Depths, DeclarePyramid(p, n, depth)
  PROVE  MemoryInv' /\ DSL!DeclarePyramid(p, n, depth)
  <1>1. PICK m \in Nat : m = Len(memory) /\ DOMAIN memory = 1..m
    BY MemoryFacts
  <1>2. target \in Targets /\ target' = target
    BY DEF MemoryInv, DeclarePyramid, Statement
  <1>3. PICK e \in Nat : e = depth - 1
    BY DepthsArePositive
  <1>4. PICK b \in DOMAIN memory : b = images[n]
    <2>1. images[n] \in 0..m /\ images[n] # 0
      BY <1>1 DEF MemoryInv, HandlesOK, DeclarePyramid
    <2> QED
      BY <1>1, <2>1
  <1>5. PICK size : size = LevelSizes(<<memory[b].width, memory[b].height>>, depth)
    OBVIOUS
  <1>6. PICK X : X = [memory EXCEPT ![b] = Copied(memory[b])]
    OBVIOUS
  <1>7. PICK N : N = [l \in 1..e |-> CreateImage(target, size[l], 0)]
    OBVIOUS
  <1>8. PICK ids : ids = [l \in 1..e |-> m + l]
    OBVIOUS
  <1>9. PICK M : M = X \o N
    OBVIOUS
  <1>10. PICK stages : stages = <<b>> \o ids
    OBVIOUS
  <1>11. /\ memory' = M
         /\ pyramids' = [pyramids EXCEPT ![p] = [NoPyramid EXCEPT !.imgs = stages]]
         /\ \A l \in 1..e : size[l][1] * size[l][2] > 0
    BY <1>1, <1>3, <1>4, <1>5, <1>6, <1>7, <1>8, <1>9, <1>10 DEF DeclarePyramid
  <1>12. Shape(target, memory[b])
    BY MemoryFacts
  <1>13. ASSUME NEW l \in 1..e
         PROVE  IsCreated(target, size[l], 0, N[l])
    <2>1. memory[b].width \in Nat /\ memory[b].height \in Nat
      BY <1>12 DEF Shape
    <2>2. depth \in Nat \ {0} /\ l \in 0..(depth - 1)
      BY <1>3, DepthsArePositive
    <2>3. PICK u \in Nat, v \in Nat : u = size[l][1] /\ v = size[l][2]
      BY <1>5, <2>1, <2>2, LevelSizesAreNat
    <2>4. u * v > 0
      BY <1>11, <2>3
    <2>5. u # 0 /\ v # 0
      BY <2>3, <2>4
    <2>6. N[l] = CreateImage(target, size[l], 0)
      BY <1>7
    <2>7. IsCreated(target, size[l], 0, CreateImage(target, size[l], 0))
      BY <1>2, <2>3, <2>5, CreatedImage
    <2> QED
      BY <2>6, <2>7
  <1>14. IsSeq(N) /\ Len(N) = e /\ DOMAIN N = 1..e
    <2>1. N = [l \in 1..e |-> N[l]]
      BY <1>7
    <2> QED
      BY <1>3, <2>1, SeqMade
  <1>15. /\ IsSeq(X) /\ Len(X) = m /\ DOMAIN X = DOMAIN memory
         /\ X[b] = Copied(memory[b])
         /\ \A j \in DOMAIN memory : j # b => X[j] = memory[j]
    BY <1>1, <1>6, MemoryFacts, SeqUpdate
  <1>16. /\ Shape(target, X[b]) /\ Abs(target, X[b]) = Abs(target, memory[b])
         /\ SameShape(memory[b], X[b])
    <2>1. IsImage(X[b]) /\ SameShape(memory[b], X[b]) /\ SamePixels(memory[b], X[b])
      BY <1>12, <1>15, CopiedUpdate DEF Shape
    <2> QED
      BY <1>12, <2>1, SamePixelsSameAbs
  <1>17. \A j \in 1..m : /\ Shape(target, X[j]) /\ SameShape(memory[j], X[j])
                         /\ Abs(target, X[j]) = Abs(target, memory[j])
    BY <1>1, <1>15, <1>16, MemoryFacts DEF SameShape
  <1>18. /\ IsSeq(M) /\ Len(M) = m + e
         /\ \A i \in 1..m : M[i] = X[i]
         /\ \A i \in 1..e : M[m + i] = N[i]
    <2>1. Joined(X, N, M)
      BY <1>9, <1>14, <1>15, SeqConcat
    <2> QED
      BY <1>14, <1>15, <2>1 DEF Joined
  <1>19. DOMAIN M = 1..(m + e)
    BY <1>18, SeqFacts
  <1>20. ImagesOK(target, M)
    <2>1. ASSUME NEW i \in DOMAIN M
          PROVE  Shape(target, M[i])
      <3>1. CASE i \in 1..m
        BY <1>17, <1>18, <3>1
      <3>2. CASE i \notin 1..m
        <4>1. PICK j \in 1..e : i = m + j
          <5>1. i - m \in 1..e /\ i = m + (i - m)
            BY <1>19, <3>2
          <5> QED
            BY <5>1
        <4>2. M[i] = N[j]
          BY <1>18, <4>1
        <4> QED
          BY <1>13, <4>1, <4>2 DEF IsCreated
      <3> QED
        BY <3>1, <3>2
    <2> QED
      BY <1>18, <2>1 DEF ImagesOK
  <1>21. HandlesOK(M, images, pyramids, accessors)
    <2>1. Grown(memory, M)
      BY <1>1, <1>17, <1>18, MemoryFacts DEF Grown
    <2> QED
      BY <2>1, GrownKeepsHandles DEF MemoryInv
  <1>22. IsSeq(ids) /\ Len(ids) = e /\ \A l \in 1..e : ids[l] = m + l
    <2>1. ids = [l \in 1..e |-> ids[l]]
      BY <1>8
    <2> QED
      BY <1>3, <1>8, <2>1, SeqMade
  <1>23. IsSeq(stages) /\ \A k \in DOMAIN stages : stages[k] \in DOMAIN M
    <2>0. PICK one : one = <<b>>
      OBVIOUS
    <2>1. IsSeq(one) /\ Len(one) = 1 /\ one[1] = b
      <3>1. one \in Seq({b})
        BY <2>0
      <3> QED
        BY <2>0, <3>1 DEF IsSeq
    <2>2. Joined(one, ids, stages)
      BY <1>10, <1>22, <2>0, <2>1, SeqConcat
    <2>3. /\ IsSeq(stages) /\ Len(stages) = 1 + e /\ stages[1] = b
          /\ \A l \in 1..e : stages[1 + l] = m + l
      <3>1. /\ IsSeq(stages) /\ Len(stages) = Len(one) + Len(ids)
            /\ \A i \in 1..Len(one) : stages[i] = one[i]
            /\ \A i \in 1..Len(ids) : stages[Len(one) + i] = ids[i]
        BY <2>2 DEF Joined
      <3>2. stages[1] = b
        BY <2>1, <3>1
      <3>3. ASSUME NEW l \in 1..e
            PROVE  stages[1 + l] = m + l
        BY <1>22, <2>1, <3>1
      <3> QED
        BY <1>22, <2>1, <3>1, <3>2, <3>3
    <2>4. DOMAIN stages = 1..(1 + e)
      BY <2>3, SeqFacts
    <2>5. ASSUME NEW k \in DOMAIN stages
          PROVE  stages[k] \in DOMAIN M
      <3>1. CASE k = 1
        BY <1>1, <1>19, <2>3, <3>1
      <3>2. CASE k # 1
        <4>1. k - 1 \in 1..e /\ k = 1 + (k - 1)
          BY <2>4, <3>2
        <4>2. stages[k] = m + (k - 1)
          BY <2>3, <4>1
        <4> QED
          BY <1>19, <4>1, <4>2
      <3> QED
        BY <3>1, <3>2
    <2> QED
      BY <2>3, <2>5
  <1>24. HandlesOK(M, images, pyramids', accessors)
    <2>1. ASSUME NEW q \in PyramidNames
          PROVE  StagesIn(M, pyramids'[q])
      <3>1. StagesIn(M, pyramids[q])
        BY <1>21 DEF HandlesOK
      <3>2. [NoPyramid EXCEPT !.imgs = stages].imgs = stages
        BY DEF NoPyramid
      <3>3. CASE q = p /\ p \in DOMAIN pyramids
        <4>1. pyramids'[q].imgs = stages
          BY <1>11, <3>2, <3>3
        <4> QED
          BY <1>23, <4>1 DEF StagesIn
      <3>4. CASE ~(q = p /\ p \in DOMAIN pyramids)
        <4>1. pyramids'[q] = pyramids[q]
          BY <1>11, <3>4
        <4> QED
          BY <3>1, <4>1
      <3> QED
        BY <3>3, <3>4
    <2> QED
      BY <1>21, <2>1 DEF HandlesOK
  <1>25. MemoryInv'
    <2>1. images' = images /\ accessors' = accessors
      BY DEF DeclarePyramid
    <2> QED
      BY <1>2, <1>11, <1>20, <1>24, <2>1 DEF MemoryInv
  <1>26. PICK F : F = [l \in 1..e |-> DSL!Filled(size[l], 0)]
    OBVIOUS
  <1>27. Arrays' = Arrays \o F
    <2>1. Arrays' = Mapped(target, M) /\ Arrays = Mapped(target, memory)
      BY <1>2, <1>11, ArraysAreMapped
    <2>2. Mapped(target, M) = Mapped(target, X) \o Mapped(target, N)
      BY <1>9, <1>14, <1>15, MappedConcat
    <2>3. Mapped(target, X) = Mapped(target, memory)
      BY <1>1, <1>15, <1>17, MappedSame
    <2>4. Mapped(target, N) = F
      BY <1>13, <1>14, <1>26 DEF Mapped, IsCreated
    <2> QED
      BY <2>1, <2>2, <2>3, <2>4
  <1>28. /\ Len(Arrays) = m /\ Arrays[b].width = memory[b].width
         /\ Arrays[b].height = memory[b].height
    BY <1>1, MemoryFacts
  <1>29. size = DSL!LevelSizes(<<Arrays[b].width, Arrays[b].height>>, depth)
    BY <1>5, <1>28 DEF LevelSizes, DSL!LevelSizes
  <1>30. DSL!NoPyramid = NoPyramid
    BY DEF NoPyramid, DSL!NoPyramid
  <1>31. /\ DSL!Statement /\ pyramids[p] = DSL!NoPyramid /\ images[n] # 0
         /\ UNCHANGED <<images, accessors, hipaccPyramids, calls, read>>
    BY <1>30 DEF DeclarePyramid, Statement, DSL!Statement
  <1> QED
    BY <1>3, <1>4, <1>8, <1>10, <1>11, <1>25, <1>26, <1>27, <1>28, <1>29,
       <1>30, <1>31 DEF DSL!DeclarePyramid

LEMMA DeclareAccessorRefines ==
  ASSUME MemoryInv, TraversalInv, NEW c \in AccessorNames, NEW o \in Operands,
         NEW r \in Regions, DeclareAccessor(c, o, r)
  PROVE  MemoryInv' /\ DSL!DeclareAccessor(c, o, r)
  <1>1. PICK w : w = AccessorOf(o)
    OBVIOUS
  <1>2. o.kind # "accessor" /\ Denotes(o)
    BY DEF DeclareAccessor
  <1>3. /\ RegionIn(memory, w) /\ w = WholeImage(w.img)
        /\ DSL!Denotes(o) /\ DSL!Region(o) = w
    BY <1>1, <1>2, OperandRegion
  <1>4. w.width = memory[w.img].width /\ w.height = memory[w.img].height
    BY <1>3, WholeImageFields
  <1>5. PICK a : a = [img |-> w.img, width |-> r.width, height |-> r.height,
                      x |-> r.x, y |-> r.y]
    OBVIOUS
  <1>6. /\ r.x + r.width <= w.width /\ r.y + r.height <= w.height
        /\ accessors' = [accessors EXCEPT ![c] = a]
    BY <1>1, <1>5 DEF DeclareAccessor
  <1>7. /\ r.width \in Nat /\ r.height \in Nat /\ r.x \in Nat /\ r.y \in Nat
    BY RegionsAreNat
  <1>8. RegionIn(memory, a)
    <2>1. /\ a.img = w.img /\ a.width = r.width /\ a.height = r.height
          /\ a.x = r.x /\ a.y = r.y
      BY <1>5
    <2>2. w.img \in DOMAIN memory
      BY <1>3 DEF RegionIn
    <2> QED
      BY <1>4, <1>6, <1>7, <2>1, <2>2 DEF RegionIn, Inside
  <1>9. UNCHANGED <<target, memory, images, pyramids>>
    BY DEF DeclareAccessor, Statement
  <1>10. MemoryInv'
    <2>1. HandlesOK(memory, images, pyramids, accessors')
      BY <1>6, <1>8 DEF MemoryInv, HandlesOK
    <2> QED
      BY <1>9, <2>1 DEF MemoryInv
  <1>11. Arrays' = Arrays
    BY <1>9, ArraysAreMapped
  <1>12. /\ DSL!Statement /\ accessors[c] = DSL!NoAccessor
         /\ UNCHANGED <<images, pyramids, hipaccPyramids, calls, read>>
    BY DEF DeclareAccessor, Statement, DSL!Statement, NoAccessor, DSL!NoAccessor
  <1> QED
    BY <1>2, <1>3, <1>5, <1>6, <1>10, <1>11, <1>12 DEF DSL!DeclareAccessor

(* An update of the pixels of one image.                                   *)
LEMMA OneImageChanged ==
  ASSUME MemoryInv, NEW i \in DOMAIN memory, NEW M,
         Shape(target, M), SameShape(memory[i], M),
         memory' = [memory EXCEPT ![i] = M],
         UNCHANGED <<target, images, pyramids, accessors>>
  PROVE  /\ MemoryInv'
         /\ Arrays' = [Arrays EXCEPT ![i] = Abs(target, M)]
  <1>1. PICK N : N = [memory EXCEPT ![i] = M]
    OBVIOUS
  <1>2. /\ IsSeq(N) /\ Len(N) = Len(memory) /\ DOMAIN N = DOMAIN memory
        /\ N[i] = M /\ \A j \in DOMAIN memory : j # i => N[j] = memory[j]
    BY <1>1, MemoryFacts, SeqUpdate
  <1>3. ImagesOK(target, N)
    BY <1>2, MemoryFacts DEF ImagesOK
  <1>4. Grown(memory, N)
    BY <1>2, MemoryFacts DEF Grown, SameShape
  <1>5. HandlesOK(N, images, pyramids, accessors)
    BY <1>4, GrownKeepsHandles DEF MemoryInv
  <1>6. MemoryInv'
    BY <1>1, <1>3, <1>5 DEF MemoryInv
  <1>7. Mapped(target, N) = [Mapped(target, memory) EXCEPT ![i] = Abs(target, M)]
    <2>1. PICK f, g : f = [j \in DOMAIN memory |-> Abs(target, memory[j])] /\ g = Abs(target, M)
      OBVIOUS
    <2>2. [j \in DOMAIN N |-> Abs(target, N[j])] = [f EXCEPT ![i] = g]
      BY <1>2, <2>1
    <2> QED
      BY <2>1, <2>2 DEF Mapped
  <1>8. Arrays' = Mapped(target, N) /\ Arrays = Mapped(target, memory)
    BY <1>1, ArraysAreMapped
  <1> QED
    BY <1>6, <1>7, <1>8

LEMMA SameEntry ==
  ASSUME NEW s, IsSeq(s), NEW i \in DOMAIN s, NEW e, e = s[i]
  PROVE  [s EXCEPT ![i] = e] = s
  <1>1. PICK n : DOMAIN s = 1..n /\ s = [j \in 1..n |-> s[j]]
    BY SeqFacts
  <1> QED
    BY <1>1

LEMMA AssignArrayRefines ==
  ASSUME MemoryInv, TraversalInv, NEW d \in Operands, NEW a, AssignArray(d, a)
  PROVE  MemoryInv' /\ DSL!AssignArray(d, a)
  <1>1. PICK i : i = AccessorOf(d).img
    OBVIOUS
  <1>2. d.kind # "accessor" /\ Denotes(d) /\ target.lang # "Vivado"
    BY DEF AssignArray
  <1>3. i \in DOMAIN memory /\ DSL!Denotes(d) /\ DSL!Region(d).img = i
    BY <1>1, <1>2, OperandRegion DEF RegionIn
  <1>4. PICK m : m = memory[i] /\ Shape(target, m)
    BY <1>3, MemoryFacts
  <1>5. PICK b : b = HostArray(m.width, m.height, a)
    OBVIOUS
  <1>6. PICK M : M = Written(target, m, b)
    OBVIOUS
  <1>7. memory' = [memory EXCEPT ![i] = M]
    BY <1>1, <1>4, <1>5, <1>6 DEF AssignArray
  <1>8. IsHost(m, b)
    BY <1>5 DEF IsHost, Pixels, HostArray
  <1>9. Shape(target, M) /\ SameShape(m, M) /\ RowsOut(M) = b
    BY <1>2, <1>4, <1>6, <1>8, WrittenImage, MemoryFacts
  <1>10. UNCHANGED <<target, images, pyramids, accessors>>
    BY DEF AssignArray, Statement
  <1>11. MemoryInv' /\ Arrays' = [Arrays EXCEPT ![i] = Abs(target, M)]
    BY <1>3, <1>4, <1>7, <1>9, <1>10, OneImageChanged
  <1>12. Abs(target, M) = DSL!Filled(<<Arrays[i].width, Arrays[i].height>>, a)
    <2>1. PICK w, h : w = m.width /\ h = m.height
      OBVIOUS
    <2>2. Abs(target, M) = [width |-> w, height |-> h, pixel |-> b]
      BY <1>2, <1>9, <2>1 DEF Abs, SameShape
    <2>3. DSL!Filled(<<w, h>>, a) = [width |-> w, height |-> h, pixel |-> b]
      BY <1>5, <2>1, FilledIsArray
    <2>4. Arrays[i].width = w /\ Arrays[i].height = h
      BY <1>3, <1>4, <2>1, MemoryFacts
    <2> QED
      BY <2>2, <2>3, <2>4
  <1>13. /\ DSL!Statement
         /\ UNCHANGED <<images, pyramids, accessors, hipaccPyramids, calls, read>>
    BY DEF AssignArray, Statement, DSL!Statement
  <1> QED
    BY <1>2, <1>3, <1>11, <1>12, <1>13 DEF DSL!AssignArray

(* A whole copy between images of the same size.                           *)
LEMMA WholeCopyRefines ==
  ASSUME MemoryInv, NEW i \in DOMAIN memory, NEW j \in DOMAIN memory,
         memory[i].width = memory[j].width, memory[i].height = memory[j].height,
         target.lang # "Vivado",
         SetDevice(i, CopyMemory(target.lang, memory[i], memory[j])),
         UNCHANGED <<target, images, pyramids, accessors>>
  PROVE  /\ MemoryInv'
         /\ PackedCopy(WholeImage(j)) => Arrays' = [Arrays EXCEPT ![i] = Arrays[j]]
  <1>1. PICK m : m = memory[i] /\ Shape(target, m)
    BY MemoryFacts
  <1>2. PICK s : s = memory[j] /\ Shape(target, s)
    BY MemoryFacts
  <1>3. PICK M : M = WithDevice(m, CopyMemory(target.lang, m, s))
    OBVIOUS
  <1>4. PackedCopy(WholeImage(j)) => CopiesAllRows(target, s)
    <2>1. /\ WholeImage(j).img = j /\ WholeImage(j).height = s.height
          /\ WholeImage(j).width = s.width
      BY <1>2, WholeImageFields
    <2> QED
      BY <1>2, <2>1 DEF PackedCopy, CopiesAllRows
  <1>5. /\ Shape(target, M) /\ SameShape(m, M)
        /\ PackedCopy(WholeImage(j)) => RowsOut(M) = RowsOut(s)
    BY <1>1, <1>2, <1>3, <1>4, WholeCopy, MemoryFacts
  <1>6. memory' = [memory EXCEPT ![i] = M]
    BY <1>1, <1>2, <1>3 DEF SetDevice, WithDevice
  <1>7. MemoryInv' /\ Arrays' = [Arrays EXCEPT ![i] = Abs(target, M)]
    BY <1>1, <1>5, <1>6, OneImageChanged
  <1>8. ASSUME PackedCopy(WholeImage(j))
        PROVE  Abs(target, M) = Arrays[j]
    <2>1. Abs(target, M) = Abs(target, s)
      BY <1>1, <1>2, <1>5, <1>8 DEF Abs, SameShape
    <2> QED
      BY <1>2, <2>1, MemoryFacts
  <1> QED
    BY <1>7, <1>8

LEMMA AssignDataRefines ==
  ASSUME MemoryInv, TraversalInv, NEW d \in Operands, NEW n \in ImageNames,
         AssignData(d, n)
  PROVE  /\ MemoryInv'
         /\ PackedCopy(WholeImage(images[n])) => DSL!AssignData(d, n)
  <1>1. PICK i : i = AccessorOf(d).img
    OBVIOUS
  <1>2. PICK j : j = images[n]
    OBVIOUS
  <1>3. /\ d.kind # "accessor" /\ Denotes(d) /\ target.lang # "Vivado"
        /\ j # 0 /\ i # j /\ Copyable(AccessorOf(d), WholeImage(j))
        /\ SetDevice(i, CopyMemory(target.lang, memory[i], memory[j]))
    BY <1>1, <1>2 DEF AssignData
  <1>4. /\ i \in DOMAIN memory /\ AccessorOf(d) = WholeImage(i)
        /\ DSL!Denotes(d) /\ DSL!Region(d) = WholeImage(i)
    BY <1>1, <1>3, OperandRegion DEF RegionIn
  <1>5. j \in DOMAIN memory
    <2>1. j \in 0..Len(memory) /\ Len(memory) \in Nat /\ DOMAIN memory = 1..Len(memory)
      BY <1>2, MemoryFacts DEF MemoryInv, HandlesOK
    <2> QED
      BY <1>3, <2>1
  <1>6. memory[i].width = memory[j].width /\ memory[i].height = memory[j].height
    BY <1>3, <1>4, WholeImageFields DEF Copyable
  <1>7. UNCHANGED <<target, images, pyramids, accessors>>
    BY DEF AssignData, Statement
  <1>8. /\ MemoryInv'
        /\ PackedCopy(WholeImage(j)) => Arrays' = [Arrays EXCEPT ![i] = Arrays[j]]
    BY <1>3, <1>4, <1>5, <1>6, <1>7, WholeCopyRefines
  <1>9. DSL!SameSize(DSL!Region(d), DSL!Whole(j)) /\ DSL!Region(d).img = i
    <2>1. DSL!Whole(j) = WholeImage(j)
      BY <1>5, MemoryFacts DEF DSL!Whole, WholeImage
    <2> QED
      BY <1>4, <1>6, <2>1, WholeImageFields DEF DSL!SameSize
  <1>10. /\ DSL!Statement
         /\ UNCHANGED <<images, pyramids, accessors, hipaccPyramids, calls, read>>
    BY DEF AssignData, Statement, DSL!Statement
  <1> QED
    BY <1>2, <1>3, <1>4, <1>8, <1>9, <1>10 DEF DSL!AssignData

LEMMA DataRefines ==
  ASSUME MemoryInv, NEW n \in ImageNames, Data(n)
  PROVE  MemoryInv' /\ DSL!Data(n)
  <1>1. PICK i : i = images[n]
    OBVIOUS
  <1>2. i # 0 /\ target.lang # "Vivado"
    BY <1>1 DEF Data
  <1>3. i \in DOMAIN memory
    <2>1. i \in 0..Len(memory) /\ Len(memory) \in Nat /\ DOMAIN memory = 1..Len(memory)
      BY <1>1, MemoryFacts DEF MemoryInv, HandlesOK
    <2> QED
      BY <1>2, <2>1
  <1>4. PICK m : m = memory[i] /\ Shape(target, m)
    BY <1>3, MemoryFacts
  <1>5. PICK b : b = ReadMemory(target.lang, m)
    OBVIOUS
  <1>6. b = RowsOut(m)
    BY <1>2, <1>4, <1>5, ReadIsRows, MemoryFacts
  <1>7. PICK M : M = WithHost(m, b)
    OBVIOUS
  <1>8. memory' = [memory EXCEPT ![i] = M] /\ read' = memory'[i].host
    BY <1>1, <1>4, <1>5, <1>7 DEF Data, WithHost
  <1>9. /\ IsImage(M) /\ SameShape(m, M) /\ M.host = b /\ M.device = m.device
    BY <1>4, <1>7, HostUpdate DEF Shape
  <1>10. Shape(target, M)
    <2>1. IsDevice(m, M.device)
      BY <1>4, <1>9 DEF Shape
    <2>2. IsHost(m, M.host)
      BY <1>6, <1>9, Rows
    <2> QED
      BY <1>4, <1>9, <2>1, <2>2, KeepsShape
  <1>11. UNCHANGED <<target, images, pyramids, accessors>>
    BY DEF Data, Statement
  <1>12. MemoryInv' /\ Arrays' = [Arrays EXCEPT ![i] = Abs(target, M)]
    BY <1>3, <1>4, <1>8, <1>9, <1>10, <1>11, OneImageChanged
  <1>13. Abs(target, M) = Abs(target, m) /\ Abs(target, m).pixel = RowsOut(m)
    BY <1>2, <1>9 DEF Abs, SameShape, RowsOut
  <1>14. Arrays[i] = Abs(target, m) /\ i \in DOMAIN Arrays /\ IsSeq(Arrays)
    BY <1>3, <1>4, MemoryFacts
  <1>15. Arrays' = Arrays
    BY <1>12, <1>13, <1>14, SameEntry
  <1>16. read' = Arrays[i].pixel
    BY <1>3, <1>6, <1>8, <1>9, <1>13, <1>14
  <1>17. /\ DSL!Statement
         /\ UNCHANGED <<images, pyramids, accessors, hipaccPyramids, calls>>
    BY DEF Data, Statement, DSL!Statement
  <1> QED
    BY <1>1, <1>2, <1>12, <1>15, <1>16, <1>17 DEF DSL!Data

\* What an assignment makes of the pixels of the image of region r.
Pasted(m, r, n, s) ==
  [k \in Pixels(m) |-> IF Within(m.width, r, k)
                       THEN RowsOut(n)[Source(m.width, r, n.width, s, k)]
                       ELSE RowsOut(m)[k]]

LEMMA AssignedIsPasted ==
  ASSUME MemoryInv, target.lang # "Vivado",
         NEW r, RegionIn(memory, r), NEW s, RegionIn(memory, s)
  PROVE  DSL!Assigned(r, s) =
           [width |-> memory[r.img].width, height |-> memory[r.img].height,
            pixel |-> Pasted(memory[r.img], r, memory[s.img], s)]
  <1>1. PICK m, n : m = memory[r.img] /\ n = memory[s.img]
    OBVIOUS
  <1>2. PICK to : to = Arrays[r.img]
    OBVIOUS
  <1>3. PICK from : from = Arrays[s.img]
    OBVIOUS
  <1>4. to = Abs(target, m) /\ from = Abs(target, n)
    BY <1>1, <1>2, <1>3, MemoryFacts DEF RegionIn
  <1>5. to = [width |-> m.width, height |-> m.height, pixel |-> RowsOut(m)]
    BY <1>4 DEF Abs
  <1>6. from = [width |-> n.width, height |-> n.height, pixel |-> RowsOut(n)]
    BY <1>4 DEF Abs
  <1>7. PICK f : f = Pasted(m, r, n, s)
    OBVIOUS
  <1>8. PICK g : g = [k \in DOMAIN to.pixel |->
           IF /\ (k % to.width) - r.x \in 0 .. r.width - 1
              /\ (k \div to.width) - r.y \in 0 .. r.height - 1
           THEN from.pixel[((k \div to.width) - r.y + s.y) * from.width
                             + ((k % to.width) - r.x + s.x)]
           ELSE to.pixel[k]]
    OBVIOUS
  <1>9. DSL!Assigned(r, s) = [to EXCEPT !.pixel = g]
    BY <1>2, <1>3, <1>8 DEF DSL!Assigned
  <1>10. /\ to.width = m.width /\ to.pixel = RowsOut(m)
         /\ from.width = n.width /\ from.pixel = RowsOut(n)
         /\ DOMAIN RowsOut(m) = Pixels(m)
    BY <1>5, <1>6, Rows DEF IsHost
  <1>11. g = f
    BY <1>7, <1>8, <1>10 DEF Pasted, Within, Source
  <1>12. [to EXCEPT !.pixel = f] = [width |-> m.width, height |-> m.height, pixel |-> f]
    BY <1>5
  <1> QED
    BY <1>1, <1>7, <1>9, <1>11, <1>12

LEMMA PastedWhole ==
  ASSUME NEW t \in Targets, NEW m, Shape(t, m), NEW n, Shape(t, n),
         m.width = n.width, m.height = n.height,
         NEW r, r.x = 0, r.y = 0, r.width = m.width, r.height = m.height,
         NEW s, s.x = 0, s.y = 0
  PROVE  Pasted(m, r, n, s) = RowsOut(n)
  <1>1. PICK w \in Nat \ {0}, h \in Nat \ {0} :
          w = m.width /\ h = m.height /\ w = n.width /\ h = n.height
    BY ShapeFacts
  <1>2. Pixels(m) = Pixels(n)
    BY <1>1 DEF Pixels
  <1>3. ASSUME NEW k \in Pixels(m)
        PROVE  Within(m.width, r, k) /\ Source(m.width, r, n.width, s, k) = k
    <2>1. PICK x \in 0..(w - 1), y \in 0..(h - 1) :
            x = k % w /\ y = k \div w /\ k = (y * w) + x
      BY <1>1, Places
    <2>2. Within(m.width, r, k)
      <3>1. k % m.width = x /\ k \div m.width = y
        BY <1>1, <2>1
      <3>2. /\ x - r.x \in 0..(r.width - 1)
            /\ y - r.y \in 0..(r.height - 1)
        BY <1>1
      <3> QED
        BY <3>1, <3>2 DEF Within
    <2>3. Source(m.width, r, n.width, s, k) = (((y - 0) + 0) * w) + ((x - 0) + 0)
      BY <1>1, <2>1 DEF Source
    <2>4. (y - 0) + 0 = y /\ (x - 0) + 0 = x
      BY <2>1
    <2> QED
      BY <2>1, <2>2, <2>3, <2>4
  <1>4. Pasted(m, r, n, s) = [k \in Pixels(n) |-> RowsOut(n)[k]]
    BY <1>2, <1>3 DEF Pasted
  <1>5. RowsOut(n) = [k \in Pixels(n) |-> RowsOut(n)[k]]
    BY Rows DEF IsHost
  <1> QED
    BY <1>4, <1>5

LEMMA RegionCopies ==
  ASSUME NEW t \in Targets, t.lang # "Vivado", NEW m, NEW r, NEW n, NEW s,
         r.width = s.width, r.height = s.height
  PROVE  CopyMemoryRegion(t.lang, m, r, n, s) =
           CopyRectangle(m, r, n, s, r.width, r.height)
  <1>1. t.lang \in {"C99", "CUDA", "OpenCL", "Renderscript"}
    BY TargetsAreKnown DEF Languages
  <1>2. CASE t.lang = "C99"
    BY <1>2 DEF CopyMemoryRegion, CPUCopyRegion
  <1>3. CASE t.lang = "CUDA"
    BY <1>3 DEF CopyMemoryRegion, CUDACopyRegion
  <1>4. CASE t.lang = "OpenCL"
    BY <1>4 DEF CopyMemoryRegion, OpenCLCopyRegion
  <1>5. CASE t.lang = "Renderscript"
    BY <1>5 DEF CopyMemoryRegion, RenderscriptCopyRegion
  <1> QED
    BY <1>1, <1>2, <1>3, <1>4, <1>5

\* An assignment that is no copy of a padded image by OpenCL.
AllRows(d, s) ==
  "accessor" \in {d.kind, s.kind} \/ PackedCopy(AccessorOf(s))

LEMMA AssignRefines ==
  ASSUME MemoryInv, TraversalInv, NEW d \in Operands, NEW s \in Operands,
         Assign(d, s)
  PROVE  /\ MemoryInv'
         /\ AllRows(d, s) => DSL!Assign(d, s)
  <1>1. PICK to : to = AccessorOf(d)
    OBVIOUS
  <1>2. PICK from : from = AccessorOf(s)
    OBVIOUS
  <1>3. /\ Denotes(d) /\ Denotes(s) /\ target.lang # "Vivado"
        /\ Copyable(to, from)
    BY <1>1, <1>2 DEF Assign
  <1>4. /\ RegionIn(memory, to) /\ DSL!Denotes(d) /\ DSL!Region(d) = to
        /\ d.kind # "accessor" => to = WholeImage(to.img)
    BY <1>1, <1>3, OperandRegion
  <1>5. /\ RegionIn(memory, from) /\ DSL!Denotes(s) /\ DSL!Region(s) = from
        /\ s.kind # "accessor" => from = WholeImage(from.img)
    BY <1>2, <1>3, OperandRegion
  <1>6. PICK i \in DOMAIN memory : i = to.img
    BY <1>4 DEF RegionIn
  <1>7. PICK j \in DOMAIN memory : j = from.img
    BY <1>5 DEF RegionIn
  <1>8. PICK m : m = memory[i] /\ Shape(target, m)
    BY MemoryFacts
  <1>9. PICK n : n = memory[j] /\ Shape(target, n)
    BY MemoryFacts
  <1>10. /\ to.width = from.width /\ to.height = from.height
         /\ DSL!SameSize(to, from) /\ DSL!Disjoint(to, from)
    BY <1>3 DEF Copyable, DSL!SameSize, DSL!Disjoint
  <1>11. UNCHANGED <<target, images, pyramids, accessors>>
    BY DEF Assign, Statement
  <1>12. DSL!Assigned(to, from) =
           [width |-> m.width, height |-> m.height, pixel |-> Pasted(m, to, n, from)]
    BY <1>3, <1>4, <1>5, <1>6, <1>7, <1>8, <1>9, AssignedIsPasted
  <1>13. /\ MemoryInv'
         /\ AllRows(d, s) => Arrays' = [Arrays EXCEPT ![i] = DSL!Assigned(to, from)]
    <2>1. CASE "accessor" \in {d.kind, s.kind}
      <3>1. PICK M : M = WithDevice(m,
                  CopyRectangle(m, to, n, from, to.width, to.height))
        OBVIOUS
      <3>2. CopyMemoryRegion(target.lang, m, to, n, from) =
              CopyRectangle(m, to, n, from, to.width, to.height)
        <4>1. target \in Targets
          BY MemoryFacts
        <4> QED
          BY <1>3, <1>10, <4>1, RegionCopies
      <3>3. SetDevice(i, CopyMemoryRegion(target.lang, m, to, n, from))
        BY <1>1, <1>2, <1>6, <1>7, <1>8, <1>9, <2>1 DEF Assign
      <3>4. memory' = [memory EXCEPT ![i] = M]
        BY <1>8, <3>1, <3>2, <3>3 DEF SetDevice, WithDevice
      <3>5. Inside(m, to) /\ Inside(n, from)
        BY <1>4, <1>5, <1>6, <1>7, <1>8, <1>9 DEF RegionIn
      <3>6. /\ Shape(target, M) /\ SameShape(m, M)
            /\ RowsOut(M) = Pasted(m, to, n, from)
        BY <1>8, <1>9, <1>10, <3>1, <3>5, MemoryFacts, RectangleCopy DEF Pasted
      <3>7. MemoryInv' /\ Arrays' = [Arrays EXCEPT ![i] = Abs(target, M)]
        BY <1>8, <1>11, <3>4, <3>6, OneImageChanged
      <3>8. Abs(target, M) = DSL!Assigned(to, from)
        BY <1>3, <1>12, <3>6 DEF Abs, SameShape
      <3> QED
        BY <3>7, <3>8
    <2>2. CASE "accessor" \notin {d.kind, s.kind}
      <3>1. to = WholeImage(i) /\ from = WholeImage(j)
        BY <1>4, <1>5, <1>6, <1>7, <2>2
      <3>2. SetDevice(i, CopyMemory(target.lang, memory[i], memory[j]))
        BY <1>1, <1>2, <1>6, <1>7, <2>2 DEF Assign
      <3>3. /\ to.x = 0 /\ to.y = 0 /\ to.width = m.width /\ to.height = m.height
            /\ from.x = 0 /\ from.y = 0
            /\ from.width = n.width /\ from.height = n.height
        BY <1>8, <1>9, <3>1, WholeImageFields
      <3>4. m.width = n.width /\ m.height = n.height
        BY <1>10, <3>3
      <3>5. /\ MemoryInv'
            /\ PackedCopy(WholeImage(j)) => Arrays' = [Arrays EXCEPT ![i] = Arrays[j]]
        BY <1>3, <1>8, <1>9, <1>11, <3>2, <3>4, WholeCopyRefines
      <3>6. Pasted(m, to, n, from) = RowsOut(n)
        BY <1>8, <1>9, <3>3, <3>4, MemoryFacts, PastedWhole
      <3>7. Arrays[j] = DSL!Assigned(to, from)
        <4>1. Arrays[j] = Abs(target, n)
          BY <1>9, MemoryFacts
        <4> QED
          BY <1>3, <1>12, <3>4, <3>6, <4>1 DEF Abs
      <3> QED
        BY <1>2, <2>2, <3>1, <3>5, <3>7 DEF AllRows
    <2> QED
      BY <2>1, <2>2
  <1>14. /\ DSL!Statement
         /\ UNCHANGED <<images, pyramids, accessors, hipaccPyramids, calls, read>>
    BY DEF Assign, Statement, DSL!Statement
  <1> QED
    BY <1>4, <1>5, <1>6, <1>10, <1>13, <1>14 DEF DSL!Assign

-----------------------------------------------------------------------------
(* Traversals, of which the DSL sees kinds and repetitions.                *)
AbsCall(c) == [kind |-> c.kind, left |-> c.left]

LEMMA AbsCallsSeq ==
  ASSUME NEW cs, IsSeq(cs)
  PROVE  /\ IsSeq(AbsCalls(cs)) /\ Len(AbsCalls(cs)) = Len(cs)
         /\ DOMAIN AbsCalls(cs) = DOMAIN cs
         /\ \A t \in DOMAIN cs : AbsCalls(cs)[t] = AbsCall(cs[t])
  <1>1. PICK n \in Nat : n = Len(cs) /\ DOMAIN cs = 1..n
    BY SeqFacts
  <1>2. PICK S : S = AbsCalls(cs)
    OBVIOUS
  <1>3. S = [t \in 1..n |-> AbsCall(cs[t])]
    BY <1>1, <1>2 DEF AbsCalls, AbsCall
  <1>4. S = [t \in 1..n |-> S[t]]
    BY <1>3
  <1>5. IsSeq(S) /\ Len(S) = n /\ DOMAIN S = 1..n
    BY <1>4, SeqMade
  <1>6. \A t \in 1..n : S[t] = AbsCall(cs[t])
    BY <1>3
  <1> QED
    BY <1>1, <1>2, <1>5, <1>6

LEMMA AbsCallsAppend ==
  ASSUME NEW cs, IsSeq(cs), NEW c
  PROVE  AbsCalls(Append(cs, c)) = Append(AbsCalls(cs), AbsCall(c))
  <1>1. PICK n \in Nat : n = Len(cs) /\ DOMAIN cs = 1..n
    BY SeqFacts
  <1>2. PICK M : M = Append(cs, c)
    OBVIOUS
  <1>3. /\ IsSeq(M) /\ Len(M) = n + 1 /\ M[n + 1] = c
        /\ \A i \in 1..n : M[i] = cs[i]
    <2>1. Longer(cs, c, M)
      BY <1>2, SeqAppend
    <2> QED
      BY <1>1, <2>1 DEF Longer
  <1>4. DOMAIN M = 1..(n + 1)
    BY <1>3, SeqFacts
  <1>5. PICK A : A = AbsCalls(cs)
    OBVIOUS
  <1>6. IsSeq(A) /\ Len(A) = n /\ \A i \in 1..n : A[i] = AbsCall(cs[i])
    BY <1>1, <1>5, AbsCallsSeq
  <1>7. PICK B : B = Append(A, AbsCall(c))
    OBVIOUS
  <1>8. /\ IsSeq(B) /\ Len(B) = n + 1 /\ B[n + 1] = AbsCall(c)
        /\ \A i \in 1..n : B[i] = A[i]
    <2>1. Longer(A, AbsCall(c), B)
      BY <1>6, <1>7, SeqAppend
    <2> QED
      BY <1>6, <2>1 DEF Longer
  <1>9. PICK C : C = AbsCalls(M)
    OBVIOUS
  <1>10. /\ IsSeq(C) /\ Len(C) = n + 1
         /\ \A i \in 1..(n + 1) : C[i] = AbsCall(M[i])
    BY <1>3, <1>4, <1>9, AbsCallsSeq
  <1>11. \A i \in 1..(n + 1) : C[i] = B[i]
    <2>1. \A i \in 1..(n + 1) : i \in 1..n \/ i = n + 1
      OBVIOUS
    <2> QED
      BY <1>3, <1>6, <1>8, <1>10, <2>1
  <1>12. C = B
    BY <1>8, <1>10, <1>11, EqualSeqs
  <1> QED
    BY <1>2, <1>5, <1>7, <1>9, <1>12

LEMMA SeqFront ==
  ASSUME NEW s, IsSeq(s), s # << >>, NEW n, n = Len(s) - 1
  PROVE  /\ n \in Nat /\ IsSeq(Front(s)) /\ Len(Front(s)) = n
         /\ \A i \in 1..n : Front(s)[i] = s[i]
         /\ Last(s) = s[n + 1]
  <1>1. PICK S : s \in Seq(S)
    BY DEF IsSeq
  <1>2. Len(s) \in Nat /\ Len(s) # 0
    BY <1>1
  <1>3. PICK F : F = SubSeq(s, 1, n)
    OBVIOUS
  <1>4. F = Front(s)
    BY <1>3 DEF Front
  <1>5. F \in Seq(S) /\ Len(F) = n /\ \A i \in 1..n : F[i] = s[i]
    BY <1>1, <1>2, <1>3
  <1> QED
    BY <1>2, <1>4, <1>5 DEF IsSeq, Last

LEMMA AbsCallsFront ==
  ASSUME NEW cs, IsSeq(cs), cs # << >>
  PROVE  /\ AbsCalls(cs) # << >>
         /\ Last(AbsCalls(cs)) = AbsCall(Last(cs))
         /\ Front(AbsCalls(cs)) = AbsCalls(Front(cs))
  <1>1. PICK n : n = Len(cs) - 1
    OBVIOUS
  <1>2. PICK F : F = Front(cs)
    OBVIOUS
  <1>3. /\ n \in Nat /\ IsSeq(F) /\ Len(F) = n
        /\ \A i \in 1..n : F[i] = cs[i]
        /\ Last(cs) = cs[n + 1]
    BY <1>1, <1>2, SeqFront
  <1>4. Len(cs) = n + 1 /\ DOMAIN cs = 1..(n + 1) /\ DOMAIN F = 1..n
    BY <1>1, <1>3, SeqFacts
  <1>5. PICK A : A = AbsCalls(cs)
    OBVIOUS
  <1>6. IsSeq(A) /\ Len(A) = n + 1 /\ \A i \in 1..(n + 1) : A[i] = AbsCall(cs[i])
    BY <1>4, <1>5, AbsCallsSeq
  <1>7. A # << >>
    BY <1>3, <1>6
  <1>8. PICK G : G = Front(A)
    OBVIOUS
  <1>9. /\ IsSeq(G) /\ Len(G) = n /\ \A i \in 1..n : G[i] = A[i]
        /\ Last(A) = A[n + 1]
    <2>1. n = Len(A) - 1
      BY <1>3, <1>6
    <2> QED
      BY <1>6, <1>7, <1>8, <2>1, SeqFront
  <1>10. PICK H : H = AbsCalls(F)
    OBVIOUS
  <1>11. IsSeq(H) /\ Len(H) = n /\ \A i \in 1..n : H[i] = AbsCall(F[i])
    BY <1>3, <1>4, <1>10, AbsCallsSeq
  <1>12. \A i \in 1..n : G[i] = H[i]
    BY <1>3, <1>6, <1>9, <1>11
  <1>13. G = H
    BY <1>9, <1>11, <1>12, EqualSeqs
  <1>14. Last(A) = AbsCall(Last(cs))
    BY <1>3, <1>6, <1>9
  <1> QED
    BY <1>2, <1>5, <1>7, <1>8, <1>10, <1>13, <1>14

LEMMA SameStages ==
  ASSUME NEW P, PyramidOK(P), NEW by
  PROVE  /\ Bind(P).imgs = P.imgs /\ Unbind(P).imgs = P.imgs
         /\ Moved(P, by).imgs = P.imgs
  <1>1. DOMAIN P = {"imgs", "level", "bound"}
    BY DEF PyramidOK
  <1> QED
    BY <1>1 DEF Bind, Unbind, Moved

LEMMA TraversalStep ==
  ASSUME MemoryInv, \A p \in PyramidNames : pyramids'[p].imgs = pyramids[p].imgs,
         UNCHANGED <<target, memory, images, accessors>>
  PROVE  MemoryInv' /\ Arrays' = Arrays
  <1>1. HandlesOK(memory, images, pyramids', accessors)
    BY DEF MemoryInv, HandlesOK, StagesIn
  <1> QED
    BY <1>1, ArraysAreMapped DEF MemoryInv

LEMMA CallsAreSeq ==
  ASSUME TraversalInv
  PROVE  /\ IsSeq(calls) /\ IsSeq(AbsCalls(calls))
         /\ Len(AbsCalls(calls)) = Len(calls) /\ Len(calls) \in Nat
         /\ calls # << >> => /\ hipaccPyramids # << >>
                             /\ Last(calls).pyrs = Last(hipaccPyramids)
  <1>1. calls \in Seq(Call) /\ hipaccPyramids \in Seq(SUBSET PyramidNames)
    BY DEF TraversalInv, ListsOK
  <1>2. IsSeq(calls)
    BY <1>1 DEF IsSeq
  <1>3. ASSUME calls # << >>
        PROVE  hipaccPyramids # << >> /\ Last(calls).pyrs = Last(hipaccPyramids)
    <2>1. Len(calls) \in DOMAIN calls
      BY <1>1, <1>3
    <2>2. Depth(calls, Len(calls)) \in DOMAIN hipaccPyramids
      BY <2>1 DEF TraversalInv, NestedOK
    <2>3. hipaccPyramids # << >>
      BY <1>1, <2>2
    <2>4. calls[Len(calls)].pyrs = Last(hipaccPyramids)
      BY <2>3, InnermostCall
    <2> QED
      BY <2>3, <2>4 DEF Last
  <1> QED
    BY <1>1, <1>2, <1>3, AbsCallsSeq

LEMMA TraverseRefines ==
  ASSUME MemoryInv, TraversalInv, NEW ps \in SUBSET PyramidNames, Traverse(ps)
  PROVE  MemoryInv' /\ DSL!Traverse(ps)
  <1>1. PICK c : c = [kind |-> "traversal", pyrs |-> ps, left |-> 1]
    OBVIOUS
  <1>2. /\ calls' = Append(calls, c)
        /\ pyramids' = [p \in PyramidNames |->
                          IF p \in ps THEN Bind(pyramids[p]) ELSE pyramids[p]]
        /\ hipaccPyramids' = Append(hipaccPyramids, ps)
        /\ UNCHANGED <<target, memory, images, accessors, read, statements>>
    BY <1>1 DEF Traverse
  <1>3. \A p \in PyramidNames : pyramids'[p].imgs = pyramids[p].imgs
    BY <1>2, SameStages DEF TraversalInv, PyramidsOK
  <1>4. MemoryInv' /\ Arrays' = Arrays
    BY <1>2, <1>3, TraversalStep
  <1>5. AbsCalls(calls)' = Append(AbsCalls(calls), [kind |-> "traversal", left |-> 1])
    <2>1. AbsCall(c) = [kind |-> "traversal", left |-> 1]
      BY <1>1 DEF AbsCall
    <2>2. AbsCalls(Append(calls, c)) = Append(AbsCalls(calls), AbsCall(c))
      BY CallsAreSeq, AbsCallsAppend
    <2> QED
      BY <1>2, <2>1, <2>2
  <1>6. Len(AbsCalls(calls)) < MaxCalls
    BY CallsAreSeq DEF Traverse
  <1>7. /\ ps # {}
        /\ \A p \in ps : pyramids[p] # DSL!NoPyramid /\ ~pyramids[p].bound
        /\ \A p, q \in ps : Len(pyramids[p].imgs) = Len(pyramids[q].imgs)
    BY DEF Traverse, NoPyramid, DSL!NoPyramid
  <1>8. pyramids' = [p \in PyramidNames |->
          IF p \in ps THEN [pyramids[p] EXCEPT !.bound = TRUE, !.level = 0]
                      ELSE pyramids[p]]
    BY <1>2 DEF Bind
  <1> QED
    BY <1>2, <1>4, <1>5, <1>6, <1>7, <1>8 DEF DSL!Traverse, AbsCalls

LEMMA MovesAreMoves ==
  ASSUME NEW ps, NEW by
  PROVE  DSL!Move(ps, by) = Move(ps, by)
  BY DEF DSL!Move, Move

LEMMA MovedStages ==
  ASSUME TraversalInv, NEW ps, NEW by, pyramids' = Move(ps, by)
  PROVE  \A p \in PyramidNames : pyramids'[p].imgs = pyramids[p].imgs
  <1>1. \A p \in PyramidNames :
          pyramids'[p] = IF p \in ps THEN Moved(pyramids[p], by) ELSE pyramids[p]
    BY DEF Move, Moved
  <1> QED
    BY <1>1, SameStages DEF TraversalInv, PyramidsOK

LEMMA RecurseRefines ==
  ASSUME MemoryInv, TraversalInv, NEW loop \in 1..MaxLoop, Recurse(loop)
  PROVE  MemoryInv' /\ DSL!Recurse(loop)
  <1>1. PICK ps : ps = Last(hipaccPyramids)
    OBVIOUS
  <1>2. PICK c : c = [kind |-> "recursion", pyrs |-> ps, left |-> loop]
    OBVIOUS
  <1>3. /\ calls' = Append(calls, c) /\ pyramids' = Move(ps, 1)
        /\ \E p \in ps : pyramids[p].level # Len(pyramids[p].imgs) - 1
        /\ hipaccPyramids # << >>
        /\ UNCHANGED <<target, memory, images, accessors, hipaccPyramids, read,
                       statements>>
    BY <1>1, <1>2 DEF Recurse
  <1>4. MemoryInv' /\ Arrays' = Arrays
    BY <1>3, MovedStages, TraversalStep
  <1>5. AbsCalls(calls)' = Append(AbsCalls(calls), [kind |-> "recursion", left |-> loop])
    <2>1. AbsCall(c) = [kind |-> "recursion", left |-> loop]
      BY <1>2 DEF AbsCall
    <2>2. AbsCalls(Append(calls, c)) = Append(AbsCalls(calls), AbsCall(c))
      BY CallsAreSeq, AbsCallsAppend
    <2> QED
      BY <1>3, <2>1, <2>2
  <1>6. Len(AbsCalls(calls)) < MaxCalls
    BY CallsAreSeq DEF Recurse
  <1>7. DSL!Last(hipaccPyramids) = ps
    BY <1>1 DEF DSL!Last, Last
  <1> QED
    BY <1>3, <1>4, <1>5, <1>6, <1>7, MovesAreMoves DEF DSL!Recurse, AbsCalls

LEMMA NextRepetitionRefines ==
  ASSUME MemoryInv, TraversalInv, NextRepetition
  PROVE  MemoryInv' /\ DSL!Return
  <1>1. PICK n : n = Len(calls)
    OBVIOUS
  <1>2. PICK A : A = AbsCalls(calls)
    OBVIOUS
  <1>3. /\ calls # << >> /\ Last(calls).left > 1
        /\ calls' = [calls EXCEPT ![n].left = @ - 1]
        /\ UNCHANGED <<target, memory, images, pyramids, accessors,
                       hipaccPyramids, read, statements>>
    BY <1>1 DEF NextRepetition
  <1>4. MemoryInv' /\ Arrays' = Arrays
    BY <1>3, TraversalStep
  <1>5. IsSeq(calls) /\ IsSeq(A) /\ Len(A) = n /\ n \in Nat
    BY <1>1, <1>2, CallsAreSeq
  <1>6. /\ A # << >> /\ Last(A) = AbsCall(Last(calls)) /\ Last(calls) = calls[n]
        /\ n \in DOMAIN calls
    <2>1. A # << >> /\ Last(A) = AbsCall(Last(calls))
      BY <1>2, <1>3, <1>5, AbsCallsFront
    <2>2. n # 0
      BY <1>5, <2>1, SeqFacts
    <2> QED
      BY <1>1, <1>5, <2>1, <2>2, SeqFacts DEF Last
  <1>7. DSL!Last(A) = AbsCall(calls[n])
    BY <1>6 DEF DSL!Last, Last
  <1>8. PICK c : c = [calls[n] EXCEPT !.left = @ - 1]
    OBVIOUS
  <1>9. c.kind = calls[n].kind /\ c.left = calls[n].left - 1
    <2>1. calls[n] \in Call
      BY <1>6 DEF TraversalInv, ListsOK
    <2> QED
      BY <1>8, <2>1 DEF Call
  <1>10. calls' = [calls EXCEPT ![n] = c]
    BY <1>3, <1>8
  <1>11. AbsCalls(calls)' = [A EXCEPT ![n].left = @ - 1]
    <2>1. PICK D : D = [calls EXCEPT ![n] = c]
      OBVIOUS
    <2>2. /\ DOMAIN D = DOMAIN calls /\ D[n] = c
          /\ \A t \in DOMAIN calls : t # n => D[t] = calls[t]
      BY <1>6, <2>1
    <2>3. /\ A = [t \in DOMAIN calls |-> AbsCall(calls[t])]
          /\ AbsCalls(D) = [t \in DOMAIN calls |-> AbsCall(D[t])]
      BY <1>2, <2>2 DEF AbsCalls, AbsCall
    <2>4. A[n] = AbsCall(calls[n])
      BY <1>6, <2>3
    <2>5. [A[n] EXCEPT !.left = @ - 1] = AbsCall(c)
      BY <1>9, <2>4 DEF AbsCall
    <2>6. [A EXCEPT ![n] = AbsCall(c)] = AbsCalls(D)
      BY <2>2, <2>3
    <2>7. AbsCalls(calls)' = AbsCalls(D)
      BY <1>10, <2>1
    <2> QED
      BY <2>5, <2>6, <2>7
  <1>12. DSL!Last(A).left > 1
    BY <1>3, <1>6, <1>7 DEF AbsCall
  <1> QED
    BY <1>2, <1>3, <1>4, <1>5, <1>6, <1>11, <1>12 DEF DSL!Return, AbsCalls

LEMMA EndRecursionRefines ==
  ASSUME MemoryInv, TraversalInv, EndRecursion
  PROVE  MemoryInv' /\ DSL!Return
  <1>1. PICK A : A = AbsCalls(calls)
    OBVIOUS
  <1>2. /\ calls # << >> /\ Last(calls).kind = "recursion" /\ Last(calls).left = 1
        /\ pyramids' = Move(Last(calls).pyrs, -1) /\ calls' = Front(calls)
        /\ UNCHANGED <<target, memory, images, accessors, hipaccPyramids, read,
                       statements>>
    BY DEF EndRecursion
  <1>3. MemoryInv' /\ Arrays' = Arrays
    BY <1>2, MovedStages, TraversalStep
  <1>4. /\ A # << >> /\ Last(A) = AbsCall(Last(calls))
        /\ Front(A) = AbsCalls(calls)'
    BY <1>1, <1>2, CallsAreSeq, AbsCallsFront
  <1>5. DSL!Last(A).kind = "recursion" /\ DSL!Last(A).left = 1
    BY <1>2, <1>4 DEF DSL!Last, Last, AbsCall
  <1>6. DSL!Front(A) = AbsCalls(calls)'
    BY <1>4 DEF DSL!Front, Front
  <1>7. pyramids' = DSL!Move(DSL!Last(hipaccPyramids), -1)
    <2>1. Last(calls).pyrs = DSL!Last(hipaccPyramids)
      BY <1>2, CallsAreSeq DEF DSL!Last, Last
    <2> QED
      BY <1>2, <2>1, MovesAreMoves
  <1> QED
    BY <1>1, <1>2, <1>3, <1>4, <1>5, <1>6, <1>7 DEF DSL!Return, AbsCalls

LEMMA EndTraversalRefines ==
  ASSUME MemoryInv, TraversalInv, EndTraversal
  PROVE  MemoryInv' /\ DSL!Return
  <1>1. PICK A : A = AbsCalls(calls)
    OBVIOUS
  <1>2. PICK ps : ps = Last(calls).pyrs
    OBVIOUS
  <1>3. /\ calls # << >> /\ Last(calls).kind = "traversal"
        /\ hipaccPyramids' = Front(hipaccPyramids)
        /\ pyramids' = [p \in PyramidNames |->
                          IF p \in ps THEN Unbind(pyramids[p]) ELSE pyramids[p]]
        /\ calls' = Front(calls)
        /\ UNCHANGED <<target, memory, images, accessors, read, statements>>
    BY <1>2 DEF EndTraversal
  <1>4. \A p \in PyramidNames : pyramids'[p].imgs = pyramids[p].imgs
    BY <1>3, SameStages DEF TraversalInv, PyramidsOK
  <1>5. MemoryInv' /\ Arrays' = Arrays
    BY <1>3, <1>4, TraversalStep
  <1>6. /\ A # << >> /\ Last(A) = AbsCall(Last(calls))
        /\ Front(A) = AbsCalls(calls)'
    BY <1>1, <1>3, CallsAreSeq, AbsCallsFront
  <1>7. DSL!Last(A).kind = "traversal"
    BY <1>3, <1>6 DEF DSL!Last, Last, AbsCall
  <1>8. /\ DSL!Front(A) = AbsCalls(calls)'
        /\ DSL!Front(hipaccPyramids) = hipaccPyramids'
    BY <1>3, <1>6 DEF DSL!Front, Front
  <1>9. DSL!Last(hipaccPyramids) = ps
    BY <1>2, <1>3, CallsAreSeq DEF DSL!Last, Last
  <1>10. pyramids' = [p \in PyramidNames |->
           IF p \in ps THEN [pyramids[p] EXCEPT !.bound = FALSE] ELSE pyramids[p]]
    BY <1>3 DEF Unbind
  <1> QED
    BY <1>1, <1>3, <1>5, <1>6, <1>7, <1>8, <1>9, <1>10 DEF DSL!Return, AbsCalls

-----------------------------------------------------------------------------
(* Releases, one image after the other.                                    *)
FoldsUpTo(f, S, base, ids) ==
  f = [s \in SUBSET S |->
         IF s = {} THEN base ELSE ReleaseOne(f[s \ {Max(s)}], ids[Max(s)])]

LEMMA MaxOfRange ==
  ASSUME NEW n \in Nat, NEW s \in SUBSET (1..(n + 1)), n + 1 \in s
  PROVE  Max(s) = n + 1
  <1>1. \A x \in s : n + 1 >= x
    OBVIOUS
  <1>2. \A x \in s : (\A y \in s : x >= y) => x = n + 1
    OBVIOUS
  <1>3. PICK x : x = CHOOSE z \in s : \A y \in s : z >= y
    OBVIOUS
  <1>4. x \in s /\ \A y \in s : x >= y
    BY <1>1, <1>3
  <1>5. x = n + 1
    BY <1>2, <1>4
  <1> QED
    BY <1>3, <1>5 DEF Max

LEMMA FoldsExist ==
  ASSUME NEW N \in Nat, NEW base, NEW ids
  PROVE  \E f : FoldsUpTo(f, 1..N, base, ids)
  <1> DEFINE S == {n \in Nat : \E f : FoldsUpTo(f, 1..n, base, ids)}
  <1>1. 0 \in S
    <2>1. PICK f : f = [s \in SUBSET (1..0) |-> base]
      OBVIOUS
    <2>2. \A s \in SUBSET (1..0) : s = {}
      OBVIOUS
    <2>3. FoldsUpTo(f, 1..0, base, ids)
      BY <2>1, <2>2 DEF FoldsUpTo
    <2> QED
      BY <2>3
  <1>2. ASSUME NEW n \in Nat, n \in S
        PROVE  n + 1 \in S
    <2>1. PICK f : FoldsUpTo(f, 1..n, base, ids)
      BY <1>2
    <2>2. PICK g : g = [s \in SUBSET (1..(n + 1)) |->
                          IF n + 1 \in s
                          THEN ReleaseOne(f[s \ {n + 1}], ids[n + 1]) ELSE f[s]]
      OBVIOUS
    <2>3. \A s \in SUBSET (1..n) :
            f[s] = IF s = {} THEN base ELSE ReleaseOne(f[s \ {Max(s)}], ids[Max(s)])
      BY <2>1 DEF FoldsUpTo
    <2>4. \A s \in SUBSET (1..n) : s \in SUBSET (1..(n + 1)) /\ n + 1 \notin s
      OBVIOUS
    <2>5. \A s \in SUBSET (1..n) : g[s] = f[s]
      BY <2>2, <2>4
    <2>6. ASSUME NEW s \in SUBSET (1..(n + 1))
          PROVE  g[s] = IF s = {} THEN base
                        ELSE ReleaseOne(g[s \ {Max(s)}], ids[Max(s)])
      <3>1. CASE n + 1 \in s
        <4>1. Max(s) = n + 1
          BY <3>1, MaxOfRange
        <4>2. s \ {n + 1} \in SUBSET (1..n)
          OBVIOUS
        <4>3. g[s] = ReleaseOne(f[s \ {n + 1}], ids[n + 1])
          BY <2>2, <3>1
        <4>4. g[s \ {n + 1}] = f[s \ {n + 1}]
          BY <2>5, <4>2
        <4> QED
          BY <3>1, <4>1, <4>3, <4>4
      <3>2. CASE n + 1 \notin s
        <4>1. s \in SUBSET (1..n)
          BY <3>2
        <4>2. s \ {Max(s)} \in SUBSET (1..n)
          BY <4>1
        <4>3. g[s] = f[s] /\ g[s \ {Max(s)}] = f[s \ {Max(s)}]
          BY <2>5, <4>1, <4>2
        <4> QED
          BY <2>3, <4>1, <4>3
      <3> QED
        BY <3>1, <3>2
    <2>7. g = [s \in SUBSET (1..(n + 1)) |-> g[s]]
      BY <2>2
    <2>8. FoldsUpTo(g, 1..(n + 1), base, ids)
      BY <2>6, <2>7 DEF FoldsUpTo
    <2> QED
      BY <2>8
  <1>3. Nat \subseteq S
    <2> HIDE DEF S
    <2> QED
      BY <1>1, <1>2, InductionOnNat
  <1> QED
    BY <1>3

\* The states between the releases.
ReleaseSteps(R, mem, ctx, ids) ==
  /\ R[0] = [mem |-> mem, ctx |-> ctx]
  /\ \A k \in 1..Len(ids) : R[k] = ReleaseOne(R[k - 1], ids[k])
  /\ R[Len(ids)] = Release(mem, ctx, ids)

LEMMA ReleaseIsSteps ==
  ASSUME NEW mem, NEW ctx, NEW ids, IsSeq(ids)
  PROVE  \E R : ReleaseSteps(R, mem, ctx, ids)
  <1>1. PICK n \in Nat : n = Len(ids) /\ DOMAIN ids = 1..n
    BY SeqFacts
  <1>2. PICK base : base = [mem |-> mem, ctx |-> ctx]
    OBVIOUS
  <1>3. PICK f : f = CHOOSE g : FoldsUpTo(g, DOMAIN ids, base, ids)
    OBVIOUS
  <1>4. FoldsUpTo(f, 1..n, base, ids)
    BY <1>1, <1>3, FoldsExist
  <1>5. Release(mem, ctx, ids) = f[1..n]
    <2>1. Release(mem, ctx, ids) = f[DOMAIN ids]
      BY <1>2, <1>3 DEF Release, FoldLeft, MapThenFoldSet, FoldsUpTo
    <2> QED
      BY <1>1, <2>1
  <1>6. \A s \in SUBSET (1..n) :
          f[s] = IF s = {} THEN base ELSE ReleaseOne(f[s \ {Max(s)}], ids[Max(s)])
    BY <1>4 DEF FoldsUpTo
  <1>7. PICK R : R = [k \in 0..n |-> f[1..k]]
    OBVIOUS
  <1>8. R[0] = base
    <2>1. PICK s : s = 1..0
      OBVIOUS
    <2>2. s = {} /\ s \in SUBSET (1..n)
      BY <2>1
    <2>3. f[s] = base
      BY <1>6, <2>2
    <2>4. R[0] = f[s]
      BY <1>7, <2>1
    <2> QED
      BY <2>3, <2>4
  <1>9. ASSUME NEW k \in 1..n
        PROVE  R[k] = ReleaseOne(R[k - 1], ids[k])
    <2>1. PICK l \in Nat : l = k - 1
      OBVIOUS
    <2>2. PICK s : s = 1..k
      OBVIOUS
    <2>3. s \in SUBSET (1..(l + 1)) /\ l + 1 \in s /\ l + 1 = k
      BY <2>1, <2>2
    <2>4. Max(s) = k
      BY <2>3, MaxOfRange
    <2>5. s \ {k} = 1..l /\ s # {} /\ s \in SUBSET (1..n)
      BY <2>1, <2>2
    <2>6. f[s] = ReleaseOne(f[1..l], ids[k])
      BY <1>6, <2>4, <2>5
    <2> QED
      BY <1>7, <2>1, <2>2, <2>6
  <1>10. R[n] = Release(mem, ctx, ids)
    BY <1>5, <1>7
  <1>11. ReleaseSteps(R, mem, ctx, ids)
    BY <1>1, <1>2, <1>8, <1>9, <1>10 DEF ReleaseSteps
  <1> QED
    BY <1>11

\* A later memory with the same images and pixels.
Kept(mem, M) ==
  /\ IsSeq(M) /\ DOMAIN M = DOMAIN mem
  /\ \A i \in DOMAIN mem : /\ IsImage(M[i]) /\ SameShape(mem[i], M[i])
                           /\ SamePixels(mem[i], M[i])

FreedAt(M, i)      == [M EXCEPT ![i] = WithFreed(M[i])]
DroppedAt(M, i, n) == [M EXCEPT ![i] = Dropped(M[i], n)]

LEMMA FreedKeeps ==
  ASSUME NEW mem, NEW M, Kept(mem, M), NEW i
  PROVE  Kept(mem, FreedAt(M, i))
  <1>1. CASE i \in DOMAIN M
    <2>1. PICK m : m = M[i] /\ IsImage(m) /\ SameShape(mem[i], m) /\ SamePixels(mem[i], m)
      BY <1>1 DEF Kept
    <2>2. PICK e : e = WithFreed(m)
      OBVIOUS
    <2>3. IsImage(e) /\ SameShape(m, e) /\ SamePixels(m, e)
      BY <2>1, <2>2, FreedUpdate
    <2>4. SameShape(mem[i], e) /\ SamePixels(mem[i], e)
      BY <2>1, <2>3 DEF SameShape, SamePixels
    <2>5. PICK N : N = [M EXCEPT ![i] = e]
      OBVIOUS
    <2>6. /\ IsSeq(N) /\ DOMAIN N = DOMAIN M /\ N[i] = e
          /\ \A j \in DOMAIN M : j # i => N[j] = M[j]
      <3>1. IsSeq(N)
        BY <1>1, <2>5, SeqUpdate DEF Kept
      <3> QED
        BY <1>1, <2>5, <3>1
    <2>7. Kept(mem, N)
      BY <2>3, <2>4, <2>6 DEF Kept
    <2> QED
      BY <2>1, <2>2, <2>5, <2>7 DEF FreedAt
  <1>2. CASE i \notin DOMAIN M
    <2>1. [M EXCEPT ![i] = WithFreed(M[i])] = M
      <3>1. IsSeq(M)
        BY DEF Kept
      <3>2. M = [j \in 1..Len(M) |-> M[j]]
        BY <3>1, SeqFacts
      <3>3. M = [j \in DOMAIN M |-> M[j]]
        BY <3>2
      <3> QED
        BY <1>2, <3>3
    <2> QED
      BY <2>1 DEF FreedAt
  <1> QED
    BY <1>1, <1>2

LEMMA DroppedKeeps ==
  ASSUME NEW mem, NEW M, Kept(mem, M), NEW i, NEW n
  PROVE  Kept(mem, DroppedAt(M, i, n))
  <1>1. CASE i \in DOMAIN M
    <2>1. PICK m : m = M[i] /\ IsImage(m) /\ SameShape(mem[i], m) /\ SamePixels(mem[i], m)
      BY <1>1 DEF Kept
    <2>2. PICK e : e = Dropped(m, n)
      OBVIOUS
    <2>3. IsImage(e) /\ SameShape(m, e) /\ SamePixels(m, e)
      BY <2>1, <2>2, DroppedUpdate
    <2>4. SameShape(mem[i], e) /\ SamePixels(mem[i], e)
      BY <2>1, <2>3 DEF SameShape, SamePixels
    <2>5. PICK N : N = [M EXCEPT ![i] = e]
      OBVIOUS
    <2>6. /\ IsSeq(N) /\ DOMAIN N = DOMAIN M /\ N[i] = e
          /\ \A j \in DOMAIN M : j # i => N[j] = M[j]
      <3>1. IsSeq(N)
        BY <1>1, <2>5, SeqUpdate DEF Kept
      <3> QED
        BY <1>1, <2>5, <3>1
    <2>7. Kept(mem, N)
      BY <2>3, <2>4, <2>6 DEF Kept
    <2> QED
      BY <2>1, <2>2, <2>5, <2>7 DEF DroppedAt
  <1>2. CASE i \notin DOMAIN M
    <2>1. [M EXCEPT ![i] = Dropped(M[i], n)] = M
      <3>1. IsSeq(M)
        BY DEF Kept
      <3>2. M = [j \in 1..Len(M) |-> M[j]]
        BY <3>1, SeqFacts
      <3>3. M = [j \in DOMAIN M |-> M[j]]
        BY <3>2
      <3> QED
        BY <1>2, <3>3
    <2> QED
      BY <2>1 DEF DroppedAt
  <1> QED
    BY <1>1, <1>2

\* The entry of the context that del_image finds for image i, and the handles
\* of the context on one image.
Listed(s, i)   == \E k \in DOMAIN s.ctx.imgs : SameImage(s.ctx.imgs[k], i)
EntryOf(s, i)  == s.ctx.imgs[FirstSame(s.ctx.imgs, i)]
ContextHandles == IF target.lang = "Renderscript" THEN 2 ELSE 1
Unlisted(ctx, i) ==
  [imgs   |-> Without(ctx.imgs, i),
   allocs |-> IF target.lang = "Renderscript" THEN Without(ctx.allocs, i) ELSE << >>]

IsState(s) == DOMAIN s = {"mem", "ctx"}

Stepped(s, i, S) ==
  /\ IsState(S)
  /\ ~Listed(s, i) => S.mem = FreedAt(s.mem, i) /\ S.ctx = s.ctx
  /\ Listed(s, i) =>
       /\ S.mem = DroppedAt(FreedAt(s.mem, i), EntryOf(s, i), ContextHandles)
       /\ S.ctx = Unlisted(s.ctx, i)

LEMMA ReleaseOneStep ==
  ASSUME NEW s, IsState(s), NEW i
  PROVE  Stepped(s, i, ReleaseOne(s, i))
  <1>1. PICK S : S = ReleaseOne(s, i)
    OBVIOUS
  <1>2. PICK F : F = [s.mem EXCEPT ![i].freed = @ + 1]
    OBVIOUS
  <1>3. F = FreedAt(s.mem, i)
    BY <1>2 DEF FreedAt, WithFreed
  <1>4. CASE ~Listed(s, i)
    <2>1. S = [s EXCEPT !.mem = F]
      BY <1>1, <1>2, <1>4 DEF ReleaseOne, Listed
    <2>2. IsState(S) /\ S.mem = F /\ S.ctx = s.ctx
      BY <2>1 DEF IsState
    <2> QED
      BY <1>1, <1>3, <1>4, <2>2 DEF Stepped
  <1>5. CASE Listed(s, i)
    <2>1. PICK j : j = EntryOf(s, i)
      OBVIOUS
    <2>2. PICK D : D = [F EXCEPT ![j] = Dropped(@, ContextHandles)]
      OBVIOUS
    <2>3. S = [mem |-> D, ctx |-> Unlisted(s.ctx, i)]
      BY <1>1, <1>2, <1>5, <2>1, <2>2
         DEF ReleaseOne, Listed, EntryOf, ContextHandles, Unlisted
    <2>4. D = DroppedAt(F, j, ContextHandles)
      BY <2>2 DEF DroppedAt
    <2>5. IsState(S) /\ S.mem = D /\ S.ctx = Unlisted(s.ctx, i)
      BY <2>3 DEF IsState
    <2> QED
      BY <1>1, <1>3, <1>5, <2>1, <2>4, <2>5 DEF Stepped
  <1> QED
    BY <1>4, <1>5

LEMMA ReleaseKeeps ==
  ASSUME NEW mem, Kept(mem, mem), NEW ctx, NEW ids, IsSeq(ids)
  PROVE  Kept(mem, Release(mem, ctx, ids).mem)
  <1>1. PICK R : ReleaseSteps(R, mem, ctx, ids)
    BY ReleaseIsSteps
  <1>2. PICK n \in Nat : n = Len(ids)
    BY SeqFacts
  <1> DEFINE S == {k \in Nat : k \in 0..n => IsState(R[k]) /\ Kept(mem, R[k].mem)}
  <1>3. 0 \in S
    <2>1. R[0] = [mem |-> mem, ctx |-> ctx]
      BY <1>1 DEF ReleaseSteps
    <2>2. IsState(R[0]) /\ R[0].mem = mem
      BY <2>1 DEF IsState
    <2> QED
      BY <2>2
  <1>4. ASSUME NEW k \in Nat, k \in S
        PROVE  k + 1 \in S
    <2>1. CASE k + 1 \in 0..n
      <3>1. k \in 0..n /\ k + 1 \in 1..n /\ (k + 1) - 1 = k
        BY <2>1
      <3>2. IsState(R[k]) /\ Kept(mem, R[k].mem)
        BY <1>4, <3>1
      <3>3. PICK i : i = ids[k + 1]
        OBVIOUS
      <3>4. R[k + 1] = ReleaseOne(R[k], i)
        BY <1>1, <1>2, <3>1, <3>3 DEF ReleaseSteps
      <3>5. Stepped(R[k], i, R[k + 1])
        BY <3>2, <3>4, ReleaseOneStep
      <3>6. Kept(mem, FreedAt(R[k].mem, i))
        BY <3>2, FreedKeeps
      <3>7. Kept(mem, DroppedAt(FreedAt(R[k].mem, i), EntryOf(R[k], i), ContextHandles))
        BY <3>6, DroppedKeeps
      <3> QED
        BY <3>5, <3>6, <3>7 DEF Stepped
    <2>2. CASE k + 1 \notin 0..n
      BY <2>2
    <2> QED
      BY <2>1, <2>2
  <1>5. Nat \subseteq S
    <2> HIDE DEF S
    <2> QED
      BY <1>3, <1>4, InductionOnNat
  <1>6. Kept(mem, R[n].mem)
    BY <1>5
  <1> QED
    BY <1>1, <1>2, <1>6 DEF ReleaseSteps

LEMMA KeptStep ==
  ASSUME MemoryInv, NEW N, Kept(memory, N), memory' = N,
         UNCHANGED <<target, images, pyramids, accessors>>
  PROVE  MemoryInv' /\ Arrays' = Arrays
  <1>1. IsSeq(N) /\ DOMAIN N = DOMAIN memory /\ Len(N) = Len(memory)
    <2>1. IsSeq(N) /\ DOMAIN N = DOMAIN memory
      BY DEF Kept
    <2>2. /\ Len(N) \in Nat /\ DOMAIN N = 1..Len(N)
          /\ Len(memory) \in Nat /\ DOMAIN memory = 1..Len(memory)
      BY <2>1, SeqFacts, MemoryFacts
    <2>3. PICK a \in Nat, b \in Nat : a = Len(N) /\ b = Len(memory)
      BY <2>2
    <2>4. 1..a = 1..b
      BY <2>1, <2>2, <2>3
    <2>5. a <= b
      <3>1. a \in 1..a \/ a = 0
        OBVIOUS
      <3> QED
        BY <2>4, <3>1
    <2>6. b <= a
      <3>1. b \in 1..b \/ b = 0
        OBVIOUS
      <3> QED
        BY <2>4, <3>1
    <2> QED
      BY <2>1, <2>3, <2>5, <2>6
  <1>2. \A i \in DOMAIN memory : /\ Shape(target, N[i])
                                 /\ Abs(target, N[i]) = Abs(target, memory[i])
    BY MemoryFacts, SamePixelsSameAbs DEF Kept
  <1>3. ImagesOK(target, N)
    BY <1>1, <1>2 DEF ImagesOK
  <1>4. HandlesOK(N, images, pyramids, accessors)
    <2>1. Grown(memory, N)
      BY <1>1, MemoryFacts DEF Grown, Kept
    <2> QED
      BY <2>1, GrownKeepsHandles DEF MemoryInv
  <1>5. MemoryInv'
    BY <1>3, <1>4 DEF MemoryInv
  <1>6. Mapped(target, N) = Mapped(target, memory)
    BY <1>1, <1>2, MappedSame
  <1> QED
    BY <1>5, <1>6, ArraysAreMapped

LEMMA MemoryIsKept ==
  ASSUME MemoryInv
  PROVE  Kept(memory, memory)
  BY MemoryFacts DEF Kept, Shape, SameShape, SamePixels

DslUnchanged ==
  UNCHANGED <<Arrays, images, pyramids, accessors, hipaccPyramids,
              AbsCalls(calls), read, statements>>

LEMMA ReleaseVariableRefines ==
  ASSUME MemoryInv, NEW v, NEW ids, IsSeq(ids), ReleaseVariable(v, ids)
  PROVE  MemoryInv' /\ DslUnchanged
  <1>1. PICK K : K = Release(memory, context, ids).mem
    OBVIOUS
  <1>2. Kept(memory, K)
    BY <1>1, MemoryIsKept, ReleaseKeeps
  <1>3. PICK N : N = [i \in DOMAIN memory |->
                        IF i \in ToSet(ids) THEN Dropped(K[i], 1) ELSE K[i]]
    OBVIOUS
  <1>4. Kept(memory, N)
    <2>1. IsSeq(N) /\ DOMAIN N = DOMAIN memory
      <3>1. N = [i \in 1..Len(memory) |-> N[i]] /\ Len(memory) \in Nat
        BY <1>3, MemoryFacts
      <3> QED
        BY <1>3, <3>1, SeqMade
    <2>2. ASSUME NEW i \in DOMAIN memory
          PROVE  /\ IsImage(N[i]) /\ SameShape(memory[i], N[i])
                 /\ SamePixels(memory[i], N[i])
      <3>1. PICK k : /\ k = K[i] /\ IsImage(k) /\ SameShape(memory[i], k)
                     /\ SamePixels(memory[i], k)
        BY <1>2 DEF Kept
      <3>2. PICK e : e = Dropped(k, 1)
        OBVIOUS
      <3>3. IsImage(e) /\ SameShape(k, e) /\ SamePixels(k, e)
        BY <3>1, <3>2, DroppedUpdate
      <3>4. SameShape(memory[i], e) /\ SamePixels(memory[i], e)
        BY <3>1, <3>3 DEF SameShape, SamePixels
      <3>5. N[i] = k \/ N[i] = e
        BY <1>3, <3>1, <3>2
      <3> QED
        BY <3>1, <3>3, <3>4, <3>5
    <2> QED
      BY <2>1, <2>2 DEF Kept
  <1>5. memory' = K \/ memory' = N
    BY <1>1, <1>3 DEF ReleaseVariable
  <1>6. UNCHANGED <<target, images, pyramids, accessors, hipaccPyramids, calls,
                    read, statements>>
    BY DEF ReleaseVariable
  <1>7. MemoryInv' /\ Arrays' = Arrays
    <2>1. CASE memory' = K
      BY <1>2, <1>6, <2>1, KeptStep
    <2>2. CASE memory' = N
      BY <1>4, <1>6, <2>2, KeptStep
    <2> QED
      BY <1>5, <2>1, <2>2
  <1> QED
    BY <1>6, <1>7 DEF DslUnchanged, AbsCalls

LEMMA ReversedStages ==
  ASSUME NEW s, IsSeq(s), s # << >>, NEW n, n = Len(s) - 1
  PROVE  /\ n \in Nat
         /\ IsSeq(Reverse(Tail(s))) /\ Len(Reverse(Tail(s))) = n
         /\ \A k \in 1..n : Reverse(Tail(s))[k] = s[n + 2 - k]
  <1>1. PICK S : s \in Seq(S)
    BY DEF IsSeq
  <1>2. Len(s) \in Nat /\ Len(s) # 0
    BY <1>1
  <1>3. PICK u : u = Tail(s)
    OBVIOUS
  <1>4. u \in Seq(S) /\ Len(u) = n /\ n \in Nat /\ \A k \in 1..n : u[k] = s[k + 1]
    BY <1>1, <1>2, <1>3
  <1>5. PICK r : r = Reverse(u)
    OBVIOUS
  <1>6. r = [k \in 1..n |-> u[(n - k) + 1]]
    BY <1>4, <1>5 DEF Reverse
  <1>7. r = [k \in 1..n |-> r[k]]
    BY <1>6
  <1>8. IsSeq(r) /\ Len(r) = n
    BY <1>4, <1>7, SeqMade
  <1>9. ASSUME NEW k \in 1..n
        PROVE  r[k] = s[n + 2 - k]
    <2>1. (n - k) + 1 \in 1..n /\ ((n - k) + 1) + 1 = n + 2 - k
      BY <1>4
    <2>2. r[k] = u[(n - k) + 1]
      BY <1>6
    <2> QED
      BY <1>4, <2>1, <2>2
  <1> QED
    BY <1>3, <1>4, <1>5, <1>8, <1>9

LEMMA ReleaseImageRefines ==
  ASSUME MemoryInv, NEW n \in ImageNames, ReleaseImage(n)
  PROVE  MemoryInv' /\ DslUnchanged
  <1>1. PICK ids : ids = <<images[n]>>
    OBVIOUS
  <1>2. IsSeq(ids)
    <2>1. ids \in Seq({images[n]})
      BY <1>1
    <2> QED
      BY <2>1 DEF IsSeq
  <1> QED
    BY <1>1, <1>2, ReleaseVariableRefines DEF ReleaseImage

LEMMA DeclaredPyramid ==
  ASSUME MemoryInv, TraversalInv, NEW p \in PyramidNames, p \in Declared
  PROVE  IsSeq(pyramids[p].imgs) /\ pyramids[p].imgs # << >>
  <1>1. pyramids[p] # NoPyramid
    BY NamesDiffer DEF Declared
  <1>2. PyramidOK(pyramids[p]) /\ IsSeq(pyramids[p].imgs)
    BY DEF TraversalInv, PyramidsOK, MemoryInv, HandlesOK, StagesIn
  <1>3. Len(pyramids[p].imgs) > 0 /\ Len(pyramids[p].imgs) \in Nat
    BY <1>1, <1>2 DEF PyramidOK
  <1> QED
    BY <1>2, <1>3

LEMMA ReleasePyramidRefines ==
  ASSUME MemoryInv, TraversalInv, NEW p \in PyramidNames, ReleasePyramid(p)
  PROVE  MemoryInv' /\ DslUnchanged
  <1>1. PICK ids : ids = Reverse(Tail(pyramids[p].imgs))
    OBVIOUS
  <1>2. p \in Declared /\ ReleaseVariable(p, ids)
    BY <1>1 DEF ReleasePyramid, ReleaseVariable
  <1>3. IsSeq(ids)
    BY <1>1, <1>2, DeclaredPyramid, ReversedStages
  <1> QED
    BY <1>2, <1>3, ReleaseVariableRefines

LEMMA LeaveMainRefines ==
  ASSUME MemoryInv, LeaveMain
  PROVE  MemoryInv' /\ DslUnchanged
  <1>1. PICK N : N = [i \in DOMAIN memory |-> Dropped(memory[i], Held(i))]
    OBVIOUS
  <1>2. Kept(memory, N)
    <2>1. IsSeq(N) /\ DOMAIN N = DOMAIN memory
      <3>1. N = [i \in 1..Len(memory) |-> N[i]] /\ Len(memory) \in Nat
        BY <1>1, MemoryFacts
      <3> QED
        BY <1>1, <3>1, SeqMade
    <2>2. ASSUME NEW i \in DOMAIN memory
          PROVE  /\ IsImage(N[i]) /\ SameShape(memory[i], N[i])
                 /\ SamePixels(memory[i], N[i])
      <3>1. IsImage(memory[i])
        BY MemoryFacts DEF Shape
      <3>2. N[i] = Dropped(memory[i], Held(i))
        BY <1>1
      <3> QED
        BY <3>1, <3>2, DroppedUpdate
    <2> QED
      BY <2>1, <2>2 DEF Kept
  <1>3. memory' = N
    BY <1>1 DEF LeaveMain
  <1>4. UNCHANGED <<target, images, pyramids, accessors, hipaccPyramids, calls,
                    read, statements>>
    BY DEF LeaveMain
  <1>5. MemoryInv' /\ Arrays' = Arrays
    BY <1>2, <1>3, <1>4, KeptStep
  <1> QED
    BY <1>4, <1>5 DEF DslUnchanged, AbsCalls

LEMMA InitRefines ==
  ASSUME Init
  PROVE  MemoryInv /\ DSL!Init
  <1>1. /\ target \in Targets /\ memory = << >>
        /\ images = [n \in ImageNames |-> 0]
        /\ pyramids = [p \in PyramidNames |-> NoPyramid]
        /\ accessors = [c \in AccessorNames |-> NoAccessor]
        /\ hipaccPyramids = << >> /\ calls = << >> /\ read = << >>
        /\ statements = 0
    BY DEF Init
  <1>2. IsSeq(<< >>)
    <2>1. << >> \in Seq({})
      OBVIOUS
    <2> QED
      BY <2>1 DEF IsSeq
  <1>3. ImagesOK(target, memory)
    BY <1>1, <1>2 DEF ImagesOK
  <1>4. HandlesOK(memory, images, pyramids, accessors)
    <2>1. \A p \in PyramidNames : pyramids[p].imgs = << >>
      BY <1>1 DEF NoPyramid
    <2>2. \A p \in PyramidNames : StagesIn(memory, pyramids[p])
      BY <1>2, <2>1 DEF StagesIn
    <2>3. images \in [ImageNames -> 0..Len(memory)]
      BY <1>1
    <2> QED
      BY <1>1, <2>2, <2>3 DEF HandlesOK
  <1>5. MemoryInv
    BY <1>1, <1>3, <1>4 DEF MemoryInv
  <1>6. Arrays = << >>
    <2>1. IsSeq(Arrays) /\ Len(Arrays) = 0
      BY <1>1, <1>5, MemoryFacts
    <2> QED
      BY <2>1 DEF IsSeq
  <1>7. AbsCalls(calls) = << >>
    <2>1. IsSeq(AbsCalls(calls)) /\ Len(AbsCalls(calls)) = 0
      BY <1>1, <1>2, AbsCallsSeq
    <2> QED
      BY <2>1 DEF IsSeq
  <1> QED
    BY <1>1, <1>5, <1>6, <1>7
       DEF DSL!Init, AbsCalls, NoPyramid, DSL!NoPyramid, NoAccessor, DSL!NoAccessor

(* Every step of the program is one of the DSL, or none, or a copy of a    *)
(* padded image by OpenCL.                                                 *)
LEMMA NextRefines ==
  ASSUME MemoryInv, TraversalInv, [Next]_vars
  PROVE  MemoryInv' /\ [DSL!Next \/ CopiesPadded]_DSL!dslVars
  <1>1. ASSUME NEW n \in ImageNames, NEW size \in Sizes,
               NEW a \in {0} \union HostArrays, DeclareImage(n, size, a)
        PROVE  MemoryInv' /\ DSL!Next
    BY <1>1, DeclareImageRefines DEF DSL!Next
  <1>2. ASSUME NEW p \in PyramidNames, NEW n \in ImageNames, NEW depth \in Depths,
               DeclarePyramid(p, n, depth)
        PROVE  MemoryInv' /\ DSL!Next
    BY <1>2, DeclarePyramidRefines DEF DSL!Next
  <1>3. ASSUME NEW c \in AccessorNames, NEW o \in Operands, NEW r \in Regions,
               DeclareAccessor(c, o, r)
        PROVE  MemoryInv' /\ DSL!Next
    BY <1>3, DeclareAccessorRefines DEF DSL!Next, DSL!Operands, Operands
  <1>4. ASSUME NEW d \in Operands, NEW s \in Operands, Assign(d, s)
        PROVE  MemoryInv' /\ (DSL!Next \/ CopiesPadded)
    <2>1. MemoryInv' /\ (AllRows(d, s) => DSL!Assign(d, s))
      BY <1>4, AssignRefines
    <2>2. CASE AllRows(d, s)
      BY <2>1, <2>2 DEF DSL!Next, DSL!Operands, Operands
    <2>3. CASE ~AllRows(d, s)
      BY <1>4, <2>1, <2>3 DEF AllRows, CopiesPadded
    <2> QED
      BY <2>2, <2>3
  <1>5. ASSUME NEW d \in Operands, NEW n \in ImageNames, AssignData(d, n)
        PROVE  MemoryInv' /\ (DSL!Next \/ CopiesPadded)
    <2>1. MemoryInv' /\ (PackedCopy(WholeImage(images[n])) => DSL!AssignData(d, n))
      BY <1>5, AssignDataRefines
    <2>2. CASE PackedCopy(WholeImage(images[n]))
      BY <2>1, <2>2 DEF DSL!Next, DSL!Operands, Operands
    <2>3. CASE ~PackedCopy(WholeImage(images[n]))
      BY <1>5, <2>1, <2>3 DEF CopiesPadded
    <2> QED
      BY <2>2, <2>3
  <1>6. ASSUME NEW d \in Operands, NEW a \in HostArrays, AssignArray(d, a)
        PROVE  MemoryInv' /\ DSL!Next
    BY <1>6, AssignArrayRefines DEF DSL!Next, DSL!Operands, Operands
  <1>7. ASSUME NEW n \in ImageNames, Data(n)
        PROVE  MemoryInv' /\ DSL!Next
    BY <1>7, DataRefines DEF DSL!Next
  <1>8. ASSUME NEW ps \in SUBSET PyramidNames, Traverse(ps)
        PROVE  MemoryInv' /\ DSL!Next
    BY <1>8, TraverseRefines DEF DSL!Next
  <1>9. ASSUME NEW loop \in 1..MaxLoop, Recurse(loop)
        PROVE  MemoryInv' /\ DSL!Next
    BY <1>9, RecurseRefines DEF DSL!Next
  <1>10. CASE NextRepetition \/ EndRecursion \/ EndTraversal
    BY <1>10, NextRepetitionRefines, EndRecursionRefines, EndTraversalRefines
       DEF DSL!Next
  <1>11. ASSUME DslUnchanged
         PROVE  UNCHANGED DSL!dslVars
    BY <1>11 DEF DslUnchanged, DSL!dslVars, AbsCalls
  <1>12. ASSUME NEW n \in ImageNames, ReleaseImage(n)
         PROVE  MemoryInv' /\ UNCHANGED DSL!dslVars
    BY <1>11, <1>12, ReleaseImageRefines
  <1>13. ASSUME NEW p \in PyramidNames, ReleasePyramid(p)
         PROVE  MemoryInv' /\ UNCHANGED DSL!dslVars
    BY <1>11, <1>13, ReleasePyramidRefines
  <1>14. CASE LeaveMain
    BY <1>11, <1>14, LeaveMainRefines
  <1>15. CASE UNCHANGED vars
    <2>1. MemoryInv'
      BY <1>15 DEF MemoryInv, vars
    <2>2. UNCHANGED DSL!dslVars
      BY <1>15 DEF vars, DSL!dslVars, Arrays
    <2> QED
      BY <2>1, <2>2
  <1> QED
    BY <1>1, <1>2, <1>3, <1>4, <1>5, <1>6, <1>7, <1>8, <1>9, <1>10, <1>12,
       <1>13, <1>14, <1>15 DEF Next

(* On every target, with any stride: each statement of a generated host    *)
(* program does to the images, with what padding and transfers make of     *)
(* them, what it does to the arrays of the reference implementation.  The  *)
(* exception is OpenCL's copy of an image with padding.                    *)
THEOREM StatementsAreDSLs == Spec => StatementsFollowDSL
  <1>1. Init => MemoryInv /\ TraversalInv /\ DSL!Init
    BY InitRefines, InitTraversalInv
  <1>2. MemoryInv /\ TraversalInv /\ [Next]_vars
          => (MemoryInv /\ TraversalInv)'
             /\ [DSL!Next \/ CopiesPadded]_DSL!dslVars
    BY NextRefines, NextKeepsTraversalInv
  <1> QED
    BY <1>1, <1>2, PTL DEF Spec, StatementsFollowDSL

(* So a generated host program that never makes OpenCL copy an image with  *)
(* padding implements the DSL.                                             *)
THEOREM HostProgramImplementsDSL ==
  Spec /\ [][~CopiesPadded]_vars => RefinesDSL
  <1>1. Init => MemoryInv /\ TraversalInv /\ DSL!Init
    BY InitRefines, InitTraversalInv
  <1>2. MemoryInv /\ TraversalInv /\ [Next]_vars /\ [~CopiesPadded]_vars
          => (MemoryInv /\ TraversalInv)' /\ [DSL!Next]_DSL!dslVars
    <2> SUFFICES ASSUME MemoryInv, TraversalInv, [Next]_vars, [~CopiesPadded]_vars
                 PROVE  (MemoryInv /\ TraversalInv)' /\ [DSL!Next]_DSL!dslVars
      OBVIOUS
    <2>1. (MemoryInv /\ TraversalInv)' /\ [DSL!Next \/ CopiesPadded]_DSL!dslVars
      BY NextRefines, NextKeepsTraversalInv
    <2>2. CASE UNCHANGED vars
      BY <2>1, <2>2 DEF vars, DSL!dslVars, Arrays
    <2>3. CASE ~CopiesPadded
      BY <2>1, <2>3
    <2> QED
      BY <2>1, <2>2, <2>3
  <1> QED
    BY <1>1, <1>2, PTL DEF Spec, RefinesDSL, DSL!Spec

-----------------------------------------------------------------------------
(* Sums over a finite set, as FoldSet computes them.                       *)
Pick(s) == CHOOSE x \in s : TRUE

IsSum(f, h, D) ==
  f = [s \in D |-> IF s = {} THEN 0 ELSE f[s \ {Pick(s)}] + h[Pick(s)]]

Up(V, n) == {s \in SUBSET V : Cardinality(s) <= n}

LEMMA Picked ==
  ASSUME NEW V, IsFiniteSet(V), NEW s \in SUBSET V, s # {}
  PROVE  /\ Pick(s) \in s /\ Pick(s) \in V /\ s \ {Pick(s)} \in SUBSET V
         /\ Cardinality(s) \in Nat
         /\ Cardinality(s \ {Pick(s)}) = Cardinality(s) - 1
  <1>1. Pick(s) \in s
    BY DEF Pick
  <1>2. IsFiniteSet(s)
    BY FS_Subset
  <1> QED
    BY <1>1, <1>2, FS_RemoveElement, FS_CardinalityType

LEMMA CountsUp ==
  ASSUME NEW V, IsFiniteSet(V)
  PROVE  /\ \A s \in SUBSET V : Cardinality(s) \in Nat /\ Cardinality(s) <= Cardinality(V)
         /\ Cardinality(V) \in Nat /\ Up(V, Cardinality(V)) = SUBSET V
         /\ \A s \in SUBSET V : Cardinality(s) = 0 <=> s = {}
  <1>1. \A s \in SUBSET V : IsFiniteSet(s) /\ Cardinality(s) <= Cardinality(V)
    BY FS_Subset
  <1>2. \A s \in SUBSET V : Cardinality(s) \in Nat /\ (Cardinality(s) = 0 <=> s = {})
    BY <1>1, FS_CardinalityType, FS_EmptySet
  <1> QED
    BY <1>1, <1>2 DEF Up

LEMMA SumsExist ==
  ASSUME NEW V, IsFiniteSet(V), NEW h
  PROVE  \E f : IsSum(f, h, SUBSET V)
  <1> DEFINE S == {n \in Nat : \E f : IsSum(f, h, Up(V, n))}
  <1>0. \A s \in SUBSET V : Cardinality(s) \in Nat /\ (Cardinality(s) = 0 <=> s = {})
    BY CountsUp
  <1>1. 0 \in S
    <2>1. PICK f : f = [s \in Up(V, 0) |-> 0]
      OBVIOUS
    <2>2. \A s \in Up(V, 0) : s = {}
      BY <1>0 DEF Up
    <2>3. IsSum(f, h, Up(V, 0))
      BY <2>1, <2>2 DEF IsSum
    <2> QED
      BY <2>3
  <1>2. ASSUME NEW n \in Nat, n \in S
        PROVE  n + 1 \in S
    <2>1. PICK f : IsSum(f, h, Up(V, n))
      BY <1>2
    <2>2. PICK g : g = [s \in Up(V, n + 1) |->
                          IF Cardinality(s) = n + 1
                          THEN f[s \ {Pick(s)}] + h[Pick(s)] ELSE f[s]]
      OBVIOUS
    <2>3. \A s \in Up(V, n) :
            f[s] = IF s = {} THEN 0 ELSE f[s \ {Pick(s)}] + h[Pick(s)]
      BY <2>1 DEF IsSum
    <2>4. \A s \in Up(V, n) : s \in Up(V, n + 1) /\ Cardinality(s) # n + 1
      BY <1>0 DEF Up
    <2>5. \A s \in Up(V, n) : g[s] = f[s]
      BY <2>2, <2>4
    <2>6. ASSUME NEW s \in Up(V, n + 1)
          PROVE  g[s] = IF s = {} THEN 0 ELSE g[s \ {Pick(s)}] + h[Pick(s)]
      <3>1. s \in SUBSET V /\ Cardinality(s) \in Nat /\ Cardinality(s) <= n + 1
        BY <1>0 DEF Up
      <3>2. s # {} => s \ {Pick(s)} \in Up(V, n)
        BY <3>1, Picked DEF Up
      <3>3. s # {} => g[s \ {Pick(s)}] = f[s \ {Pick(s)}]
        BY <2>5, <3>2
      <3>4. CASE Cardinality(s) = n + 1
        <4>1. s # {}
          BY <1>0, <3>1, <3>4
        <4>2. g[s] = f[s \ {Pick(s)}] + h[Pick(s)]
          BY <2>2, <3>4
        <4> QED
          BY <3>3, <4>1, <4>2
      <3>5. CASE Cardinality(s) # n + 1
        <4>1. s \in Up(V, n)
          BY <3>1, <3>5 DEF Up
        <4> QED
          BY <2>3, <2>5, <3>3, <4>1
      <3> QED
        BY <3>4, <3>5
    <2>7. g = [s \in Up(V, n + 1) |-> g[s]]
      BY <2>2
    <2>8. IsSum(g, h, Up(V, n + 1))
      BY <2>6, <2>7 DEF IsSum
    <2> QED
      BY <2>8
  <1>3. Nat \subseteq S
    <2> HIDE DEF S
    <2> QED
      BY <1>1, <1>2, InductionOnNat
  <1>4. Cardinality(V) \in Nat /\ Up(V, Cardinality(V)) = SUBSET V
    BY CountsUp
  <1> QED
    BY <1>3, <1>4

(* A sum changes with a summand; a sum of zeros is zero.                   *)
LEMMA SumChanges ==
  ASSUME NEW V, IsFiniteSet(V), NEW v,
         NEW h, NEW g, \A x \in V : h[x] \in Nat /\ g[x] \in Nat,
         \A x \in V : x # v => g[x] = h[x],
         NEW f, IsSum(f, h, SUBSET V), NEW e, IsSum(e, g, SUBSET V)
  PROVE  /\ f[V] \in Nat /\ e[V] \in Nat
         /\ v \in V => e[V] = f[V] + g[v] - h[v] /\ h[v] <= f[V]
         /\ v \notin V => e[V] = f[V]
         /\ (\A x \in V : h[x] = 0) => f[V] = 0
  <1> DEFINE Good(s) == /\ f[s] \in Nat /\ e[s] \in Nat
                        /\ v \in s => e[s] = f[s] + g[v] - h[v] /\ h[v] <= f[s]
                        /\ v \notin s => e[s] = f[s]
                        /\ (\A x \in V : h[x] = 0) => f[s] = 0
             S == {n \in Nat : \A s \in SUBSET V : Cardinality(s) = n => Good(s)}
  <1>0. \A s \in SUBSET V : Cardinality(s) \in Nat /\ (Cardinality(s) = 0 <=> s = {})
    BY CountsUp
  <1>1. \A s \in SUBSET V :
          /\ f[s] = IF s = {} THEN 0 ELSE f[s \ {Pick(s)}] + h[Pick(s)]
          /\ e[s] = IF s = {} THEN 0 ELSE e[s \ {Pick(s)}] + g[Pick(s)]
    BY DEF IsSum
  <1>2. 0 \in S
    <2>1. Good({})
      <3>1. PICK z \in SUBSET V : z = {}
        OBVIOUS
      <3>2. f[z] = 0 /\ e[z] = 0
        BY <1>1, <3>1
      <3> QED
        BY <3>1, <3>2
    <2> QED
      BY <1>0, <2>1
  <1>3. ASSUME NEW n \in Nat, n \in S
        PROVE  n + 1 \in S
    <2>1. ASSUME NEW s \in SUBSET V, Cardinality(s) = n + 1
          PROVE  Good(s)
      <3>1. s # {}
        BY <1>0, <2>1
      <3>2. PICK p : p = Pick(s)
        OBVIOUS
      <3>3. PICK u : u = s \ {p}
        OBVIOUS
      <3>4. p \in s /\ p \in V /\ u \in SUBSET V /\ Cardinality(u) = n
        BY <2>1, <3>1, <3>2, <3>3, Picked
      <3>5. Good(u)
        BY <1>3, <3>4
      <3>6. f[s] = f[u] + h[p] /\ e[s] = e[u] + g[p]
        BY <1>1, <3>1, <3>2, <3>3
      <3>7. /\ h[p] \in Nat /\ g[p] \in Nat /\ p # v => g[p] = h[p]
        BY <3>4
      <3>8. v \in s => v \in V /\ h[v] \in Nat /\ g[v] \in Nat
        OBVIOUS
      <3>9. CASE p = v
        <4>1. v \notin u /\ v \in s
          BY <3>3, <3>4, <3>9
        <4> QED
          BY <3>4, <3>5, <3>6, <3>7, <3>9, <4>1
      <3>10. CASE p # v
        <4>1. v \in u <=> v \in s
          BY <3>3, <3>10
        <4> QED
          BY <3>4, <3>5, <3>6, <3>7, <3>8, <3>10, <4>1
      <3> QED
        BY <3>9, <3>10
    <2> QED
      BY <2>1
  <1>4. Nat \subseteq S
    <2> HIDE DEF S
    <2> QED
      BY <1>2, <1>3, InductionOnNat
  <1>5. Cardinality(V) \in Nat /\ V \in SUBSET V
    BY CountsUp
  <1>6. Good(V)
    BY <1>4, <1>5
  <1> QED
    BY <1>6

-----------------------------------------------------------------------------
(* How often a sequence has an element.                                    *)
Positions(s, x) == {k \in DOMAIN s : s[k] = x}

LEMMA OccurrencesType ==
  ASSUME NEW s, IsSeq(s), NEW x
  PROVE  /\ IsFiniteSet(Positions(s, x))
         /\ Occurrences(s, x) = Cardinality(Positions(s, x))
         /\ Occurrences(s, x) \in Nat
         /\ Occurrences(s, x) = 0 <=> \A k \in DOMAIN s : s[k] # x
  <1>1. IsFiniteSet(DOMAIN s)
    BY SeqFacts, FS_Interval
  <1>2. IsFiniteSet(Positions(s, x))
    BY <1>1, FS_Subset DEF Positions
  <1>3. Occurrences(s, x) = Cardinality(Positions(s, x))
    BY DEF Occurrences, Positions
  <1>4. Cardinality(Positions(s, x)) \in Nat
    BY <1>2, FS_CardinalityType
  <1>5. Cardinality(Positions(s, x)) = 0 <=> Positions(s, x) = {}
    BY <1>2, FS_EmptySet
  <1> QED
    BY <1>2, <1>3, <1>4, <1>5 DEF Positions

LEMMA OccurrencesJoin ==
  ASSUME NEW s, IsSeq(s), NEW u, IsSeq(u), NEW x
  PROVE  Occurrences(s \o u, x) = Occurrences(s, x) + Occurrences(u, x)
  <1>1. PICK S : S = s \o u
    OBVIOUS
  <1>2. IsSeq(S) /\ Joined(s, u, S)
    BY <1>1, SeqConcat DEF Joined
  <1>3. PICK n \in Nat : n = Len(s) /\ DOMAIN s = 1..n
    BY SeqFacts
  <1>4. PICK l \in Nat : l = Len(u) /\ DOMAIN u = 1..l
    BY SeqFacts
  <1>5. /\ DOMAIN S = 1..(n + l)
        /\ \A k \in 1..n : S[k] = s[k]
        /\ \A k \in 1..l : S[n + k] = u[k]
    BY <1>2, <1>3, <1>4, SeqFacts DEF Joined
  <1>6. PICK A, B : A = Positions(s, x) /\ B = Positions(u, x)
    OBVIOUS
  <1>7. PICK C : C = {n + k : k \in B}
    OBVIOUS
  <1>8. A \subseteq 1..n /\ B \subseteq 1..l
    BY <1>3, <1>4, <1>6 DEF Positions
  <1>9. Positions(S, x) = A \cup C
    <2>1. ASSUME NEW k \in Positions(S, x)
          PROVE  k \in A \cup C
      <3>1. k \in 1..(n + l) /\ S[k] = x
        BY <1>5 DEF Positions
      <3>2. CASE k <= n
        <4>1. k \in 1..n
          BY <3>1, <3>2
        <4> QED
          BY <1>3, <1>5, <1>6, <3>1, <4>1 DEF Positions
      <3>3. CASE ~(k <= n)
        <4>1. PICK j \in 1..l : k = n + j
          <5>1. k - n \in 1..l /\ k = n + (k - n)
            BY <3>1, <3>3
          <5> QED
            BY <5>1
        <4>2. j \in B
          BY <1>4, <1>5, <1>6, <3>1, <4>1 DEF Positions
        <4> QED
          BY <1>7, <4>1, <4>2
      <3> QED
        BY <3>2, <3>3
    <2>2. ASSUME NEW k \in A
          PROVE  k \in Positions(S, x)
      <3>1. k \in 1..n /\ s[k] = x /\ k \in 1..(n + l)
        BY <1>3, <1>6 DEF Positions
      <3> QED
        BY <1>5, <3>1 DEF Positions
    <2>3. ASSUME NEW j \in B
          PROVE  n + j \in Positions(S, x)
      <3>1. j \in 1..l /\ u[j] = x /\ n + j \in 1..(n + l)
        BY <1>4, <1>6 DEF Positions
      <3> QED
        BY <1>5, <3>1 DEF Positions
    <2> QED
      BY <1>7, <2>1, <2>2, <2>3
  <1>10. A \cap C = {}
    <2>1. \A k \in B : n + k \notin 1..n
      BY <1>8
    <2> QED
      BY <1>7, <1>8, <2>1
  <1>11. IsFiniteSet(A) /\ IsFiniteSet(B)
    BY <1>6, OccurrencesType
  <1>12. IsFiniteSet(C) /\ Cardinality(C) = Cardinality(B)
    <2>1. PICK f : f = [k \in B |-> n + k]
      OBVIOUS
    <2>2. \A j, k \in B : n + j = n + k => j = k
      BY <1>8
    <2>3. f \in [B -> C]
      BY <1>7, <2>1
    <2>4. \A j, k \in B : f[j] = f[k] => j = k
      BY <2>1, <2>2
    <2>5. \A c \in C : \E k \in B : f[k] = c
      BY <1>7, <2>1
    <2>6. f \in Bijection(B, C)
      BY <2>3, <2>4, <2>5 DEF Bijection, Injection, Surjection, IsInjective
    <2> QED
      BY <1>11, <2>6, FS_Bijection DEF ExistsBijection
  <1>13. Cardinality(A \cup C) = Cardinality(A) + Cardinality(B)
    <2>1. PICK p \in Nat, q \in Nat : p = Cardinality(A) /\ q = Cardinality(B)
      BY <1>11, FS_CardinalityType
    <2>2. Cardinality(A \cap C) = 0
      BY <1>10, FS_EmptySet
    <2>3. Cardinality(A \cup C) = p + q - 0
      BY <1>11, <1>12, <2>1, <2>2, FS_Union
    <2> QED
      BY <2>1, <2>3
  <1> QED
    BY <1>1, <1>2, <1>6, <1>9, <1>13, OccurrencesType

(* A sequence without repetition has an element once or not at all.        *)
LEMMA OccursOnce ==
  ASSUME NEW s, IsSeq(s), NEW x,
         \A j, k \in DOMAIN s : s[j] = x /\ s[k] = x => j = k
  PROVE  Occurrences(s, x) = IF x \in ToSet(s) THEN 1 ELSE 0
  <1>1. CASE x \in ToSet(s)
    <2>1. PICK k \in DOMAIN s : s[k] = x
      BY <1>1 DEF ToSet
    <2>2. Positions(s, x) = {k}
      BY <2>1 DEF Positions
    <2> QED
      BY <1>1, <2>2, OccurrencesType, FS_Singleton
  <1>2. CASE x \notin ToSet(s)
    BY <1>2, OccurrencesType DEF ToSet
  <1> QED
    BY <1>1, <1>2

LEMMA OccurrencesOfOne ==
  ASSUME NEW e, NEW x
  PROVE  IsSeq(<<e>>) /\ Occurrences(<<e>>, x) = IF x = e THEN 1 ELSE 0
  <1>1. PICK s : s = <<e>>
    OBVIOUS
  <1>2. IsSeq(s) /\ DOMAIN s = {1} /\ s[1] = e
    <2>1. s \in Seq({e}) /\ Len(s) = 1 /\ s[1] = e
      BY <1>1
    <2> QED
      BY <2>1 DEF IsSeq
  <1>3. Occurrences(s, x) = IF x \in ToSet(s) THEN 1 ELSE 0
    BY <1>2, OccursOnce
  <1> QED
    BY <1>1, <1>2, <1>3 DEF ToSet

(* Removing an entry removes one occurrence of it.                         *)
Removed(s, i, R) ==
  /\ IsSeq(R) /\ Len(R) = Len(s) - 1
  /\ \A k \in DOMAIN R : \E l \in DOMAIN s : R[k] = s[l]
  /\ \A x : Occurrences(R, x) = Occurrences(s, x) - (IF x = s[i] THEN 1 ELSE 0)

LEMMA RemoveOne ==
  ASSUME NEW s, IsSeq(s), NEW i \in DOMAIN s
  PROVE  Removed(s, i, RemoveAt(s, i))
  <1>1. PICK S : s \in Seq(S)
    BY DEF IsSeq
  <1>2. PICK n \in Nat : n = Len(s) /\ DOMAIN s = 1..n
    BY SeqFacts
  <1>3. i \in 1..n
    BY <1>2
  <1>4. PICK a : a = SubSeq(s, 1, i - 1)
    OBVIOUS
  <1>5. PICK b : b = SubSeq(s, i + 1, n)
    OBVIOUS
  <1>6. a \in Seq(S) /\ Len(a) = i - 1 /\ \A k \in 1..(i - 1) : a[k] = s[k]
    BY <1>1, <1>2, <1>3, <1>4
  <1>7. b \in Seq(S) /\ Len(b) = n - i /\ \A k \in 1..(n - i) : b[k] = s[i + k]
    <2>1. \A k \in (i + 1)..n : s[k] \in S
      BY <1>1, <1>2, <1>3
    <2>2. /\ b \in Seq(S)
          /\ Len(b) = IF i + 1 <= n THEN n - (i + 1) + 1 ELSE 0
          /\ \A k \in 1..(n - (i + 1) + 1) : b[k] = s[i + 1 + k - 1]
      BY <1>3, <1>5, <2>1, SubSeqProperties
    <2>3. n - (i + 1) + 1 = n - i /\ (~(i + 1 <= n) => n - i = 0)
      BY <1>3
    <2>4. \A k \in 1..(n - i) : i + 1 + k - 1 = i + k
      BY <1>3
    <2> QED
      BY <2>2, <2>3, <2>4
  <1>8. IsSeq(a) /\ IsSeq(b)
    BY <1>6, <1>7 DEF IsSeq
  <1>9. PICK R : R = a \o b
    OBVIOUS
  <1>10. RemoveAt(s, i) = R
    BY <1>2, <1>4, <1>5, <1>9 DEF RemoveAt
  <1>11. IsSeq(R) /\ Joined(a, b, R)
    BY <1>8, <1>9, SeqConcat DEF Joined
  <1>12. PICK o : o = <<s[i]>> /\ IsSeq(o) /\ Len(o) = 1 /\ o[1] = s[i]
    <2>1. PICK o : o = <<s[i]>>
      OBVIOUS
    <2>2. IsSeq(o)
      BY <2>1, OccurrencesOfOne
    <2> QED
      BY <2>1, <2>2
  <1>13. PICK c : c = a \o o
    OBVIOUS
  <1>14. /\ IsSeq(c) /\ Len(c) = i
         /\ \A k \in 1..(i - 1) : c[k] = s[k]
         /\ c[i] = s[i]
    <2>1. Joined(a, o, c)
      BY <1>8, <1>12, <1>13, SeqConcat
    <2>2. IsSeq(c) /\ Len(c) = (i - 1) + 1 /\ \A k \in 1..(i - 1) : c[k] = a[k]
      BY <1>6, <1>12, <2>1 DEF Joined
    <2>3. c[(i - 1) + 1] = s[i]
      BY <1>6, <1>12, <2>1 DEF Joined
    <2>4. (i - 1) + 1 = i
      BY <1>3
    <2> QED
      BY <1>6, <2>2, <2>3, <2>4
  <1>15. s = c \o b
    <2>1. PICK t : t = c \o b
      OBVIOUS
    <2>2. Joined(c, b, t)
      BY <1>8, <1>14, <2>1, SeqConcat
    <2>3. IsSeq(t) /\ Len(t) = n
      <3>1. IsSeq(t) /\ Len(t) = i + (n - i)
        BY <1>7, <1>14, <2>2 DEF Joined
      <3> QED
        BY <1>3, <3>1
    <2>4. ASSUME NEW k \in 1..n
          PROVE  s[k] = t[k]
      <3>1. CASE k \in 1..(i - 1)
        <4>1. k \in 1..i
          BY <1>3, <3>1
        <4>2. t[k] = c[k]
          BY <1>14, <2>2, <4>1 DEF Joined
        <4> QED
          BY <1>14, <3>1, <4>2
      <3>2. CASE k = i
        <4>1. k \in 1..i
          BY <1>3, <3>2
        <4>2. t[k] = c[k]
          BY <1>14, <2>2, <4>1 DEF Joined
        <4> QED
          BY <1>14, <3>2, <4>2
      <3>3. CASE k \notin 1..i
        <4>1. PICK j \in 1..(n - i) : k = i + j
          <5>1. k - i \in 1..(n - i) /\ k = i + (k - i)
            BY <1>3, <3>3
          <5> QED
            BY <5>1
        <4>2. t[i + j] = b[j]
          BY <1>7, <1>14, <2>2 DEF Joined
        <4> QED
          BY <1>7, <4>1, <4>2
      <3>4. k \in 1..(i - 1) \/ k = i \/ k \notin 1..i
        BY <1>3
      <3> QED
        BY <3>1, <3>2, <3>3, <3>4
    <2> QED
      BY <1>2, <2>1, <2>3, <2>4, EqualSeqs
  <1>16. ASSUME NEW x
         PROVE  Occurrences(R, x) = Occurrences(s, x) - (IF x = s[i] THEN 1 ELSE 0)
    <2>1. PICK p \in Nat, q \in Nat : p = Occurrences(a, x) /\ q = Occurrences(b, x)
      BY <1>8, OccurrencesType
    <2>2. PICK r \in Nat : /\ r = Occurrences(o, x)
                           /\ r = IF x = s[i] THEN 1 ELSE 0
      <3>1. Occurrences(o, x) = IF x = s[i] THEN 1 ELSE 0
        BY <1>12, OccurrencesOfOne
      <3> QED
        BY <3>1
    <2>3. Occurrences(R, x) = p + q
      BY <1>8, <1>9, <2>1, OccurrencesJoin
    <2>4. Occurrences(c, x) = p + r
      BY <1>8, <1>12, <1>13, <2>1, <2>2, OccurrencesJoin
    <2>5. Occurrences(s, x) = (p + r) + q
      BY <1>8, <1>14, <1>15, <2>1, <2>4, OccurrencesJoin
    <2>6. p + q = ((p + r) + q) - r
      OBVIOUS
    <2> QED
      BY <2>2, <2>3, <2>5, <2>6
  <1>17. Len(R) = n - 1
    <2>1. Len(R) = (i - 1) + (n - i)
      BY <1>6, <1>7, <1>11 DEF Joined
    <2> QED
      BY <1>3, <2>1
  <1>18. \A k \in DOMAIN R : \E l \in DOMAIN s : R[k] = s[l]
    <2> SUFFICES ASSUME NEW k \in DOMAIN R
                 PROVE  \E l \in 1..n : R[k] = s[l]
      BY <1>2
    <2>1. k \in 1..(n - 1)
      BY <1>11, <1>17, SeqFacts
    <2>2. CASE k \in 1..(i - 1)
      <3>1. R[k] = s[k]
        BY <1>6, <1>11, <2>2 DEF Joined
      <3>2. k \in 1..n
        BY <2>1
      <3> QED
        BY <3>1, <3>2
    <2>3. CASE k \notin 1..(i - 1)
      <3>1. PICK j \in 1..(n - i) : k = (i - 1) + j
        <4>1. k - (i - 1) \in 1..(n - i) /\ k = (i - 1) + (k - (i - 1))
          BY <1>3, <2>1, <2>3
        <4> QED
          BY <4>1
      <3>2. R[(i - 1) + j] = b[j]
        BY <1>6, <1>7, <1>11 DEF Joined
      <3>3. i + j \in 1..n /\ b[j] = s[i + j]
        BY <1>3, <1>7
      <3> QED
        BY <3>1, <3>2, <3>3
    <2> QED
      BY <2>2, <2>3
  <1> QED
    BY <1>2, <1>10, <1>11, <1>16, <1>17, <1>18 DEF Removed

-----------------------------------------------------------------------------
(* The handles variables hold on image i, as a sum over the variables.     *)
Names == ImageNames \cup PyramidNames

StagesOf(pyrs) == [p \in PyramidNames |-> pyrs[p].imgs]
AreSeqs(stg)   == \A p \in PyramidNames : IsSeq(stg[p])

Holding(stg, rel, v, i) ==
  {k \in DOMAIN stg[v] : stg[v][k] = i /\ (k > 1 => v \notin rel)}
HandlesOf(imgs, stg, rel, v, i) ==
  IF v \in ImageNames THEN IF imgs[v] = i THEN 1 ELSE 0
  ELSE Cardinality(Holding(stg, rel, v, i))

Summands(imgs, stg, rel, i) ==
  [v \in Names |-> HandlesOf(imgs, stg, rel, v, i)]
TheSum(h) == CHOOSE f : IsSum(f, h, SUBSET Names)
Total(imgs, stg, rel, i) == TheSum(Summands(imgs, stg, rel, i))[Names]

LEMMA NamesFinite == IsFiniteSet(Names)
  BY NamesAreFinite, FS_Union DEF Names

LEMMA TheSumIsSum ==
  ASSUME NEW h
  PROVE  IsSum(TheSum(h), h, SUBSET Names)
  BY NamesFinite, SumsExist DEF TheSum

LEMMA HandlesType ==
  ASSUME NEW imgs, NEW stg, AreSeqs(stg), NEW rel, NEW v \in Names, NEW i
  PROVE  HandlesOf(imgs, stg, rel, v, i) \in Nat
  <1>1. CASE v \in ImageNames
    BY <1>1 DEF HandlesOf
  <1>2. CASE v \notin ImageNames
    <2>1. IsSeq(stg[v])
      BY <1>2 DEF Names, AreSeqs
    <2>2. IsFiniteSet(DOMAIN stg[v])
      <3>1. PICK n \in Nat : DOMAIN stg[v] = 1..n
        BY <2>1, SeqFacts
      <3> QED
        BY <3>1, FS_Interval
    <2>3. Cardinality(Holding(stg, rel, v, i)) \in Nat
      <3>1. Holding(stg, rel, v, i) \in SUBSET DOMAIN stg[v]
        BY DEF Holding
      <3>2. IsFiniteSet(Holding(stg, rel, v, i))
        BY <2>2, <3>1, FS_Subset
      <3> QED
        BY <3>2, FS_CardinalityType
    <2> QED
      BY <1>2, <2>3 DEF HandlesOf
  <1> QED
    BY <1>1, <1>2

\* Of the variables only v holds another number of handles on image i.
OnlyOf(v, i, imgs, stg, rel, J, G, R) ==
  \A x \in Names : x # v =>
    HandlesOf(J, G, R, x, i) = HandlesOf(imgs, stg, rel, x, i)

LEMMA TotalChanges ==
  ASSUME NEW imgs, NEW stg, NEW rel, AreSeqs(stg),
         NEW J, NEW G, NEW R, AreSeqs(G), NEW i, NEW v \in Names,
         OnlyOf(v, i, imgs, stg, rel, J, G, R)
  PROVE  /\ Total(imgs, stg, rel, i) \in Nat /\ Total(J, G, R, i) \in Nat
         /\ HandlesOf(imgs, stg, rel, v, i) <= Total(imgs, stg, rel, i)
         /\ Total(J, G, R, i) = Total(imgs, stg, rel, i)
              + HandlesOf(J, G, R, v, i) - HandlesOf(imgs, stg, rel, v, i)
  <1>1. PICK h : h = Summands(imgs, stg, rel, i)
    OBVIOUS
  <1>2. PICK g : g = Summands(J, G, R, i)
    OBVIOUS
  <1>3. \A x \in Names : /\ h[x] = HandlesOf(imgs, stg, rel, x, i)
                         /\ g[x] = HandlesOf(J, G, R, x, i)
    BY <1>1, <1>2 DEF Summands
  <1>4. \A x \in Names : h[x] \in Nat /\ g[x] \in Nat
    BY <1>3, HandlesType
  <1>5. \A x \in Names : x # v => g[x] = h[x]
    BY <1>3 DEF OnlyOf
  <1>6. PICK f : f = TheSum(h) /\ IsSum(f, h, SUBSET Names)
    BY TheSumIsSum
  <1>7. PICK e : e = TheSum(g) /\ IsSum(e, g, SUBSET Names)
    BY TheSumIsSum
  <1>8. /\ f[Names] \in Nat /\ e[Names] \in Nat
        /\ e[Names] = f[Names] + g[v] - h[v] /\ h[v] <= f[Names]
    BY <1>4, <1>5, <1>6, <1>7, NamesFinite, SumChanges
  <1>9. Total(imgs, stg, rel, i) = f[Names] /\ Total(J, G, R, i) = e[Names]
    BY <1>1, <1>2, <1>6, <1>7 DEF Total
  <1> QED
    BY <1>3, <1>8, <1>9

LEMMA NoHandles ==
  ASSUME NEW imgs, NEW stg, NEW rel, NEW i,
         \A x \in Names : HandlesOf(imgs, stg, rel, x, i) = 0
  PROVE  Total(imgs, stg, rel, i) = 0
  <1>1. PICK h : h = Summands(imgs, stg, rel, i)
    OBVIOUS
  <1>2. \A x \in Names : h[x] = 0
    BY <1>1 DEF Summands
  <1>3. PICK f : f = TheSum(h) /\ IsSum(f, h, SUBSET Names)
    BY TheSumIsSum
  <1>4. f[Names] = 0
    <2>1. PICK v : v = 0
      OBVIOUS
    <2> QED
      BY <1>2, <1>3, NamesFinite, SumChanges
  <1> QED
    BY <1>1, <1>3, <1>4 DEF Total

LEMMA TotalType ==
  ASSUME NEW imgs, NEW stg, NEW rel, AreSeqs(stg), NEW i
  PROVE  Total(imgs, stg, rel, i) \in Nat
  <1>1. CASE Names = {}
    BY <1>1, NoHandles
  <1>2. CASE Names # {}
    <2>1. PICK v \in Names : TRUE
      BY <1>2
    <2>2. OnlyOf(v, i, imgs, stg, rel, imgs, stg, rel)
      BY DEF OnlyOf
    <2> QED
      BY <2>2, TotalChanges
  <1> QED
    BY <1>1, <1>2

LEMMA HeldIsTotal ==
  ASSUME NEW i
  PROVE  Held(i) = IF phase = "left" THEN 0
                   ELSE Total(images, StagesOf(pyramids), released, i)
  <1>1. PICK h : h = Summands(images, StagesOf(pyramids), released, i)
    OBVIOUS
  <1>2. \A v \in Names : HeldBy(v, i) = h[v]
    <2> SUFFICES ASSUME NEW v \in Names
                 PROVE  HeldBy(v, i) = h[v]
      OBVIOUS
    <2>1. h[v] = HandlesOf(images, StagesOf(pyramids), released, v, i)
      BY <1>1 DEF Summands
    <2>2. CASE v \in ImageNames
      BY <2>1, <2>2 DEF HeldBy, HandlesOf
    <2>3. CASE v \notin ImageNames
      <3>1. StagesOf(pyramids)[v] = pyramids[v].imgs
        BY <2>3 DEF StagesOf, Names
      <3>2. Holding(StagesOf(pyramids), released, v, i)
              = {k \in DOMAIN pyramids[v].imgs :
                   pyramids[v].imgs[k] = i /\ (k > 1 => v \notin released)}
        BY <3>1 DEF Holding
      <3> QED
        BY <2>1, <2>3, <3>2 DEF HeldBy, HandlesOf
    <2> QED
      BY <2>2, <2>3
  <1>3. \A s \in SUBSET Names : s # {} => Pick(s) \in Names
    BY NamesFinite, Picked
  <1>4. PICK f : f = CHOOSE e : e = [s \in SUBSET Names |->
                                      IF s = {} THEN 0
                                      ELSE e[s \ {Pick(s)}] + HeldBy(Pick(s), i)]
    OBVIOUS
  <1>5. \A e : IsSum(e, h, SUBSET Names) <=>
                 e = [s \in SUBSET Names |->
                        IF s = {} THEN 0 ELSE e[s \ {Pick(s)}] + HeldBy(Pick(s), i)]
    <2> SUFFICES ASSUME NEW e
                 PROVE  [s \in SUBSET Names |->
                          IF s = {} THEN 0 ELSE e[s \ {Pick(s)}] + h[Pick(s)]]
                        = [s \in SUBSET Names |->
                          IF s = {} THEN 0 ELSE e[s \ {Pick(s)}] + HeldBy(Pick(s), i)]
      BY DEF IsSum
    <2> QED
      BY <1>2, <1>3
  <1>6. f = TheSum(h)
    BY <1>4, <1>5 DEF TheSum
  <1>7. FoldSet(LAMBDA v, n : n + HeldBy(v, i), 0, Names) = f[Names]
    BY <1>4 DEF FoldSet, MapThenFoldSet, Pick
  <1>8. f[Names] = Total(images, StagesOf(pyramids), released, i)
    BY <1>1, <1>6 DEF Total
  <1> QED
    BY <1>7, <1>8 DEF Held, Names

-----------------------------------------------------------------------------
(* Releasing images keeps the counts of their blocks right, whatever       *)
(* handles T the variables hold.                                           *)
Entries(t, n) == IF t.lang = "Renderscript" THEN n + n ELSE n

ContextOK(t, mem, ctx) ==
  /\ IsSeq(ctx.imgs) /\ \A k \in DOMAIN ctx.imgs : ctx.imgs[k] \in DOMAIN mem
  /\ ctx.allocs = IF t.lang = "Renderscript" THEN ctx.imgs ELSE <<>>

\* n handles are on the block.
HasHandles(m, n) == m.refs = n /\ m.live = (n > 0)

Counted(t, mem, ctx, T) ==
  /\ ContextOK(t, mem, ctx)
  /\ \A i \in DOMAIN mem :
       HasHandles(mem[i], T[i] + Entries(t, Occurrences(ctx.imgs, i)))

\* An image that is not released is in the context once, unless all are the
\* same to operator==.
Balanced(mem, ctx) ==
  \A i \in DOMAIN mem : mem[i].freed + Occurrences(ctx.imgs, i) = 1

LEMMA FirstExists ==
  ASSUME NEW list, IsSeq(list), NEW i,
         \E k \in DOMAIN list : SameImage(list[k], i)
  PROVE  /\ FirstSame(list, i) \in DOMAIN list
         /\ SameImage(list[FirstSame(list, i)], i)
  <1>1. PICK n \in Nat : n = Len(list) /\ DOMAIN list = 1..n
    BY SeqFacts
  <1> DEFINE P(k) == /\ SameImage(list[k], i)
                     /\ \A l \in 1..(k - 1) : ~SameImage(list[l], i)
             S == {k \in Nat : \A l \in 1..k : l \in 1..n => ~SameImage(list[l], i)}
  <1>2. \E k \in DOMAIN list : P(k)
    <2> SUFFICES ASSUME \A k \in DOMAIN list : ~P(k)
                 PROVE  FALSE
      OBVIOUS
    <2>1. 0 \in S
      OBVIOUS
    <2>2. ASSUME NEW k \in Nat, k \in S
          PROVE  k + 1 \in S
      <3>1. \A l \in 1..k : l \in 1..n => ~SameImage(list[l], i)
        BY <2>2
      <3>2. k + 1 \in 1..n => ~SameImage(list[k + 1], i)
        <4> SUFFICES ASSUME k + 1 \in 1..n, SameImage(list[k + 1], i)
                     PROVE  FALSE
          OBVIOUS
        <4>1. \A l \in 1..((k + 1) - 1) : ~SameImage(list[l], i)
          BY <3>1
        <4> QED
          BY <1>1, <4>1
      <3>3. \A l \in 1..(k + 1) : l \in 1..k \/ l = k + 1
        OBVIOUS
      <3> QED
        BY <3>1, <3>2, <3>3
    <2>3. Nat \subseteq S
      <3> HIDE DEF S
      <3> QED
        BY <2>1, <2>2, InductionOnNat
    <2>4. n \in S
      BY <2>3
    <2> QED
      BY <1>1, <2>4
  <1>3. PICK f : f = FirstSame(list, i)
    OBVIOUS
  <1>4. f = CHOOSE k \in DOMAIN list : P(k)
    BY <1>3 DEF FirstSame
  <1>5. f \in DOMAIN list /\ P(f)
    BY <1>2, <1>4
  <1> QED
    BY <1>3, <1>5

\* What one release does.
Freed(s, i, S) ==
  \A k \in DOMAIN s.mem :
    S.mem[k].freed = IF k = i THEN s.mem[k].freed + 1 ELSE s.mem[k].freed

LostEntry(s, i, S) ==
  /\ SameImage(EntryOf(s, i), i)
  /\ Len(S.ctx.imgs) = Len(s.ctx.imgs) - 1
  /\ \A x : Occurrences(S.ctx.imgs, x)
              = Occurrences(s.ctx.imgs, x) - (IF x = EntryOf(s, i) THEN 1 ELSE 0)

CountsStep(m, s, i, S, T) ==
  /\ IsState(S) /\ Kept(m, S.mem) /\ Counted(target, S.mem, S.ctx, T)
  /\ Freed(s, i, S)
  /\ Listed(s, i) => LostEntry(s, i, S)
  /\ ~Listed(s, i) => S.ctx = s.ctx

LEMMA DropsHandles ==
  ASSUME NEW m, IsImage(m), NEW n \in Nat, NEW a \in Nat, a <= n, HasHandles(m, n)
  PROVE  HasHandles(Dropped(m, a), n - a)
  <1>1. PICK e : e = Dropped(m, a)
    OBVIOUS
  <1>2. e.refs = m.refs - a /\ e.live = (m.live /\ m.refs > a)
    BY <1>1, DroppedUpdate
  <1>3. m.refs = n /\ m.live = (n > 0)
    BY DEF HasHandles
  <1>4. (n > 0 /\ n > a) = (n - a > 0)
    OBVIOUS
  <1> QED
    BY <1>1, <1>2, <1>3, <1>4 DEF HasHandles

LEMMA ReleaseOneCounts ==
  ASSUME NEW m, NEW s, IsState(s), Kept(m, s.mem), NEW T,
         \A k \in DOMAIN m : T[k] \in Nat,
         Counted(target, s.mem, s.ctx, T), NEW i \in DOMAIN m
  PROVE  CountsStep(m, s, i, ReleaseOne(s, i), T)
  <1>1. PICK S : S = ReleaseOne(s, i)
    OBVIOUS
  <1>2. Stepped(s, i, S)
    BY <1>1, ReleaseOneStep
  <1>3. PICK F : F = FreedAt(s.mem, i)
    OBVIOUS
  <1>4. Kept(m, F) /\ DOMAIN F = DOMAIN m /\ DOMAIN s.mem = DOMAIN m
    BY <1>3, FreedKeeps DEF Kept
  <1>5. \A k \in DOMAIN m :
          /\ IsImage(F[k]) /\ F[k].refs = s.mem[k].refs /\ F[k].live = s.mem[k].live
          /\ F[k].freed = IF k = i THEN s.mem[k].freed + 1 ELSE s.mem[k].freed
    <2> SUFFICES ASSUME NEW k \in DOMAIN m
                 PROVE  /\ IsImage(F[k]) /\ F[k].refs = s.mem[k].refs
                        /\ F[k].live = s.mem[k].live
                        /\ F[k].freed = IF k = i THEN s.mem[k].freed + 1
                                                 ELSE s.mem[k].freed
      OBVIOUS
    <2>1. IsImage(s.mem[k])
      BY DEF Kept
    <2>2. k # i => F[k] = s.mem[k]
      BY <1>3, <1>4 DEF FreedAt
    <2>3. k = i => F[k] = WithFreed(s.mem[k])
      BY <1>3, <1>4 DEF FreedAt
    <2> QED
      BY <2>1, <2>2, <2>3, FreedUpdate
  <1>6. /\ ContextOK(target, s.mem, s.ctx)
        /\ \A k \in DOMAIN m :
             HasHandles(F[k], T[k] + Entries(target, Occurrences(s.ctx.imgs, k)))
    BY <1>4, <1>5 DEF Counted, HasHandles
  <1>7. CASE ~Listed(s, i)
    <2>1. S.mem = F /\ S.ctx = s.ctx /\ IsState(S)
      BY <1>2, <1>3, <1>7 DEF Stepped
    <2>2. ContextOK(target, F, s.ctx)
      BY <1>4, <1>6 DEF ContextOK
    <2>3. Counted(target, S.mem, S.ctx, T)
      BY <1>4, <1>6, <2>1, <2>2 DEF Counted
    <2>4. Freed(s, i, S)
      BY <1>4, <1>5, <2>1 DEF Freed
    <2> QED
      BY <1>1, <1>4, <1>7, <2>1, <2>3, <2>4 DEF CountsStep
  <1>8. CASE Listed(s, i)
    <2>1. PICK L : L = s.ctx.imgs
      OBVIOUS
    <2>2. IsSeq(L) /\ \A k \in DOMAIN L : L[k] \in DOMAIN m
      BY <1>4, <1>6, <2>1 DEF ContextOK
    <2>3. PICK f \in DOMAIN L : f = FirstSame(L, i) /\ SameImage(L[f], i)
      BY <1>8, <2>1, <2>2, FirstExists DEF Listed
    <2>4. PICK j \in DOMAIN m : j = L[f] /\ j = EntryOf(s, i)
      BY <2>1, <2>2, <2>3 DEF EntryOf
    <2>5. PICK N : N = RemoveAt(L, f)
      OBVIOUS
    <2>6. Removed(L, f, N)
      BY <2>2, <2>5, RemoveOne
    <2>7. S.ctx.imgs = N /\ S.ctx.allocs = IF target.lang = "Renderscript"
                                           THEN N ELSE << >>
      <3>1. S.ctx = Unlisted(s.ctx, i)
        BY <1>2, <1>8 DEF Stepped
      <3>2. Without(L, i) = N
        BY <2>3, <2>5 DEF Without
      <3>3. target.lang = "Renderscript" => s.ctx.allocs = L
        BY <1>6, <2>1 DEF ContextOK
      <3> QED
        BY <2>1, <3>1, <3>2, <3>3 DEF Unlisted
    <2>8. PICK h \in {1, 2} : h = ContextHandles
      BY DEF ContextHandles
    <2>9. PICK D : D = DroppedAt(F, j, h)
      OBVIOUS
    <2>10. S.mem = D /\ IsState(S)
      BY <1>2, <1>3, <1>8, <2>4, <2>8, <2>9 DEF Stepped
    <2>11. Kept(m, D) /\ DOMAIN D = DOMAIN m
      BY <1>4, <2>9, DroppedKeeps DEF Kept
    <2>12. /\ D[j] = Dropped(F[j], h)
           /\ \A k \in DOMAIN m : k # j => D[k] = F[k]
      BY <1>4, <2>9 DEF DroppedAt
    <2>13. Freed(s, i, S)
      <3>1. D[j].freed = F[j].freed
        BY <1>5, <2>12, DroppedUpdate
      <3>2. \A k \in DOMAIN m : D[k].freed = F[k].freed
        BY <2>12, <3>1
      <3> QED
        BY <1>4, <1>5, <2>10, <3>2 DEF Freed
    <2>14. \A x : Occurrences(N, x) = Occurrences(L, x) - (IF x = j THEN 1 ELSE 0)
      BY <2>4, <2>6 DEF Removed
    <2>15. LostEntry(s, i, S)
      BY <2>1, <2>3, <2>4, <2>6, <2>7, <2>14 DEF LostEntry, Removed
    <2>16. ContextOK(target, D, S.ctx)
      <3>1. IsSeq(N) /\ \A k \in DOMAIN N : N[k] \in DOMAIN m
        BY <2>2, <2>6 DEF Removed
      <3> QED
        BY <2>7, <2>11, <3>1 DEF ContextOK
    <2>17. ASSUME NEW k \in DOMAIN m
           PROVE  HasHandles(D[k], T[k] + Entries(target, Occurrences(N, k)))
      <3>1. PICK o \in Nat : o = Occurrences(L, k)
        BY <2>2, OccurrencesType
      <3>2. PICK c \in Nat : c = T[k]
        OBVIOUS
      <3>3. HasHandles(F[k], c + Entries(target, o))
        BY <1>6, <2>1, <3>1, <3>2
      <3>4. CASE k = j
        <4>1. o # 0
          BY <2>2, <2>4, <3>1, <3>4, OccurrencesType
        <4>2. Occurrences(N, k) = o - 1
          BY <2>14, <3>1, <3>4
        <4>3. PICK n \in Nat : n = c + Entries(target, o)
          BY DEF Entries
        <4>4. h <= n /\ n - h = c + Entries(target, o - 1)
          <5>1. CASE target.lang = "Renderscript"
            <6>1. h = 2 /\ n = c + (o + o) /\ Entries(target, o - 1) = (o - 1) + (o - 1)
              BY <2>8, <4>3, <5>1 DEF ContextHandles, Entries
            <6> QED
              BY <4>1, <6>1
          <5>2. CASE target.lang # "Renderscript"
            <6>1. h = 1 /\ n = c + o /\ Entries(target, o - 1) = o - 1
              BY <2>8, <4>3, <5>2 DEF ContextHandles, Entries
            <6> QED
              BY <4>1, <6>1
          <5> QED
            BY <5>1, <5>2
        <4>5. HasHandles(Dropped(F[k], h), n - h)
          BY <1>5, <2>8, <3>3, <4>3, <4>4, DropsHandles
        <4> QED
          BY <2>12, <3>2, <3>4, <4>2, <4>4, <4>5
      <3>5. CASE k # j
        <4>1. Occurrences(N, k) = o
          BY <2>14, <3>1, <3>5
        <4> QED
          BY <2>12, <3>2, <3>3, <3>5, <4>1
      <3> QED
        BY <3>4, <3>5
    <2>18. Counted(target, S.mem, S.ctx, T)
      BY <2>7, <2>10, <2>11, <2>16, <2>17 DEF Counted
    <2> QED
      BY <1>1, <1>8, <2>10, <2>11, <2>13, <2>15, <2>18 DEF CountsStep
  <1> QED
    BY <1>7, <1>8

(* A list of different images that are not released yet.                   *)
ReleaseCounts(mem, ctx, ids, S, T) ==
  /\ IsState(S) /\ Kept(mem, S.mem) /\ Counted(target, S.mem, S.ctx, T)
  /\ \A k \in DOMAIN mem :
       S.mem[k].freed = IF k \in ToSet(ids) THEN 1 ELSE mem[k].freed

LEMMA ReleaseIsCounted ==
  ASSUME NEW mem, Kept(mem, mem), NEW ctx, NEW T,
         \A k \in DOMAIN mem : T[k] \in Nat /\ mem[k].freed \in Nat,
         Counted(target, mem, ctx, T),
         NEW ids, IsSeq(ids),
         \A k \in DOMAIN ids : ids[k] \in DOMAIN mem /\ mem[ids[k]].freed = 0,
         \A j, k \in DOMAIN ids : ids[j] = ids[k] => j = k,
         target.lang # "Vivado" => Balanced(mem, ctx)
  PROVE  /\ ReleaseCounts(mem, ctx, ids, Release(mem, ctx, ids), T)
         /\ target.lang # "Vivado" =>
              Balanced(Release(mem, ctx, ids).mem, Release(mem, ctx, ids).ctx)
  <1>1. PICK R : ReleaseSteps(R, mem, ctx, ids)
    BY ReleaseIsSteps
  <1>2. PICK n \in Nat : n = Len(ids) /\ DOMAIN ids = 1..n
    BY SeqFacts
  <1> DEFINE Up2(k) == {ids[l] : l \in 1..k}
             P(k) ==
               /\ IsState(R[k]) /\ Kept(mem, R[k].mem)
               /\ Counted(target, R[k].mem, R[k].ctx, T)
               /\ \A x \in DOMAIN mem :
                    R[k].mem[x].freed = IF x \in Up2(k) THEN 1 ELSE mem[x].freed
               /\ target.lang # "Vivado" => Balanced(R[k].mem, R[k].ctx)
             S == {k \in Nat : k \in 0..n => P(k)}
  <1>3. 0 \in S
    <2>1. R[0] = [mem |-> mem, ctx |-> ctx]
      BY <1>1 DEF ReleaseSteps
    <2>2. IsState(R[0]) /\ R[0].mem = mem /\ R[0].ctx = ctx
      BY <2>1 DEF IsState
    <2>3. Up2(0) = {}
      OBVIOUS
    <2> QED
      BY <2>2, <2>3
  <1>4. ASSUME NEW k \in Nat, k \in S
        PROVE  k + 1 \in S
    <2> SUFFICES ASSUME k + 1 \in 0..n
                 PROVE  P(k + 1)
      OBVIOUS
    <2>1. k \in 0..n /\ k + 1 \in 1..n /\ (k + 1) - 1 = k
      OBVIOUS
    <2>2. P(k)
      BY <1>4, <2>1
    <2>3. PICK i \in DOMAIN mem : i = ids[k + 1] /\ mem[i].freed = 0
      BY <1>2, <2>1
    <2>4. PICK s : s = R[k]
      OBVIOUS
    <2>5. PICK N : N = R[k + 1]
      OBVIOUS
    <2>6. N = ReleaseOne(s, i)
      BY <1>1, <1>2, <2>1, <2>3, <2>4, <2>5 DEF ReleaseSteps
    <2>7. IsState(s) /\ Kept(mem, s.mem) /\ Counted(target, s.mem, s.ctx, T)
      BY <2>2, <2>4
    <2>8. CountsStep(mem, s, i, N, T)
      BY <2>6, <2>7, ReleaseOneCounts
    <2>9. DOMAIN s.mem = DOMAIN mem /\ DOMAIN N.mem = DOMAIN mem
      BY <2>7, <2>8 DEF Kept, CountsStep
    <2>10. i \notin Up2(k) /\ Up2(k + 1) = Up2(k) \cup {i}
      <3>1. \A l \in 1..k : l \in 1..n /\ l # k + 1
        BY <2>1
      <3>2. \A l \in 1..k : ids[l] # i
        BY <1>2, <2>1, <2>3, <3>1
      <3>3. \A l \in 1..(k + 1) : l \in 1..k \/ l = k + 1
        OBVIOUS
      <3>4. \A l \in 1..k : l \in 1..(k + 1)
        OBVIOUS
      <3>5. k + 1 \in 1..(k + 1)
        OBVIOUS
      <3> QED
        BY <2>3, <3>2, <3>3, <3>4, <3>5
    <2>11. s.mem[i].freed = 0 /\ N.mem[i].freed = 1
      <3>1. s.mem[i].freed = 0
        BY <2>2, <2>3, <2>4, <2>10
      <3>2. N.mem[i].freed = s.mem[i].freed + 1
        BY <2>8, <2>9 DEF CountsStep, Freed
      <3> QED
        BY <3>1, <3>2
    <2>12. \A x \in DOMAIN mem : x # i => N.mem[x].freed = s.mem[x].freed
      BY <2>8, <2>9 DEF CountsStep, Freed
    <2>13. \A x \in DOMAIN mem :
             N.mem[x].freed = IF x \in Up2(k + 1) THEN 1 ELSE mem[x].freed
      BY <2>2, <2>4, <2>10, <2>11, <2>12
    <2>14. target.lang # "Vivado" => Balanced(N.mem, N.ctx)
      <3> SUFFICES ASSUME target.lang # "Vivado"
                   PROVE  Balanced(N.mem, N.ctx)
        OBVIOUS
      <3>1. \A x \in DOMAIN mem : s.mem[x].freed + Occurrences(s.ctx.imgs, x) = 1
        BY <2>2, <2>4, <2>9 DEF Balanced
      <3>2. IsSeq(s.ctx.imgs)
        BY <2>7 DEF Counted, ContextOK
      <3>3. Occurrences(s.ctx.imgs, i) = 1
        <4>1. Occurrences(s.ctx.imgs, i) \in Nat
          BY <3>2, OccurrencesType
        <4> QED
          BY <2>11, <3>1, <4>1
      <3>4. Listed(s, i)
        <4>1. \E l \in DOMAIN s.ctx.imgs : s.ctx.imgs[l] = i
          BY <3>2, <3>3, OccurrencesType
        <4> QED
          BY <4>1 DEF Listed, SameImage
      <3>5. LostEntry(s, i, N) /\ EntryOf(s, i) = i
        BY <2>8, <3>4 DEF CountsStep, LostEntry, SameImage
      <3>6. Occurrences(N.ctx.imgs, i) = 0
        BY <3>3, <3>5 DEF LostEntry
      <3>7. ASSUME NEW x \in DOMAIN mem, x # i
            PROVE  Occurrences(N.ctx.imgs, x) = Occurrences(s.ctx.imgs, x)
        <4>1. Occurrences(s.ctx.imgs, x) \in Nat
          BY <3>2, OccurrencesType
        <4> QED
          BY <3>5, <3>7, <4>1 DEF LostEntry
      <3>8. \A x \in DOMAIN mem : N.mem[x].freed + Occurrences(N.ctx.imgs, x) = 1
        BY <2>11, <2>12, <3>1, <3>6, <3>7
      <3> QED
        BY <2>9, <3>8 DEF Balanced
    <2> QED
      BY <2>5, <2>8, <2>13, <2>14 DEF CountsStep
  <1>5. Nat \subseteq S
    <2> HIDE DEF S
    <2> QED
      BY <1>3, <1>4, InductionOnNat
  <1>6. P(n)
    BY <1>5
  <1>7. Up2(n) = ToSet(ids)
    BY <1>2 DEF ToSet
  <1>8. R[n] = Release(mem, ctx, ids)
    BY <1>1, <1>2 DEF ReleaseSteps
  <1> QED
    BY <1>6, <1>7, <1>8 DEF ReleaseCounts

(* The images of Vivado are all the same to operator==: a release removes  *)
(* some entry of the context.                                              *)
LEMMA ReleaseIsCountedVivado ==
  ASSUME target.lang = "Vivado",
         NEW mem, Kept(mem, mem), NEW ctx, NEW T,
         \A k \in DOMAIN mem : T[k] \in Nat,
         Counted(target, mem, ctx, T), NEW i \in DOMAIN mem, Len(ctx.imgs) > 0
  PROVE  Len(Release(mem, ctx, <<i>>).ctx.imgs) = Len(ctx.imgs) - 1
  <1>1. PICK ids : ids = <<i>> /\ IsSeq(ids)
    BY OccurrencesOfOne
  <1>2. Len(ids) = 1 /\ ids[1] = i
    BY <1>1
  <1>3. PICK R : ReleaseSteps(R, mem, ctx, ids)
    BY <1>1, ReleaseIsSteps
  <1>4. PICK s : s = R[0] /\ s = [mem |-> mem, ctx |-> ctx]
    BY <1>3 DEF ReleaseSteps
  <1>5. IsState(s) /\ s.mem = mem /\ s.ctx = ctx
    BY <1>4 DEF IsState
  <1>6. R[1] = ReleaseOne(s, i)
    <2>1. 1 \in 1..1 /\ 1 - 1 = 0
      OBVIOUS
    <2> QED
      BY <1>2, <1>3, <1>4, <2>1 DEF ReleaseSteps
  <1>7. CountsStep(mem, s, i, R[1], T)
    BY <1>5, <1>6, ReleaseOneCounts
  <1>8. Listed(s, i)
    <2>1. IsSeq(ctx.imgs)
      BY DEF Counted, ContextOK
    <2>2. 1 \in DOMAIN ctx.imgs
      BY <2>1, SeqFacts
    <2> QED
      BY <1>5, <2>2 DEF Listed, SameImage
  <1>9. R[1] = Release(mem, ctx, ids)
    BY <1>2, <1>3 DEF ReleaseSteps
  <1> QED
    BY <1>1, <1>5, <1>7, <1>8, <1>9 DEF CountsStep, LostEntry

-----------------------------------------------------------------------------
(* The handles variables hold until main() has returned; the variable that *)
(* releases an image.                                                      *)
Holders(imgs, stg, rel, ph, i) ==
  IF ph = "left" THEN 0 ELSE Total(imgs, stg, rel, i)

Owns(imgs, stg, v, i) ==
  IF v \in ImageNames THEN imgs[v] = i
  ELSE \E k \in DOMAIN stg[v] : k > 1 /\ stg[v][k] = i

DeclaredIn(imgs, stg) ==
  {v \in Names : IF v \in ImageNames THEN imgs[v] # 0 ELSE stg[v] # <<>>}

TypedHandles(mem, imgs, stg) ==
  /\ IsSeq(mem) /\ \A n \in ImageNames : imgs[n] \in {0} \cup DOMAIN mem
  /\ AreSeqs(stg)
  /\ \A p \in PyramidNames : \A k \in DOMAIN stg[p] : stg[p][k] \in DOMAIN mem

OwnersOK(mem, imgs, stg) ==
  /\ \A i \in DOMAIN mem : \E v \in Names : Owns(imgs, stg, v, i)
  /\ \A i \in DOMAIN mem : \A u, v \in Names :
       Owns(imgs, stg, u, i) /\ Owns(imgs, stg, v, i) => u = v
  /\ \A p \in PyramidNames : \A j, k \in DOMAIN stg[p] :
       stg[p][j] = stg[p][k] => j = k

FreedOK(mem, imgs, stg, rel) ==
  \A i \in DOMAIN mem :
    mem[i].freed = IF \E v \in rel : Owns(imgs, stg, v, i) THEN 1 ELSE 0

ReleasedOK(imgs, stg, rel, ph) ==
  /\ ph \in {"running", "releasing", "left"}
  /\ rel \subseteq DeclaredIn(imgs, stg)
  /\ ph = "running" => rel = {}
  /\ ph = "left" => rel = DeclaredIn(imgs, stg)

ContextBalanced(t, mem, ctx, imgs, stg, rel) ==
  IF t.lang = "Vivado"
  THEN /\ Len(ctx.imgs) = Cardinality(DeclaredIn(imgs, stg) \ rel)
       /\ \A p \in PyramidNames : stg[p] = <<>>
  ELSE Balanced(mem, ctx)

CountOK(t, mem, ctx, imgs, stg, rel, ph) ==
  /\ TypedHandles(mem, imgs, stg)
  /\ Counted(t, mem, ctx,
             [i \in DOMAIN mem |-> Holders(imgs, stg, rel, ph, i)])
  /\ OwnersOK(mem, imgs, stg)
  /\ FreedOK(mem, imgs, stg, rel)
  /\ ReleasedOK(imgs, stg, rel, ph)
  /\ ContextBalanced(t, mem, ctx, imgs, stg, rel)

CountInv ==
  CountOK(target, memory, context, images, StagesOf(pyramids), released, phase)

LEMMA NameKinds ==
  /\ \A v \in Names : v \in ImageNames \/ v \in PyramidNames
  /\ \A p \in PyramidNames : p \in Names /\ p \notin ImageNames
  /\ \A n \in ImageNames : n \in Names /\ n \notin PyramidNames
  BY NamesDiffer DEF Names

(* An image that only gets other pixels keeps its counts.                  *)
LEMMA SameCountKeeps ==
  ASSUME NEW t, NEW mem, NEW ctx, NEW imgs, NEW stg, NEW rel, NEW ph,
         CountOK(t, mem, ctx, imgs, stg, rel, ph),
         NEW M, IsSeq(M), DOMAIN M = DOMAIN mem,
         \A i \in DOMAIN mem : SameCount(mem[i], M[i])
  PROVE  CountOK(t, M, ctx, imgs, stg, rel, ph)
  <1>1. TypedHandles(M, imgs, stg)
    BY DEF CountOK, TypedHandles
  <1>2. OwnersOK(M, imgs, stg)
    BY DEF CountOK, OwnersOK
  <1>3. FreedOK(M, imgs, stg, rel)
    BY DEF CountOK, FreedOK, SameCount
  <1>4. ContextBalanced(t, M, ctx, imgs, stg, rel)
    BY DEF CountOK, ContextBalanced, Balanced, SameCount
  <1>5. PICK T : T = [i \in DOMAIN mem |-> Holders(imgs, stg, rel, ph, i)]
    OBVIOUS
  <1>6. Counted(t, mem, ctx, T)
    BY <1>5 DEF CountOK
  <1>7. Counted(t, M, ctx, T)
    BY <1>6 DEF Counted, ContextOK, HasHandles, SameCount
  <1>8. T = [i \in DOMAIN M |-> Holders(imgs, stg, rel, ph, i)]
    BY <1>5
  <1>9. ReleasedOK(imgs, stg, rel, ph)
    BY DEF CountOK
  <1> QED
    BY <1>1, <1>2, <1>3, <1>4, <1>7, <1>8, <1>9 DEF CountOK

(* A variable that is not declared holds and owns nothing, and nobody      *)
(* holds an image that does not exist.                                     *)
LEMMA UndeclaredHoldsNothing ==
  ASSUME NEW mem, NEW imgs, NEW stg, TypedHandles(mem, imgs, stg), NEW rel,
         NEW v \in Names, NEW i \in Nat \ {0},
         v \notin DeclaredIn(imgs, stg) \/ i \notin DOMAIN mem
  PROVE  HandlesOf(imgs, stg, rel, v, i) = 0 /\ ~Owns(imgs, stg, v, i)
  <1>1. CASE v \in ImageNames
    <2>1. imgs[v] # i
      BY <1>1 DEF TypedHandles, DeclaredIn
    <2> QED
      BY <1>1, <2>1 DEF HandlesOf, Owns
  <1>2. CASE v \notin ImageNames
    <2>1. v \in PyramidNames
      BY <1>2, NameKinds
    <2>2. \A k \in DOMAIN stg[v] : stg[v][k] # i
      <3>1. CASE v \notin DeclaredIn(imgs, stg)
        <4>1. stg[v] = << >>
          BY <1>2, <3>1 DEF DeclaredIn
        <4> QED
          BY <4>1
      <3>2. CASE i \notin DOMAIN mem
        BY <2>1, <3>2 DEF TypedHandles
      <3> QED
        BY <3>1, <3>2
    <2>3. Holding(stg, rel, v, i) = {}
      BY <2>2 DEF Holding
    <2> QED
      BY <1>2, <2>2, <2>3, FS_EmptySet DEF HandlesOf, Owns
  <1> QED
    BY <1>1, <1>2

\* J and G differ from imgs and stg in the value of v only.
OnlyValueOf(v, imgs, stg, J, G) ==
  /\ \A x \in ImageNames : x # v => J[x] = imgs[x]
  /\ \A p \in PyramidNames : p # v => G[p] = stg[p]

LEMMA OthersHoldTheSame ==
  ASSUME NEW imgs, NEW stg, NEW J, NEW G, NEW v \in Names,
         OnlyValueOf(v, imgs, stg, J, G), NEW x \in Names, x # v, NEW i, NEW rel
  PROVE  HandlesOf(J, G, rel, x, i) = HandlesOf(imgs, stg, rel, x, i)
  <1>1. CASE x \in ImageNames
    BY <1>1 DEF HandlesOf, OnlyValueOf
  <1>2. CASE x \notin ImageNames
    <2>1. G[x] = stg[x]
      BY <1>2, NameKinds DEF OnlyValueOf
    <2>2. Holding(G, rel, x, i) = Holding(stg, rel, x, i)
      BY <2>1 DEF Holding
    <2> QED
      BY <1>2, <2>2 DEF HandlesOf
  <1> QED
    BY <1>1, <1>2

LEMMA OthersOwnTheSame ==
  ASSUME NEW imgs, NEW stg, NEW J, NEW G, NEW v \in Names,
         OnlyValueOf(v, imgs, stg, J, G), NEW x \in Names, x # v, NEW i
  PROVE  Owns(J, G, x, i) <=> Owns(imgs, stg, x, i)
  <1>1. CASE x \in ImageNames
    BY <1>1 DEF Owns, OnlyValueOf
  <1>2. CASE x \notin ImageNames
    <2>1. G[x] = stg[x]
      BY <1>2, NameKinds DEF OnlyValueOf
    <2> QED
      BY <1>2, <2>1 DEF Owns
  <1> QED
    BY <1>1, <1>2

LEMMA OthersAreDeclared ==
  ASSUME NEW imgs, NEW stg, NEW J, NEW G, NEW v \in Names,
         OnlyValueOf(v, imgs, stg, J, G), NEW x \in Names, x # v
  PROVE  x \in DeclaredIn(J, G) <=> x \in DeclaredIn(imgs, stg)
  <1>1. CASE x \in ImageNames
    BY <1>1 DEF DeclaredIn, OnlyValueOf
  <1>2. CASE x \notin ImageNames
    <2>1. G[x] = stg[x]
      BY <1>2, NameKinds DEF OnlyValueOf
    <2> QED
      BY <1>2, <2>1 DEF DeclaredIn
  <1> QED
    BY <1>1, <1>2

(* Declaring a variable v: it owns the new images, and may copy handles on *)
(* old ones.                                                               *)
IsNewImage(t, m) ==
  /\ m.refs = (IF t.lang = "Renderscript" THEN 3 ELSE 2)
  /\ m.live = TRUE /\ m.freed = 0

\* An old image, with h further handles.
MoreHandles(m, h, M) ==
  /\ M.refs = m.refs + h /\ M.live = m.live /\ M.freed = m.freed
  /\ h # 0 => m.live = TRUE

\* v is declared in a program with n images, l new ones with the numbers ids.
Declares(t, mem, ctx, imgs, stg, n, l, M, v, J, G, ids, C) ==
  /\ n = Len(mem) /\ IsSeq(M) /\ Len(M) = n + l
  /\ v \notin DeclaredIn(imgs, stg)
  /\ TypedHandles(M, J, G) /\ v \in DeclaredIn(J, G)
  /\ OnlyValueOf(v, imgs, stg, J, G)
  /\ \A i \in 1..(n + l) : Owns(J, G, v, i) <=> i > n
  /\ \A i \in 1..(n + l) : i > n => HandlesOf(J, G, {}, v, i) = 1
  /\ v \in PyramidNames => \A j, k \in DOMAIN G[v] : G[v][j] = G[v][k] => j = k
  /\ \A i \in 1..n : MoreHandles(mem[i], HandlesOf(J, G, {}, v, i), M[i])
  /\ \A i \in 1..(n + l) : i > n => IsNewImage(t, M[i])
  /\ IsSeq(ids) /\ Len(ids) = l /\ \A k \in 1..l : ids[k] = n + k
  /\ C.imgs = ctx.imgs \o ids
  /\ C.allocs = (IF t.lang = "Renderscript" THEN ctx.allocs \o ids ELSE <<>>)
  /\ t.lang = "Vivado" => l = 1 /\ v \in ImageNames

LEMMA DeclareKeepsCount ==
  ASSUME NEW t, NEW mem, NEW ctx, NEW imgs, NEW stg,
         CountOK(t, mem, ctx, imgs, stg, {}, "running"),
         NEW n \in Nat, NEW l \in Nat, NEW M, NEW v \in Names,
         NEW J, NEW G, NEW ids, NEW C,
         Declares(t, mem, ctx, imgs, stg, n, l, M, v, J, G, ids, C)
  PROVE  CountOK(t, M, C, J, G, {}, "running")
  <1> USE DEF Declares
  <1>1. /\ TypedHandles(mem, imgs, stg) /\ OwnersOK(mem, imgs, stg)
        /\ FreedOK(mem, imgs, stg, {})
        /\ ContextBalanced(t, mem, ctx, imgs, stg, {})
    BY DEF CountOK
  <1>2. IsSeq(mem) /\ DOMAIN mem = 1..n /\ DOMAIN M = 1..(n + l)
    BY <1>1, SeqFacts DEF TypedHandles
  <1>3. /\ ContextOK(t, mem, ctx)
        /\ \A i \in 1..n : HasHandles(mem[i], Total(imgs, stg, {}, i)
                                        + Entries(t, Occurrences(ctx.imgs, i)))
    BY <1>2 DEF CountOK, Counted, Holders
  <1>4. PICK L : L = ctx.imgs /\ IsSeq(L) /\ \A k \in DOMAIN L : L[k] \in 1..n
    BY <1>2, <1>3 DEF ContextOK
  <1>5. PICK K : K = L \o ids
    OBVIOUS
  <1>6. /\ IsSeq(K) /\ Len(K) = Len(L) + l /\ C.imgs = K
        /\ C.allocs = IF t.lang = "Renderscript" THEN K ELSE << >>
    <2>1. Joined(L, ids, K)
      BY <1>4, <1>5, SeqConcat
    <2>2. t.lang = "Renderscript" => ctx.allocs = L
      BY <1>3, <1>4 DEF ContextOK
    <2> QED
      BY <1>4, <1>5, <2>1, <2>2 DEF Joined
  <1>7. \A i : Occurrences(K, i) = Occurrences(L, i) + Occurrences(ids, i)
    BY <1>4, <1>5, OccurrencesJoin
  <1>8. DOMAIN ids = 1..l
    BY SeqFacts
  <1>9. \A i \in 1..n : i \in 1..(n + l) /\ ~(i > n) /\ Occurrences(ids, i) = 0
    <2> SUFFICES ASSUME NEW i \in 1..n
                 PROVE  i \in 1..(n + l) /\ ~(i > n) /\ Occurrences(ids, i) = 0
      OBVIOUS
    <2>1. \A k \in 1..l : n + k # i
      OBVIOUS
    <2>2. \A k \in DOMAIN ids : ids[k] # i
      BY <1>8, <2>1
    <2>3. Occurrences(ids, i) = 0
      BY <2>2, OccurrencesType
    <2> QED
      BY <2>3
  <1>10. \A i \in 1..(n + l) : i > n =>
           i \notin 1..n /\ Occurrences(ids, i) = 1 /\ Occurrences(L, i) = 0
    <2> SUFFICES ASSUME NEW i \in 1..(n + l), i > n
                 PROVE  i \notin 1..n /\ Occurrences(ids, i) = 1 /\ Occurrences(L, i) = 0
      OBVIOUS
    <2>1. i \notin 1..n
      OBVIOUS
    <2>2. i - n \in 1..l /\ i = n + (i - n)
      OBVIOUS
    <2>3. i \in ToSet(ids)
      <3>1. PICK j \in DOMAIN ids : ids[j] = i
        BY <1>8, <2>2
      <3> QED
        BY <3>1 DEF ToSet
    <2>4. \A j, k \in 1..l : n + j = n + k => j = k
      OBVIOUS
    <2>5. \A j, k \in DOMAIN ids : ids[j] = i /\ ids[k] = i => j = k
      BY <1>8, <2>4
    <2>6. Occurrences(ids, i) = 1
      BY <2>3, <2>5, OccursOnce
    <2>7. Occurrences(L, i) = 0
      BY <1>4, <2>1, OccurrencesType
    <2> QED
      BY <2>1, <2>6, <2>7
  <1>11. \A k \in DOMAIN K : K[k] \in 1..(n + l)
    <2> SUFFICES ASSUME NEW k \in DOMAIN K, K[k] \notin 1..(n + l)
                 PROVE  FALSE
      OBVIOUS
    <2>1. Occurrences(K, K[k]) # 0
      BY <1>6, OccurrencesType
    <2>2. Occurrences(L, K[k]) = 0
      <3>1. K[k] \notin 1..n
        BY <1>9
      <3> QED
        BY <1>4, <3>1, OccurrencesType
    <2>3. Occurrences(ids, K[k]) = 0
      <3>1. \A j \in 1..l : n + j \in 1..(n + l)
        OBVIOUS
      <3>2. PICK y : y = K[k] /\ y \notin 1..(n + l)
        OBVIOUS
      <3>3. \A j \in DOMAIN ids : ids[j] # y
        BY <1>8, <3>1, <3>2
      <3>4. IsSeq(ids)
        OBVIOUS
      <3>5. Occurrences(ids, y) = 0
        <4> HIDE DEF Declares
        <4> QED
          BY <3>3, <3>4, OccurrencesType
      <3> QED
        BY <3>2, <3>5
    <2> QED
      BY <1>7, <2>1, <2>2, <2>3
  <1>12. ContextOK(t, M, C)
    BY <1>2, <1>6, <1>11 DEF ContextOK
  <1>13. ASSUME NEW i \in 1..(n + l)
         PROVE  /\ Total(imgs, stg, {}, i) \in Nat
                /\ HandlesOf(J, G, {}, v, i) \in Nat
                /\ Total(J, G, {}, i)
                     = Total(imgs, stg, {}, i) + HandlesOf(J, G, {}, v, i)
                /\ i > n => Total(imgs, stg, {}, i) = 0
    <2>1. i \in Nat \ {0}
      OBVIOUS
    <2>2. HandlesOf(imgs, stg, {}, v, i) = 0
      BY <1>1, <2>1, UndeclaredHoldsNothing
    <2>3. OnlyOf(v, i, imgs, stg, {}, J, G, {})
      <3>1. ASSUME NEW x \in Names, x # v
            PROVE  HandlesOf(J, G, {}, x, i) = HandlesOf(imgs, stg, {}, x, i)
        BY <3>1, OthersHoldTheSame
      <3> QED
        BY <3>1 DEF OnlyOf
    <2>4. AreSeqs(stg) /\ AreSeqs(G)
      BY <1>1 DEF TypedHandles
    <2>5. HandlesOf(J, G, {}, v, i) \in Nat
      BY <2>4, HandlesType
    <2>6. /\ Total(imgs, stg, {}, i) \in Nat
          /\ Total(J, G, {}, i) = Total(imgs, stg, {}, i)
               + HandlesOf(J, G, {}, v, i) - HandlesOf(imgs, stg, {}, v, i)
      BY <2>3, <2>4, TotalChanges
    <2>7. ASSUME i > n
          PROVE  Total(imgs, stg, {}, i) = 0
      <3>1. i \notin DOMAIN mem
        BY <1>2, <2>7
      <3>2. ASSUME NEW x \in Names
            PROVE  HandlesOf(imgs, stg, {}, x, i) = 0
        BY <1>1, <2>1, <3>1, UndeclaredHoldsNothing
      <3> QED
        BY <3>2, NoHandles
    <2> QED
      BY <2>2, <2>5, <2>6, <2>7
  <1>14. ASSUME NEW i \in 1..(n + l)
         PROVE  HasHandles(M[i], Total(J, G, {}, i) + Entries(t, Occurrences(K, i)))
    <2>1. CASE i > n
      <3>0. HandlesOf(J, G, {}, v, i) = 1
        BY <2>1
      <3>1. Total(J, G, {}, i) = 1 /\ Occurrences(K, i) = 1
        BY <1>7, <1>10, <1>13, <2>1, <3>0
      <3>2. M[i].refs = (IF t.lang = "Renderscript" THEN 3 ELSE 2) /\ M[i].live = TRUE
        BY <2>1 DEF IsNewImage
      <3>3. 1 + Entries(t, 1) = IF t.lang = "Renderscript" THEN 3 ELSE 2
        BY DEF Entries
      <3>4. M[i].refs = 1 + Entries(t, 1)
        BY <3>2, <3>3
      <3>5. M[i].live = (1 + Entries(t, 1) > 0)
        <4>1. PICK e \in Nat : e = Entries(t, 1)
          BY DEF Entries
        <4>2. (1 + e > 0) = TRUE
          OBVIOUS
        <4> QED
          BY <3>2, <4>1, <4>2
      <3> QED
        BY <3>1, <3>4, <3>5 DEF HasHandles
    <2>2. CASE ~(i > n)
      <3>1. i \in 1..n
        BY <2>2
      <3>2. PICK a \in Nat, h \in Nat :
              /\ a = Total(imgs, stg, {}, i) /\ h = HandlesOf(J, G, {}, v, i)
              /\ Total(J, G, {}, i) = a + h
        BY <1>13
      <3>3. PICK o \in Nat : o = Occurrences(L, i) /\ o = Occurrences(K, i)
        <4>1. Occurrences(L, i) \in Nat
          BY <1>4, OccurrencesType
        <4> QED
          BY <1>7, <1>9, <3>1, <4>1
      <3>4. PICK e \in Nat : e = Entries(t, o)
        BY DEF Entries
      <3>5. HasHandles(mem[i], a + e)
        BY <1>3, <1>4, <3>1, <3>2, <3>3, <3>4
      <3>6. MoreHandles(mem[i], h, M[i])
        BY <3>1, <3>2
      <3>7. M[i].refs = (a + h) + e
        BY <3>5, <3>6 DEF HasHandles, MoreHandles
      <3>8. M[i].live = ((a + h) + e > 0)
        <4>1. M[i].live = (a + e > 0) /\ (h # 0 => M[i].live = TRUE)
          BY <3>5, <3>6 DEF HasHandles, MoreHandles
        <4>2. CASE h = 0
          BY <4>1, <4>2
        <4>3. CASE h # 0
          <5>1. ((a + h) + e > 0) = TRUE
            BY <4>3
          <5> QED
            BY <4>1, <4>3, <5>1
        <4> QED
          BY <4>2, <4>3
      <3> QED
        BY <3>2, <3>3, <3>4, <3>7, <3>8 DEF HasHandles
    <2> QED
      BY <2>1, <2>2
  <1>15. Counted(t, M, C, [i \in DOMAIN M |-> Holders(J, G, {}, "running", i)])
    BY <1>2, <1>6, <1>12, <1>14 DEF Counted, Holders
  <1>16. \A i \in 1..(n + l), x \in Names :
           x # v => (Owns(J, G, x, i) <=> Owns(imgs, stg, x, i))
    <2> SUFFICES ASSUME NEW i \in 1..(n + l), NEW x \in Names, x # v
                 PROVE  Owns(J, G, x, i) <=> Owns(imgs, stg, x, i)
      OBVIOUS
    <2> QED
      BY OthersOwnTheSame
  <1>17. \A i \in 1..n, x \in Names : Owns(J, G, x, i) <=> Owns(imgs, stg, x, i)
    <2>1. \A i \in 1..n : ~Owns(J, G, v, i)
      BY <1>9
    <2>2. \A i \in 1..n : ~Owns(imgs, stg, v, i)
      <3>1. \A i \in 1..n : i \in Nat \ {0}
        OBVIOUS
      <3> QED
        BY <1>1, <3>1, UndeclaredHoldsNothing
    <2> QED
      BY <1>9, <1>16, <2>1, <2>2
  <1>18. \A i \in 1..(n + l), x \in Names : i > n /\ Owns(J, G, x, i) => x = v
    <2> SUFFICES ASSUME NEW i \in 1..(n + l), NEW x \in Names, i > n,
                        Owns(J, G, x, i), x # v
                 PROVE  FALSE
      OBVIOUS
    <2>1. Owns(imgs, stg, x, i)
      BY <1>16
    <2>2. i \in Nat \ {0} /\ i \notin DOMAIN mem
      BY <1>2, <1>10
    <2> QED
      BY <1>1, <2>1, <2>2, UndeclaredHoldsNothing
  <1>19. OwnersOK(M, J, G)
    <2>1. ASSUME NEW i \in 1..(n + l)
          PROVE  \E x \in Names : Owns(J, G, x, i)
      <3>1. CASE i > n
        BY <3>1
      <3>2. CASE ~(i > n)
        <4>1. i \in 1..n
          BY <3>2
        <4>2. PICK x \in Names : Owns(imgs, stg, x, i)
          BY <1>1, <1>2, <4>1 DEF OwnersOK
        <4> QED
          BY <1>17, <4>1, <4>2
      <3> QED
        BY <3>1, <3>2
    <2>2. ASSUME NEW i \in 1..(n + l), NEW u \in Names, NEW w \in Names,
                 Owns(J, G, u, i), Owns(J, G, w, i)
          PROVE  u = w
      <3>1. CASE i > n
        BY <1>18, <2>2, <3>1
      <3>2. CASE ~(i > n)
        <4>1. i \in 1..n
          BY <3>2
        <4>2. Owns(imgs, stg, u, i) /\ Owns(imgs, stg, w, i)
          BY <1>17, <2>2, <4>1
        <4> QED
          BY <1>1, <1>2, <4>1, <4>2 DEF OwnersOK
      <3> QED
        BY <3>1, <3>2
    <2>3. \A p \in PyramidNames : \A j, k \in DOMAIN G[p] : G[p][j] = G[p][k] => j = k
      BY <1>1 DEF OwnersOK, OnlyValueOf
    <2> QED
      BY <1>2, <2>1, <2>2, <2>3 DEF OwnersOK
  <1>20. FreedOK(M, J, G, {})
    <2> SUFFICES ASSUME NEW i \in 1..(n + l)
                 PROVE  M[i].freed = 0
      BY <1>2 DEF FreedOK
    <2>1. CASE i > n
      BY <2>1 DEF IsNewImage
    <2>2. CASE ~(i > n)
      <3>1. i \in 1..n
        BY <2>2
      <3>2. mem[i].freed = 0
        BY <1>1, <1>2, <3>1 DEF FreedOK
      <3> QED
        BY <3>1, <3>2 DEF MoreHandles
    <2> QED
      BY <2>1, <2>2
  <1>21. ReleasedOK(J, G, {}, "running")
    BY DEF ReleasedOK
  <1>22. ContextBalanced(t, M, C, J, G, {})
    <2>1. CASE t.lang = "Vivado"
      <3>1. PICK D : D = DeclaredIn(imgs, stg)
        OBVIOUS
      <3>2. DeclaredIn(J, G) = D \cup {v}
        <4>1. ASSUME NEW x \in Names, x # v
              PROVE  x \in DeclaredIn(J, G) <=> x \in D
          BY <3>1, <4>1, OthersAreDeclared
        <4>2. DeclaredIn(J, G) \subseteq Names /\ D \subseteq Names
          BY <3>1 DEF DeclaredIn
        <4> QED
          BY <4>1, <4>2
      <3>3. IsFiniteSet(D)
        BY <3>1, NamesFinite, FS_Subset DEF DeclaredIn
      <3>4. Cardinality(D \cup {v}) = Cardinality(D) + 1
        BY <3>1, <3>3, FS_AddElement
      <3>5. Len(L) = Cardinality(D) /\ \A p \in PyramidNames : stg[p] = << >>
        <4>1. D \ {} = D
          OBVIOUS
        <4> QED
          BY <1>1, <1>4, <2>1, <3>1, <4>1 DEF ContextBalanced
      <3>6. \A p \in PyramidNames : G[p] = << >>
        BY <2>1, <3>5, NameKinds DEF OnlyValueOf
      <3>7. DeclaredIn(J, G) \ {} = D \cup {v}
        BY <3>2
      <3>8. Len(C.imgs) = Cardinality(D \cup {v})
        BY <1>6, <2>1, <3>4, <3>5
      <3> QED
        BY <2>1, <3>6, <3>7, <3>8 DEF ContextBalanced
    <2>2. CASE t.lang # "Vivado"
      <3>1. ASSUME NEW i \in 1..(n + l)
            PROVE  M[i].freed + Occurrences(K, i) = 1
        <4>1. CASE i > n
          BY <1>7, <1>10, <4>1 DEF IsNewImage
        <4>2. CASE ~(i > n)
          <5>1. i \in 1..n
            BY <4>2
          <5>2. mem[i].freed + Occurrences(L, i) = 1
            BY <1>1, <1>2, <1>4, <2>2, <5>1 DEF ContextBalanced, Balanced
          <5>3. Occurrences(L, i) \in Nat
            BY <1>4, OccurrencesType
          <5>4. M[i].freed = mem[i].freed
            BY <5>1 DEF MoreHandles
          <5> QED
            BY <1>7, <1>9, <5>1, <5>2, <5>3, <5>4
        <4> QED
          BY <4>1, <4>2
      <3> QED
        BY <1>2, <1>6, <2>2, <3>1 DEF ContextBalanced, Balanced
    <2> QED
      BY <2>1, <2>2
  <1> QED
    BY <1>15, <1>19, <1>20, <1>21, <1>22 DEF CountOK

(* A release: the images v owns lose the handle of the context, and those  *)
(* of a pyramid that of the stage.                                         *)
LEMMA ReleasedHandles ==
  ASSUME NEW mem, NEW imgs, NEW stg, TypedHandles(mem, imgs, stg),
         OwnersOK(mem, imgs, stg), NEW rel, NEW v \in Names, v \notin rel,
         NEW i \in DOMAIN mem
  PROVE  /\ OnlyOf(v, i, imgs, stg, rel, imgs, stg, rel \cup {v})
         /\ v \in ImageNames =>
              HandlesOf(imgs, stg, rel \cup {v}, v, i) = HandlesOf(imgs, stg, rel, v, i)
         /\ v \notin ImageNames => HandlesOf(imgs, stg, rel \cup {v}, v, i)
              = HandlesOf(imgs, stg, rel, v, i) - (IF Owns(imgs, stg, v, i) THEN 1 ELSE 0)
  <1>1. ASSUME NEW x \in Names, x # v
        PROVE  HandlesOf(imgs, stg, rel \cup {v}, x, i) = HandlesOf(imgs, stg, rel, x, i)
    <2>1. Holding(stg, rel \cup {v}, x, i) = Holding(stg, rel, x, i)
      BY <1>1 DEF Holding
    <2> QED
      BY <2>1 DEF HandlesOf
  <1>2. ASSUME v \notin ImageNames
        PROVE  HandlesOf(imgs, stg, rel \cup {v}, v, i)
                 = HandlesOf(imgs, stg, rel, v, i) - (IF Owns(imgs, stg, v, i) THEN 1 ELSE 0)
    <2>1. v \in PyramidNames
      BY <1>2, NameKinds
    <2>2. PICK A : A = Holding(stg, rel, v, i)
      OBVIOUS
    <2>3. PICK B : B = Holding(stg, rel \cup {v}, v, i)
      OBVIOUS
    <2>4. A = {k \in DOMAIN stg[v] : stg[v][k] = i}
      BY <2>2 DEF Holding
    <2>5. B = {k \in DOMAIN stg[v] : stg[v][k] = i /\ ~(k > 1)}
      BY <2>3 DEF Holding
    <2>6. \A j, k \in DOMAIN stg[v] : stg[v][j] = stg[v][k] => j = k
      BY <2>1 DEF OwnersOK
    <2>7. HandlesOf(imgs, stg, rel, v, i) = Cardinality(A)
      BY <1>2, <2>2 DEF HandlesOf
    <2>8. HandlesOf(imgs, stg, rel \cup {v}, v, i) = Cardinality(B)
      BY <1>2, <2>3 DEF HandlesOf
    <2>9. HandlesOf(imgs, stg, rel, v, i) \in Nat
      BY HandlesType DEF TypedHandles
    <2>10. CASE Owns(imgs, stg, v, i)
      <3>1. PICK k \in DOMAIN stg[v] : k > 1 /\ stg[v][k] = i
        BY <1>2, <2>10 DEF Owns
      <3>2. A = {k} /\ B = {}
        BY <2>4, <2>5, <2>6, <3>1
      <3>3. Cardinality(A) = 1 /\ Cardinality(B) = 0
        BY <3>2, FS_Singleton, FS_EmptySet
      <3> QED
        BY <2>7, <2>8, <2>10, <3>3
    <2>11. CASE ~Owns(imgs, stg, v, i)
      <3>1. A = B
        BY <1>2, <2>4, <2>5, <2>11 DEF Owns
      <3> QED
        BY <2>7, <2>8, <2>9, <2>11, <3>1
    <2> QED
      BY <2>10, <2>11
  <1>3. OnlyOf(v, i, imgs, stg, rel, imgs, stg, rel \cup {v})
    BY <1>1 DEF OnlyOf
  <1>4. v \in ImageNames =>
          HandlesOf(imgs, stg, rel \cup {v}, v, i) = HandlesOf(imgs, stg, rel, v, i)
    BY DEF HandlesOf
  <1> QED
    BY <1>2, <1>3, <1>4

\* A variable releases the images it owns, each of them once.
ReleasesOwn(mem, imgs, stg, v, ids) ==
  /\ IsSeq(ids) /\ \A k \in DOMAIN ids : ids[k] \in DOMAIN mem
  /\ \A j, k \in DOMAIN ids : ids[j] = ids[k] => j = k
  /\ \A i \in DOMAIN mem : i \in ToSet(ids) <=> Owns(imgs, stg, v, i)
  /\ target.lang = "Vivado" => \E i \in DOMAIN mem : ids = <<i>>

\* The stages of a pyramid lose a handle more.
Remaining(mem, v, ids, m) ==
  IF v \in ImageNames THEN m
  ELSE [i \in DOMAIN mem |-> IF i \in ToSet(ids) THEN Dropped(m[i], 1) ELSE m[i]]

LEMMA ReleaseKeepsCount ==
  ASSUME NEW mem, NEW ctx, NEW imgs, NEW stg, NEW rel, NEW ph \in {"running", "releasing"},
         CountOK(target, mem, ctx, imgs, stg, rel, ph), Kept(mem, mem),
         NEW v \in DeclaredIn(imgs, stg), v \notin rel,
         NEW ids, ReleasesOwn(mem, imgs, stg, v, ids),
         NEW A, A = Release(mem, ctx, ids),
         NEW M, M = Remaining(mem, v, ids, A.mem)
  PROVE  CountOK(target, M, A.ctx, imgs, stg, rel \cup {v}, "releasing")
  <1> USE DEF ReleasesOwn, Remaining
  <1>1. /\ TypedHandles(mem, imgs, stg) /\ OwnersOK(mem, imgs, stg)
        /\ FreedOK(mem, imgs, stg, rel) /\ ReleasedOK(imgs, stg, rel, ph)
        /\ ContextBalanced(target, mem, ctx, imgs, stg, rel)
    BY DEF CountOK
  <1>2. v \in Names
    BY DEF DeclaredIn
  <1>3. PICK T : T = [i \in DOMAIN mem |-> Total(imgs, stg, rel, i)]
    OBVIOUS
  <1>4. Counted(target, mem, ctx, T)
    <2>1. T = [i \in DOMAIN mem |-> Holders(imgs, stg, rel, ph, i)]
      BY <1>3 DEF Holders
    <2> QED
      BY <2>1 DEF CountOK
  <1>5. AreSeqs(stg)
    BY <1>1 DEF TypedHandles
  <1>6. \A i \in DOMAIN mem : T[i] \in Nat /\ mem[i].freed \in {0, 1}
    BY <1>1, <1>3, <1>5, TotalType DEF FreedOK
  <1>7. ASSUME NEW i \in DOMAIN mem, Owns(imgs, stg, v, i), NEW u \in rel
        PROVE  ~Owns(imgs, stg, u, i)
    <2>1. u \in Names /\ u # v
      BY <1>1 DEF ReleasedOK, DeclaredIn
    <2> QED
      BY <1>1, <1>2, <1>7, <2>1 DEF OwnersOK
  <1>8. \A k \in DOMAIN ids : mem[ids[k]].freed = 0
    <2> SUFFICES ASSUME NEW k \in DOMAIN ids
                 PROVE  mem[ids[k]].freed = 0
      OBVIOUS
    <2>1. PICK i \in DOMAIN mem : i = ids[k]
      OBVIOUS
    <2>2. i \in ToSet(ids)
      BY <2>1 DEF ToSet
    <2>3. ~\E u \in rel : Owns(imgs, stg, u, i)
      BY <1>7, <2>2
    <2> QED
      BY <1>1, <2>1, <2>3 DEF FreedOK
  <1>9. target.lang # "Vivado" => Balanced(mem, ctx)
    BY <1>1 DEF ContextBalanced
  <1>10. /\ ReleaseCounts(mem, ctx, ids, A, T)
         /\ target.lang # "Vivado" => Balanced(A.mem, A.ctx)
    <2>1. \A k \in DOMAIN mem : T[k] \in Nat /\ mem[k].freed \in Nat
      BY <1>6
    <2> QED
      BY <1>4, <1>8, <1>9, <2>1, ReleaseIsCounted
  <1>11. /\ DOMAIN A.mem = DOMAIN mem /\ IsSeq(A.mem)
         /\ \A i \in DOMAIN mem : IsImage(A.mem[i])
         /\ ContextOK(target, A.mem, A.ctx)
         /\ \A i \in DOMAIN mem : HasHandles(A.mem[i],
              T[i] + Entries(target, Occurrences(A.ctx.imgs, i)))
    BY <1>10 DEF ReleaseCounts, Kept, Counted
  <1>12. \A i \in DOMAIN mem :
           A.mem[i].freed = IF i \in ToSet(ids) THEN 1 ELSE mem[i].freed
    BY <1>10 DEF ReleaseCounts
  <1>13. /\ DOMAIN M = DOMAIN mem /\ IsSeq(M)
         /\ \A i \in DOMAIN mem :
              M[i] = IF v \notin ImageNames /\ i \in ToSet(ids)
                     THEN Dropped(A.mem[i], 1) ELSE A.mem[i]
    <2>1. CASE v \in ImageNames
      BY <1>11, <2>1
    <2>2. CASE v \notin ImageNames
      <3>1. DOMAIN mem = 1..Len(A.mem) /\ Len(A.mem) \in Nat
        BY <1>11, SeqFacts
      <3>2. M = [i \in 1..Len(A.mem) |-> M[i]]
        BY <2>2, <3>1
      <3>3. IsSeq(M)
        BY <3>1, <3>2, SeqMade
      <3> QED
        BY <2>2, <3>3
    <2> QED
      BY <2>1, <2>2
  <1>14. \A i \in DOMAIN mem : M[i].freed = A.mem[i].freed
    BY <1>11, <1>13, DroppedUpdate
  <1>15. TypedHandles(M, imgs, stg) /\ OwnersOK(M, imgs, stg)
    BY <1>1, <1>13 DEF TypedHandles, OwnersOK
  <1>16. FreedOK(M, imgs, stg, rel \cup {v})
    <2> SUFFICES ASSUME NEW i \in DOMAIN mem
                 PROVE  M[i].freed = IF \E u \in rel \cup {v} : Owns(imgs, stg, u, i)
                                     THEN 1 ELSE 0
      BY <1>13 DEF FreedOK
    <2>1. mem[i].freed = IF \E u \in rel : Owns(imgs, stg, u, i) THEN 1 ELSE 0
      BY <1>1 DEF FreedOK
    <2>2. (\E u \in rel \cup {v} : Owns(imgs, stg, u, i))
            <=> (i \in ToSet(ids) \/ \E u \in rel : Owns(imgs, stg, u, i))
      OBVIOUS
    <2> QED
      BY <1>12, <1>14, <2>1, <2>2
  <1>17. ReleasedOK(imgs, stg, rel \cup {v}, "releasing")
    BY <1>1 DEF ReleasedOK
  <1>18. ContextBalanced(target, M, A.ctx, imgs, stg, rel \cup {v})
    <2>1. CASE target.lang = "Vivado"
      <3>1. PICK i \in DOMAIN mem : ids = <<i>>
        BY <2>1
      <3>2. PICK D : D = DeclaredIn(imgs, stg) \ rel
        OBVIOUS
      <3>3. IsFiniteSet(D)
        <4>1. D \in SUBSET Names
          BY <3>2 DEF DeclaredIn
        <4> QED
          BY <4>1, NamesFinite, FS_Subset
      <3>4. /\ D \ {v} = DeclaredIn(imgs, stg) \ (rel \cup {v})
            /\ Cardinality(D \ {v}) = Cardinality(D) - 1 /\ Cardinality(D) \in Nat
        BY <3>2, <3>3, FS_RemoveElement, FS_CardinalityType
      <3>5. Len(ctx.imgs) = Cardinality(D) /\ \A p \in PyramidNames : stg[p] = << >>
        BY <1>1, <2>1, <3>2 DEF ContextBalanced
      <3>6. Cardinality(D) # 0
        BY <3>2, <3>3, FS_EmptySet
      <3>7. Len(ctx.imgs) > 0
        BY <3>4, <3>5, <3>6
      <3>8. Len(A.ctx.imgs) = Len(ctx.imgs) - 1
        BY <1>4, <1>6, <2>1, <3>1, <3>7, ReleaseIsCountedVivado
      <3> QED
        BY <2>1, <3>4, <3>5, <3>8 DEF ContextBalanced
    <2>2. CASE target.lang # "Vivado"
      BY <1>10, <1>11, <1>13, <1>14, <2>2 DEF ContextBalanced, Balanced
    <2> QED
      BY <2>1, <2>2
  <1>19. ASSUME NEW i \in DOMAIN mem
         PROVE  HasHandles(M[i], Total(imgs, stg, rel \cup {v}, i)
                                   + Entries(target, Occurrences(A.ctx.imgs, i)))
    <2>1. PICK a \in Nat : a = T[i] /\ a = Total(imgs, stg, rel, i)
      BY <1>3, <1>6
    <2>2. PICK h \in Nat : h = HandlesOf(imgs, stg, rel, v, i)
      BY <1>2, <1>5, HandlesType
    <2>3. PICK g \in Nat : g = HandlesOf(imgs, stg, rel \cup {v}, v, i)
      BY <1>2, <1>5, HandlesType
    <2>4. OnlyOf(v, i, imgs, stg, rel, imgs, stg, rel \cup {v})
      BY <1>1, <1>2, ReleasedHandles
    <2>5. h <= a /\ Total(imgs, stg, rel \cup {v}, i) = a + g - h
      BY <1>2, <1>5, <2>1, <2>2, <2>3, <2>4, TotalChanges
    <2>6. PICK e \in Nat : e = Entries(target, Occurrences(A.ctx.imgs, i))
      <3>1. Occurrences(A.ctx.imgs, i) \in Nat
        BY <1>11, OccurrencesType DEF ContextOK
      <3> QED
        BY <3>1 DEF Entries
    <2>7. HasHandles(A.mem[i], a + e)
      BY <1>11, <2>1, <2>6
    <2>8. CASE v \notin ImageNames /\ i \in ToSet(ids)
      <3>1. g = h - 1
        <4>1. Owns(imgs, stg, v, i)
          BY <2>8
        <4>2. HandlesOf(imgs, stg, rel \cup {v}, v, i)
                = HandlesOf(imgs, stg, rel, v, i) - (IF Owns(imgs, stg, v, i) THEN 1 ELSE 0)
          <5>1. v \notin ImageNames
            BY <2>8
          <5> HIDE DEF ReleasesOwn, Remaining
          <5> QED
            BY <1>1, <1>2, <5>1, ReleasedHandles
        <4> QED
          BY <2>2, <2>3, <4>1, <4>2
      <3>2. PICK n \in Nat : n = a + e
        OBVIOUS
      <3>3. 1 <= n /\ n - 1 = (a + g - h) + e
        BY <2>5, <3>1, <3>2
      <3>4. HasHandles(Dropped(A.mem[i], 1), n - 1)
        BY <1>11, <2>7, <3>2, <3>3, DropsHandles
      <3> QED
        BY <1>13, <2>5, <2>6, <2>8, <3>3, <3>4
    <2>9. CASE ~(v \notin ImageNames /\ i \in ToSet(ids))
      <3>1. g = h
        BY <1>1, <1>2, <2>2, <2>3, <2>9, ReleasedHandles
      <3>2. M[i] = A.mem[i]
        BY <1>13, <2>9
      <3>3. a + g - h = a
        BY <3>1
      <3> QED
        BY <2>5, <2>6, <2>7, <3>2, <3>3
    <2> QED
      BY <2>8, <2>9
  <1>20. Counted(target, M, A.ctx,
                 [i \in DOMAIN M |-> Holders(imgs, stg, rel \cup {v}, "releasing", i)])
    <2>1. ContextOK(target, M, A.ctx)
      BY <1>11, <1>13 DEF ContextOK
    <2> QED
      BY <1>13, <1>19, <2>1 DEF Counted, Holders
  <1> QED
    BY <1>15, <1>16, <1>17, <1>18, <1>20 DEF CountOK

(* When main() returns, the variables give up their handles.               *)
LEMMA LeaveKeepsCount ==
  ASSUME NEW mem, NEW ctx, NEW imgs, NEW stg, NEW rel, NEW t,
         CountOK(t, mem, ctx, imgs, stg, rel, "releasing"), Kept(mem, mem),
         rel = DeclaredIn(imgs, stg),
         NEW M, M = [i \in DOMAIN mem |-> Dropped(mem[i], Total(imgs, stg, rel, i))]
  PROVE  CountOK(t, M, ctx, imgs, stg, rel, "left")
  <1>1. /\ TypedHandles(mem, imgs, stg) /\ OwnersOK(mem, imgs, stg)
        /\ FreedOK(mem, imgs, stg, rel) /\ ReleasedOK(imgs, stg, rel, "releasing")
        /\ ContextBalanced(t, mem, ctx, imgs, stg, rel)
    BY DEF CountOK
  <1>2. /\ ContextOK(t, mem, ctx)
        /\ \A i \in DOMAIN mem : HasHandles(mem[i], Total(imgs, stg, rel, i)
                                   + Entries(t, Occurrences(ctx.imgs, i)))
    BY DEF CountOK, Counted, Holders
  <1>3. DOMAIN M = DOMAIN mem /\ IsSeq(M)
    <2>1. DOMAIN mem = 1..Len(mem) /\ Len(mem) \in Nat
      BY <1>1, SeqFacts DEF TypedHandles
    <2>2. M = [i \in 1..Len(mem) |-> M[i]]
      BY <2>1
    <2> QED
      BY <2>1, <2>2, SeqMade
  <1>4. \A i \in DOMAIN mem : IsImage(mem[i])
    BY DEF Kept
  <1>5. \A i \in DOMAIN mem : M[i].freed = mem[i].freed
    BY <1>4, DroppedUpdate
  <1>6. ASSUME NEW i \in DOMAIN mem
        PROVE  HasHandles(M[i], 0 + Entries(t, Occurrences(ctx.imgs, i)))
    <2>1. PICK a \in Nat : a = Total(imgs, stg, rel, i)
      BY <1>1, TotalType DEF TypedHandles
    <2>2. PICK e \in Nat : e = Entries(t, Occurrences(ctx.imgs, i))
      <3>1. Occurrences(ctx.imgs, i) \in Nat
        BY <1>2, OccurrencesType DEF ContextOK
      <3> QED
        BY <3>1 DEF Entries
    <2>3. PICK n \in Nat : n = a + e
      OBVIOUS
    <2>4. HasHandles(mem[i], n)
      BY <1>2, <2>1, <2>2, <2>3
    <2>5. a <= n /\ n - a = 0 + e
      BY <2>3
    <2>6. HasHandles(Dropped(mem[i], a), n - a)
      BY <1>4, <2>4, <2>5, DropsHandles
    <2> QED
      BY <2>1, <2>2, <2>5, <2>6
  <1>7. TypedHandles(M, imgs, stg) /\ OwnersOK(M, imgs, stg)
    BY <1>1, <1>3 DEF TypedHandles, OwnersOK
  <1>8. FreedOK(M, imgs, stg, rel)
    BY <1>1, <1>3, <1>5 DEF FreedOK
  <1>9. ContextBalanced(t, M, ctx, imgs, stg, rel)
    BY <1>1, <1>3, <1>5 DEF ContextBalanced, Balanced
  <1>10. Counted(t, M, ctx, [i \in DOMAIN M |-> Holders(imgs, stg, rel, "left", i)])
    <2>1. ContextOK(t, M, ctx)
      BY <1>2, <1>3 DEF ContextOK
    <2> QED
      BY <1>3, <1>6, <2>1 DEF Counted, Holders
  <1>11. ReleasedOK(imgs, stg, rel, "left")
    BY DEF ReleasedOK
  <1> QED
    BY <1>7, <1>8, <1>9, <1>10, <1>11 DEF CountOK

-----------------------------------------------------------------------------
(* The statements of the host program keep the invariant.                  *)
LEMMA HandlesAreTyped ==
  ASSUME NEW t, NEW mem, NEW imgs, NEW pyrs, NEW accs,
         ImagesOK(t, mem), HandlesOK(mem, imgs, pyrs, accs)
  PROVE  TypedHandles(mem, imgs, StagesOf(pyrs))
  <1>1. IsSeq(mem)
    BY DEF ImagesOK
  <1>2. PICK n \in Nat : n = Len(mem) /\ DOMAIN mem = 1..n
    BY <1>1, SeqFacts
  <1>3. \A x \in ImageNames : imgs[x] \in {0} \cup DOMAIN mem
    <2>1. imgs \in [ImageNames -> 0..n]
      BY <1>2 DEF HandlesOK
    <2>2. \A x \in ImageNames : imgs[x] \in 0..n
      BY <2>1
    <2> QED
      BY <1>2, <2>2
  <1>4. \A p \in PyramidNames : /\ StagesOf(pyrs)[p] = pyrs[p].imgs
                                /\ StagesIn(mem, pyrs[p])
    BY DEF StagesOf, HandlesOK
  <1> QED
    BY <1>1, <1>3, <1>4 DEF TypedHandles, AreSeqs, StagesIn

LEMMA CountKept ==
  ASSUME CountInv, NEW M, memory' = M, IsSeq(M), DOMAIN M = DOMAIN memory,
         \A i \in DOMAIN memory : SameCount(memory[i], M[i]),
         StagesOf(pyramids') = StagesOf(pyramids),
         UNCHANGED <<target, context, images, released, phase>>
  PROVE  CountInv'
  <1>1. CountOK(target, M, context, images, StagesOf(pyramids), released, phase)
    BY SameCountKeeps DEF CountInv
  <1> QED
    BY <1>1 DEF CountInv

LEMMA CountUnchanged ==
  ASSUME CountInv, MemoryInv,
         \A p \in PyramidNames : pyramids'[p].imgs = pyramids[p].imgs,
         UNCHANGED <<target, memory, context, images, released, phase>>
  PROVE  CountInv'
  <1>1. StagesOf(pyramids') = StagesOf(pyramids)
    BY DEF StagesOf
  <1>2. \A i \in DOMAIN memory : SameCount(memory[i], memory[i])
    BY DEF SameCount
  <1> QED
    BY <1>1, <1>2, MemoryFacts, CountKept

LEMMA OneImageCounts ==
  ASSUME CountInv, MemoryInv, NEW i \in DOMAIN memory, NEW e,
         SameCount(memory[i], e), memory' = [memory EXCEPT ![i] = e],
         UNCHANGED <<target, context, images, pyramids, released, phase>>
  PROVE  CountInv'
  <1>1. PICK M : M = [memory EXCEPT ![i] = e]
    OBVIOUS
  <1>2. /\ IsSeq(M) /\ DOMAIN M = DOMAIN memory /\ M[i] = e
        /\ \A j \in DOMAIN memory : j # i => M[j] = memory[j]
    BY <1>1, MemoryFacts, SeqUpdate
  <1>3. \A j \in DOMAIN memory : SameCount(memory[j], M[j])
    <2> SUFFICES ASSUME NEW j \in DOMAIN memory
                 PROVE  SameCount(memory[j], M[j])
      OBVIOUS
    <2>1. CASE j = i
      BY <1>2, <2>1
    <2>2. CASE j # i
      BY <1>2, <2>2 DEF SameCount
    <2> QED
      BY <2>1, <2>2
  <1>4. StagesOf(pyramids') = StagesOf(pyramids) /\ memory' = M
    BY <1>1
  <1> QED
    BY <1>2, <1>3, <1>4, CountKept

LEMMA SetDeviceCounts ==
  ASSUME CountInv, MemoryInv, NEW i \in DOMAIN memory, NEW d, SetDevice(i, d),
         UNCHANGED <<target, context, images, pyramids, released, phase>>
  PROVE  CountInv'
  <1>1. PICK e : e = WithDevice(memory[i], d)
    OBVIOUS
  <1>2. SameCount(memory[i], e)
    BY <1>1, MemoryFacts, DeviceUpdate DEF Shape
  <1>3. memory' = [memory EXCEPT ![i] = e]
    BY <1>1 DEF SetDevice, WithDevice
  <1> QED
    BY <1>2, <1>3, OneImageCounts

LEMMA AssignmentsKeepCount ==
  ASSUME CountInv, MemoryInv, TraversalInv, NEW d \in Operands
  PROVE  /\ \A s \in Operands : Assign(d, s) => CountInv'
         /\ \A n \in ImageNames : AssignData(d, n) => CountInv'
         /\ \A a \in HostArrays : AssignArray(d, a) => CountInv'
  <1>1. PICK i : i = AccessorOf(d).img
    OBVIOUS
  <1>2. Denotes(d) => i \in DOMAIN memory
    BY <1>1, OperandRegion DEF RegionIn
  <1>3. ASSUME NEW s \in Operands, Assign(d, s)
        PROVE  CountInv'
    <2>1. i \in DOMAIN memory
      BY <1>2, <1>3 DEF Assign
    <2>2. PICK x : SetDevice(i, x)
      BY <1>1, <1>3 DEF Assign
    <2>3. UNCHANGED <<target, context, images, pyramids, released, phase>>
      BY <1>3 DEF Assign, Statement
    <2> QED
      BY <2>1, <2>2, <2>3, SetDeviceCounts
  <1>4. ASSUME NEW n \in ImageNames, AssignData(d, n)
        PROVE  CountInv'
    <2>1. i \in DOMAIN memory
      BY <1>2, <1>4 DEF AssignData
    <2>2. PICK x : SetDevice(i, x)
      BY <1>1, <1>4 DEF AssignData
    <2>3. UNCHANGED <<target, context, images, pyramids, released, phase>>
      BY <1>4 DEF AssignData, Statement
    <2> QED
      BY <2>1, <2>2, <2>3, SetDeviceCounts
  <1>5. ASSUME NEW a \in HostArrays, AssignArray(d, a)
        PROVE  CountInv'
    <2>1. i \in DOMAIN memory
      BY <1>2, <1>5 DEF AssignArray
    <2>2. PICK m : m = memory[i] /\ Shape(target, m)
      BY <2>1, MemoryFacts
    <2>3. PICK e : e = Written(target, m, HostArray(m.width, m.height, a))
      OBVIOUS
    <2>4. SameCount(m, e)
      BY <2>2, <2>3, WrittenUpdate DEF Shape
    <2>5. memory' = [memory EXCEPT ![i] = e]
      BY <1>1, <1>5, <2>2, <2>3 DEF AssignArray
    <2>6. UNCHANGED <<target, context, images, pyramids, released, phase>>
      BY <1>5 DEF AssignArray, Statement
    <2> QED
      BY <2>1, <2>2, <2>4, <2>5, <2>6, OneImageCounts
  <1> QED
    BY <1>3, <1>4, <1>5

LEMMA DeclaredImage ==
  ASSUME MemoryInv, NEW n \in ImageNames, images[n] # 0
  PROVE  images[n] \in DOMAIN memory
  <1>1. images[n] \in 0..Len(memory)
    BY DEF MemoryInv, HandlesOK
  <1> QED
    BY <1>1, MemoryFacts

LEMMA DataKeepsCount ==
  ASSUME CountInv, MemoryInv, NEW n \in ImageNames, Data(n)
  PROVE  CountInv'
  <1>1. PICK i : i = images[n]
    OBVIOUS
  <1>2. i \in DOMAIN memory
    BY <1>1, DeclaredImage DEF Data
  <1>3. PICK e : e = WithHost(memory[i], ReadMemory(target.lang, memory[i]))
    OBVIOUS
  <1>4. SameCount(memory[i], e)
    BY <1>2, <1>3, MemoryFacts, HostUpdate DEF Shape
  <1>5. memory' = [memory EXCEPT ![i] = e]
    BY <1>1, <1>3 DEF Data, WithHost
  <1>6. UNCHANGED <<target, context, images, pyramids, released, phase>>
    BY DEF Data, Statement
  <1> QED
    BY <1>2, <1>4, <1>5, <1>6, OneImageCounts

\* An image has as many handles as are counted, at least those of a variable.
LEMMA CountFacts ==
  ASSUME NEW t, NEW mem, NEW ctx, NEW imgs, NEW stg, NEW rel, NEW ph,
         CountOK(t, mem, ctx, imgs, stg, rel, ph), NEW i \in DOMAIN mem
  PROVE  /\ mem[i].refs \in Nat /\ mem[i].live = (mem[i].refs > 0)
  <1>1. AreSeqs(stg)
    BY DEF CountOK, TypedHandles
  <1>2. PICK e \in Nat : e = Entries(t, Occurrences(ctx.imgs, i))
    <2>1. Occurrences(ctx.imgs, i) \in Nat
      BY OccurrencesType DEF CountOK, Counted, ContextOK
    <2> QED
      BY <2>1 DEF Entries
  <1>3. Total(imgs, stg, rel, i) \in Nat
    BY <1>1, TotalType
  <1>4. PICK h \in Nat : h = Holders(imgs, stg, rel, ph, i)
    BY <1>3 DEF Holders
  <1>5. HasHandles(mem[i], h + e)
    BY <1>2, <1>4 DEF CountOK, Counted
  <1>6. mem[i].refs = h + e /\ mem[i].live = (mem[i].refs > 0)
    BY <1>5 DEF HasHandles
  <1> QED
    BY <1>6

LEMMA HandlesAreCounted ==
  ASSUME NEW t, NEW mem, NEW ctx, NEW imgs, NEW stg, NEW rel, NEW ph,
         CountOK(t, mem, ctx, imgs, stg, rel, ph), NEW i \in DOMAIN mem,
         ph # "left", NEW v \in Names
  PROVE  HandlesOf(imgs, stg, rel, v, i) <= mem[i].refs
  <1>1. AreSeqs(stg)
    BY DEF CountOK, TypedHandles
  <1>2. PICK e \in Nat : e = Entries(t, Occurrences(ctx.imgs, i))
    <2>1. Occurrences(ctx.imgs, i) \in Nat
      BY OccurrencesType DEF CountOK, Counted, ContextOK
    <2> QED
      BY <2>1 DEF Entries
  <1>3. PICK h \in Nat : h = Total(imgs, stg, rel, i)
    BY <1>1, TotalType
  <1>4. HasHandles(mem[i], h + e)
    BY <1>2, <1>3 DEF CountOK, Counted, Holders
  <1>5. mem[i].refs = h + e
    BY <1>4 DEF HasHandles
  <1>6. PICK a \in Nat : a = HandlesOf(imgs, stg, rel, v, i)
    BY <1>1, HandlesType
  <1>7. a <= h
    <2>1. OnlyOf(v, i, imgs, stg, rel, imgs, stg, rel)
      BY DEF OnlyOf
    <2> QED
      BY <1>1, <1>3, <1>6, <2>1, TotalChanges
  <1> QED
    BY <1>5, <1>6, <1>7

LEMMA DeclareImageKeepsCount ==
  ASSUME CountInv, MemoryInv, NEW n \in ImageNames, NEW size \in Sizes, NEW a,
         DeclareImage(n, size, a)
  PROVE  CountInv'
  <1>0. PICK l \in Nat : l = Len(memory) /\ DOMAIN memory = 1..l
    BY MemoryFacts
  <1>1. PICK stg : stg = StagesOf(pyramids)
    OBVIOUS
  <1>2. /\ phase = "running" /\ images[n] = 0 /\ (target.lang = "Vivado" => a = 0)
        /\ UNCHANGED <<target, phase, released, pyramids>>
    BY DEF DeclareImage, Statement
  <1>3. released = {} /\ CountOK(target, memory, context, images, stg, {}, "running")
    BY <1>1, <1>2 DEF CountInv, CountOK, ReleasedOK
  <1>4. PICK C : C = CreateImage(target, size, a)
    OBVIOUS
  <1>5. IsNewImage(target, C)
    <2>1. size[1] \in Nat \ {0} /\ size[2] \in Nat \ {0}
      BY SizesArePositive
    <2>2. target \in Targets
      BY MemoryFacts
    <2>3. IsCreated(target, size, a, CreateImage(target, size, a))
      BY <1>2, <2>1, <2>2, CreatedImage
    <2> QED
      BY <1>4, <2>3 DEF IsCreated, IsNewImage
  <1>6. PICK M : M = Append(memory, C)
    OBVIOUS
  <1>7. PICK J : J = [images EXCEPT ![n] = l + 1]
    OBVIOUS
  <1>8. memory' = M /\ images' = J
    BY <1>0, <1>4, <1>6, <1>7 DEF DeclareImage
  <1>9. /\ IsSeq(M) /\ Len(M) = l + 1 /\ M[l + 1] = C
        /\ \A i \in 1..l : M[i] = memory[i]
    <2>1. Longer(memory, C, M)
      BY <1>6, MemoryFacts, SeqAppend
    <2> QED
      BY <1>0, <2>1 DEF Longer
  <1>10. TypedHandles(M, J, stg)
    <2>1. MemoryInv'
      BY DeclareImageRefines
    <2>2. ImagesOK(target', M) /\ HandlesOK(M, J, pyramids', accessors')
      BY <1>8, <2>1 DEF MemoryInv
    <2> QED
      BY <1>1, <1>2, <2>2, HandlesAreTyped
  <1>11. J[n] = l + 1 /\ \A x \in ImageNames : x # n => J[x] = images[x]
    <2>1. images \in [ImageNames -> 0..Len(memory)]
      BY DEF MemoryInv, HandlesOK
    <2> QED
      BY <1>7, <2>1
  <1>12. n \in Names /\ n \notin PyramidNames
    BY NameKinds
  <1>13. n \notin DeclaredIn(images, stg)
    BY <1>2 DEF DeclaredIn
  <1>14. n \in DeclaredIn(J, stg)
    BY <1>11, <1>12 DEF DeclaredIn
  <1>15. OnlyValueOf(n, images, stg, J, stg)
    BY <1>11 DEF OnlyValueOf
  <1>16. \A i \in 1..(l + 1) : Owns(J, stg, n, i) <=> i > l
    <2>1. \A i \in 1..(l + 1) : l + 1 = i <=> i > l
      OBVIOUS
    <2> QED
      BY <1>11, <2>1 DEF Owns
  <1>17. \A i : HandlesOf(J, stg, {}, n, i) = IF i = l + 1 THEN 1 ELSE 0
    BY <1>11 DEF HandlesOf
  <1>18. \A i \in 1..l : MoreHandles(memory[i], HandlesOf(J, stg, {}, n, i), M[i])
    <2> SUFFICES ASSUME NEW i \in 1..l
                 PROVE  MoreHandles(memory[i], HandlesOf(J, stg, {}, n, i), M[i])
      OBVIOUS
    <2>1. HandlesOf(J, stg, {}, n, i) = 0
      BY <1>17
    <2>2. PICK r \in Int : r = memory[i].refs
      <3>1. memory[i].refs \in Nat
        BY <1>0, <1>3, CountFacts
      <3> QED
        BY <3>1
    <2>3. M[i] = memory[i] /\ r + 0 = r
      BY <1>9
    <2> QED
      BY <2>1, <2>2, <2>3 DEF MoreHandles
  <1>19. \A i \in 1..(l + 1) : i > l => IsNewImage(target, M[i])
    <2>1. \A i \in 1..(l + 1) : i > l => i = l + 1
      OBVIOUS
    <2> QED
      BY <1>5, <1>9, <2>1
  <1>20. \A i \in 1..(l + 1) : i > l => HandlesOf(J, stg, {}, n, i) = 1
    BY <1>17
  <1>21. PICK ids : /\ ids = <<l + 1>> /\ IsSeq(ids) /\ Len(ids) = 1
                    /\ \A k \in 1..1 : ids[k] = l + k
    <2>1. PICK ids : ids = <<l + 1>>
      OBVIOUS
    <2>2. IsSeq(ids)
      BY <2>1, OccurrencesOfOne
    <2> QED
      BY <2>1, <2>2
  <1>22. PICK C2 : C2 = [imgs   |-> context.imgs \o ids,
                        allocs |-> IF target.lang = "Renderscript"
                                   THEN context.allocs \o ids ELSE << >>]
    OBVIOUS
  <1>23. context' = C2
    BY <1>0, <1>21, <1>22 DEF DeclareImage, AddImages
  <1>24. /\ C2.imgs = context.imgs \o ids
         /\ C2.allocs = IF target.lang = "Renderscript"
                        THEN context.allocs \o ids ELSE << >>
    BY <1>22
  <1>25. PICK o \in Nat : o = 1
    OBVIOUS
  <1>26. Declares(target, memory, context, images, stg, l, o, M, n, J, stg, ids, C2)
    BY <1>0, <1>9, <1>10, <1>12, <1>13, <1>14, <1>15, <1>16, <1>18, <1>19,
       <1>20, <1>21, <1>24, <1>25 DEF Declares
  <1>27. CountOK(target, M, C2, J, stg, {}, "running")
    BY <1>3, <1>12, <1>26, DeclareKeepsCount
  <1> QED
    BY <1>1, <1>2, <1>3, <1>8, <1>23, <1>27 DEF CountInv

\* The stages of a new pyramid: the base image b and the images from m + 1 on.
IsStages(b, m, e, stages) ==
  /\ IsSeq(stages) /\ DOMAIN stages = 1..(e + 1) /\ stages[1] = b
  /\ \A l \in 1..e : stages[l + 1] = m + l

LEMMA StagesMade ==
  ASSUME NEW b, NEW m \in Nat, NEW e \in Nat,
         NEW ids, IsSeq(ids), Len(ids) = e, \A l \in 1..e : ids[l] = m + l
  PROVE  IsStages(b, m, e, <<b>> \o ids)
  <1>1. PICK one : one = <<b>>
    OBVIOUS
  <1>2. IsSeq(one) /\ Len(one) = 1 /\ one[1] = b
    BY <1>1, OccurrencesOfOne
  <1>3. PICK stages : stages = one \o ids
    OBVIOUS
  <1>4. Joined(one, ids, stages)
    BY <1>2, <1>3, SeqConcat
  <1>5. /\ IsSeq(stages) /\ Len(stages) = Len(one) + Len(ids)
        /\ \A i \in 1..Len(one) : stages[i] = one[i]
        /\ \A i \in 1..Len(ids) : stages[Len(one) + i] = ids[i]
    BY <1>4 DEF Joined
  <1>6. stages[1] = b /\ Len(stages) = e + 1
    BY <1>2, <1>5
  <1>7. ASSUME NEW l \in 1..e
        PROVE  stages[l + 1] = m + l
    <2>1. stages[1 + l] = ids[l] /\ 1 + l = l + 1
      BY <1>2, <1>5
    <2> QED
      BY <2>1
  <1>8. DOMAIN stages = 1..(e + 1)
    BY <1>5, <1>6, SeqFacts
  <1> QED
    BY <1>1, <1>3, <1>5, <1>6, <1>7, <1>8 DEF IsStages

(* A new pyramid owns its stages from the second on, and holds every stage *)
(* once.                                                                   *)
OwnsStages(imgs, G, p, b, m, i) ==
  /\ Owns(imgs, G, p, i) <=> i > m
  /\ HandlesOf(imgs, G, {}, p, i) = IF i > m \/ i = b THEN 1 ELSE 0

LEMMA StagesDiffer ==
  ASSUME NEW m \in Nat, NEW e \in Nat, NEW b \in 1..m, NEW s, IsStages(b, m, e, s)
  PROVE  /\ \A k \in 1..(e + 1) : k # 1 => s[k] > m /\ s[k] = m + (k - 1)
         /\ \A j, k \in DOMAIN s : s[j] = s[k] => j = k
  <1>1. ASSUME NEW k \in 1..(e + 1), k # 1
        PROVE  s[k] = m + (k - 1)
    <2>1. k - 1 \in 1..e /\ (k - 1) + 1 = k
      BY <1>1
    <2> QED
      BY <2>1 DEF IsStages
  <1>2. \A k \in 1..(e + 1) : k # 1 => s[k] > m /\ s[k] = m + (k - 1)
    BY <1>1
  <1>3. DOMAIN s = 1..(e + 1) /\ s[1] \in 1..m
    BY DEF IsStages
  <1>4. ASSUME NEW j \in 1..(e + 1), NEW k \in 1..(e + 1), s[j] = s[k]
        PROVE  j = k
    <2>1. CASE j = 1 \/ k = 1
      BY <1>2, <1>3, <1>4, <2>1
    <2>2. CASE j # 1 /\ k # 1
      BY <1>2, <1>4, <2>2
    <2> QED
      BY <2>1, <2>2
  <1> QED
    BY <1>2, <1>3, <1>4

LEMMA StagesOwned ==
  ASSUME NEW m \in Nat, NEW e \in Nat, NEW b \in 1..m,
         NEW G, NEW imgs, NEW p \in PyramidNames, IsStages(b, m, e, G[p]),
         NEW i \in 1..(m + e)
  PROVE  OwnsStages(imgs, G, p, b, m, i)
  <1>1. PICK s : s = G[p] /\ IsStages(b, m, e, s)
    OBVIOUS
  <1>2. /\ IsSeq(s) /\ DOMAIN s = 1..(e + 1) /\ s[1] = b
        /\ \A l \in 1..e : s[l + 1] = m + l
    BY <1>1 DEF IsStages
  <1>3. /\ \A k \in 1..(e + 1) : k # 1 => s[k] > m /\ s[k] = m + (k - 1)
        /\ \A j, k \in DOMAIN s : s[j] = s[k] => j = k
    BY <1>1, StagesDiffer
  <1>4. ASSUME i > m
        PROVE  \E k \in 1..(e + 1) : k > 1 /\ s[k] = i
    <2>1. PICK l \in 1..e : i = m + l
      <3>1. i - m \in 1..e /\ i = m + (i - m)
        BY <1>4
      <3> QED
        BY <3>1
    <2>2. l + 1 \in 1..(e + 1) /\ l + 1 > 1 /\ s[l + 1] = i
      BY <1>2, <2>1
    <2> QED
      BY <2>2
  <1>5. \A k \in 1..(e + 1) : k > 1 /\ s[k] = i => i > m
    BY <1>3
  <1>6. p \notin ImageNames
    BY NameKinds
  <1>7. Owns(imgs, G, p, i) <=> i > m
    BY <1>1, <1>2, <1>4, <1>5, <1>6 DEF Owns
  <1>8. i \in ToSet(s) <=> i > m \/ i = b
    <2>1. i \in ToSet(s) <=> \E k \in 1..(e + 1) : s[k] = i
      BY <1>2 DEF ToSet
    <2>2. 1 \in 1..(e + 1)
      OBVIOUS
    <2> QED
      BY <1>2, <1>3, <1>4, <2>1, <2>2
  <1>9. Occurrences(s, i) = IF i > m \/ i = b THEN 1 ELSE 0
    BY <1>2, <1>3, <1>8, OccursOnce
  <1>10. Holding(G, {}, p, i) = {k \in DOMAIN s : s[k] = i}
    BY <1>1 DEF Holding
  <1>11. HandlesOf(imgs, G, {}, p, i) = Occurrences(s, i)
    BY <1>6, <1>10 DEF HandlesOf, Occurrences
  <1> QED
    BY <1>7, <1>9, <1>11 DEF OwnsStages

LEMMA DeclarePyramidKeepsCount ==
  ASSUME CountInv, MemoryInv, TraversalInv, NEW p \in PyramidNames,
         NEW n \in ImageNames, NEW depth \in Depths, DeclarePyramid(p, n, depth)
  PROVE  CountInv'
  <1>1. PICK m \in Nat : m = Len(memory) /\ DOMAIN memory = 1..m
    BY MemoryFacts
  <1>2. PICK stg : stg = StagesOf(pyramids)
    OBVIOUS
  <1>3. /\ phase = "running" /\ images[n] # 0 /\ pyramids[p] = NoPyramid
        /\ target.lang # "Vivado"
        /\ UNCHANGED <<target, phase, released, images>>
    BY DEF DeclarePyramid, Statement
  <1>4. released = {} /\ CountOK(target, memory, context, images, stg, {}, "running")
    BY <1>2, <1>3 DEF CountInv, CountOK, ReleasedOK
  <1>5. PICK e \in Nat : e = depth - 1
    BY DepthsArePositive
  <1>6. PICK b \in 1..m : b = images[n]
    BY <1>1, <1>3, DeclaredImage
  <1>7. PICK size : size = LevelSizes(<<memory[b].width, memory[b].height>>, depth)
    OBVIOUS
  <1>8. PICK X : X = [memory EXCEPT ![b] = Copied(memory[b])]
    OBVIOUS
  <1>9. PICK N : N = [l \in 1..e |-> CreateImage(target, size[l], 0)]
    OBVIOUS
  <1>10. PICK ids : ids = [l \in 1..e |-> m + l]
    OBVIOUS
  <1>11. PICK M : M = X \o N
    OBVIOUS
  <1>12. PICK stages : stages = <<b>> \o ids
    OBVIOUS
  <1>13. PICK C : C = [imgs   |-> context.imgs \o ids,
                       allocs |-> IF target.lang = "Renderscript"
                                  THEN context.allocs \o ids ELSE << >>]
    OBVIOUS
  <1>14. /\ memory' = M /\ context' = C
         /\ pyramids' = [pyramids EXCEPT ![p] = [NoPyramid EXCEPT !.imgs = stages]]
         /\ \A l \in 1..e : size[l][1] * size[l][2] > 0
    BY <1>1, <1>5, <1>6, <1>7, <1>8, <1>9, <1>10, <1>11, <1>12, <1>13
       DEF DeclarePyramid, AddImages
  <1>15. PICK G : G = StagesOf(pyramids')
    OBVIOUS
  <1>16. G[p] = stages /\ \A q \in PyramidNames : q # p => G[q] = stg[q]
    <2>1. DOMAIN pyramids = PyramidNames
      BY DEF TraversalInv, PyramidsOK
    <2>2. [NoPyramid EXCEPT !.imgs = stages].imgs = stages
      BY DEF NoPyramid
    <2>3. /\ pyramids'[p].imgs = stages
          /\ \A q \in PyramidNames : q # p => pyramids'[q] = pyramids[q]
      BY <1>14, <2>1, <2>2
    <2>4. G = [q \in PyramidNames |-> pyramids'[q].imgs]
      BY <1>15 DEF StagesOf
    <2>5. stg = [q \in PyramidNames |-> pyramids[q].imgs]
      BY <1>2 DEF StagesOf
    <2> QED
      BY <2>3, <2>4, <2>5
  <1>17. IsSeq(ids) /\ Len(ids) = e /\ \A l \in 1..e : ids[l] = m + l
    <2>1. ids = [l \in 1..e |-> ids[l]]
      BY <1>10
    <2> QED
      BY <1>10, <2>1, SeqMade
  <1>18. IsStages(b, m, e, G[p])
    BY <1>12, <1>16, <1>17, StagesMade
  <1>19. ASSUME NEW l \in 1..e
         PROVE  IsNewImage(target, N[l])
    <2>1. Shape(target, memory[b])
      BY <1>1, MemoryFacts
    <2>2. memory[b].width \in Nat /\ memory[b].height \in Nat
      BY <2>1 DEF Shape
    <2>3. depth \in Nat \ {0} /\ l \in 0..(depth - 1)
      BY <1>5, DepthsArePositive
    <2>4. PICK u \in Nat, v \in Nat : u = size[l][1] /\ v = size[l][2]
      BY <1>7, <2>2, <2>3, LevelSizesAreNat
    <2>5. u * v > 0
      BY <1>14, <2>4
    <2>6. u # 0 /\ v # 0
      BY <2>4, <2>5
    <2>7. N[l] = CreateImage(target, size[l], 0) /\ target \in Targets
      BY <1>9, MemoryFacts
    <2>8. IsCreated(target, size[l], 0, CreateImage(target, size[l], 0))
      BY <2>4, <2>6, <2>7, CreatedImage
    <2> QED
      BY <2>7, <2>8 DEF IsCreated, IsNewImage
  <1>20. IsSeq(N) /\ Len(N) = e
    <2>1. N = [l \in 1..e |-> N[l]]
      BY <1>9
    <2> QED
      BY <2>1, SeqMade
  <1>21. /\ IsSeq(X) /\ Len(X) = m /\ X[b] = Copied(memory[b])
         /\ \A j \in 1..m : j # b => X[j] = memory[j]
    BY <1>1, <1>8, MemoryFacts, SeqUpdate
  <1>22. /\ IsSeq(M) /\ Len(M) = m + e
         /\ \A i \in 1..m : M[i] = X[i]
         /\ \A i \in 1..e : M[m + i] = N[i]
    <2>1. Joined(X, N, M)
      BY <1>11, <1>20, <1>21, SeqConcat
    <2> QED
      BY <1>20, <1>21, <2>1 DEF Joined
  <1>23. \A i \in 1..(m + e) : i > m => IsNewImage(target, M[i])
    <2> SUFFICES ASSUME NEW i \in 1..(m + e), i > m
                 PROVE  IsNewImage(target, M[i])
      OBVIOUS
    <2>1. i - m \in 1..e /\ i = m + (i - m)
      OBVIOUS
    <2>2. PICK l \in 1..e : i = m + l
      BY <2>1
    <2>3. M[i] = N[l]
      BY <1>22, <2>2
    <2> QED
      BY <1>19, <2>3
  <1>24. TypedHandles(M, images, G)
    <2>1. MemoryInv'
      BY DeclarePyramidRefines
    <2>2. ImagesOK(target', M) /\ HandlesOK(M, images', pyramids', accessors')
      BY <1>14, <2>1 DEF MemoryInv
    <2>3. TypedHandles(M, images', StagesOf(pyramids'))
      BY <2>2, HandlesAreTyped
    <2> QED
      BY <1>3, <1>15, <2>3
  <1>25. p \in Names /\ p \notin ImageNames
    BY NameKinds
  <1>26. p \notin DeclaredIn(images, stg) /\ p \in DeclaredIn(images, G)
    <2>1. stg[p] = << >>
      BY <1>2, <1>3 DEF StagesOf, NoPyramid
    <2>2. G[p] # << >>
      <3>1. 1 \in DOMAIN G[p]
        BY <1>18 DEF IsStages
      <3> QED
        BY <3>1
    <2> QED
      BY <1>25, <2>1, <2>2 DEF DeclaredIn
  <1>27. OnlyValueOf(p, images, stg, images, G)
    BY <1>16 DEF OnlyValueOf
  <1>28. /\ \A i \in 1..(m + e) : OwnsStages(images, G, p, b, m, i)
         /\ \A j, k \in DOMAIN G[p] : G[p][j] = G[p][k] => j = k
    <2>1. ASSUME NEW i \in 1..(m + e)
          PROVE  OwnsStages(images, G, p, b, m, i)
      BY <1>18, StagesOwned
    <2>2. PICK s : s = G[p] /\ IsStages(b, m, e, s)
      BY <1>18
    <2>3. \A j, k \in DOMAIN s : s[j] = s[k] => j = k
      BY <2>2, StagesDiffer
    <2> QED
      BY <2>1, <2>2, <2>3
  <1>29. /\ \A i \in 1..(m + e) : Owns(images, G, p, i) <=> i > m
         /\ \A i \in 1..(m + e) :
              HandlesOf(images, G, {}, p, i) = IF i > m \/ i = b THEN 1 ELSE 0
    BY <1>28 DEF OwnsStages
  <1>30. \A i \in 1..m :
           MoreHandles(memory[i], HandlesOf(images, G, {}, p, i), M[i])
    <2> SUFFICES ASSUME NEW i \in 1..m
                 PROVE  MoreHandles(memory[i], HandlesOf(images, G, {}, p, i), M[i])
      OBVIOUS
    <2>1. i \in 1..(m + e) /\ ~(i > m)
      OBVIOUS
    <2>2. memory[i].refs \in Nat /\ memory[i].live = (memory[i].refs > 0)
      BY <1>1, <1>4, CountFacts
    <2>3. CASE i = b
      <3>1. HandlesOf(images, G, {}, p, i) = 1
        BY <1>29, <2>1, <2>3
      <3>2. IsImage(memory[i])
        BY <1>1, MemoryFacts DEF Shape
      <3>3. M[i] = Copied(memory[i])
        BY <1>21, <1>22, <2>3
      <3>4. /\ M[i].refs = memory[i].refs + 1 /\ M[i].live = memory[i].live
            /\ M[i].freed = memory[i].freed
        BY <3>2, <3>3, CopiedUpdate
      <3>5. HandlesOf(images, stg, {}, n, i) = 1
        BY <1>6, <2>3 DEF HandlesOf
      <3>6. n \in Names
        BY NameKinds
      <3>7. 1 <= memory[i].refs
        BY <1>1, <1>4, <3>5, <3>6, HandlesAreCounted
      <3>8. (memory[i].refs > 0) = TRUE
        BY <2>2, <3>7
      <3>9. memory[i].live = TRUE
        BY <2>2, <3>8
      <3> QED
        BY <3>1, <3>4, <3>9 DEF MoreHandles
    <2>4. CASE i # b
      <3>1. HandlesOf(images, G, {}, p, i) = 0
        BY <1>29, <2>1, <2>4
      <3>2. M[i] = memory[i]
        BY <1>21, <1>22, <2>4
      <3>3. memory[i].refs + 0 = memory[i].refs
        BY <2>2
      <3> QED
        BY <3>1, <3>2, <3>3 DEF MoreHandles
    <2> QED
      BY <2>3, <2>4
  <1>31. /\ C.imgs = context.imgs \o ids
         /\ C.allocs = IF target.lang = "Renderscript"
                       THEN context.allocs \o ids ELSE << >>
    BY <1>13
  <1>32. Declares(target, memory, context, images, stg, m, e, M, p, images, G, ids, C)
    <2>1. \A i \in 1..(m + e) : i > m => HandlesOf(images, G, {}, p, i) = 1
      BY <1>29
    <2> QED
      BY <1>1, <1>3, <1>17, <1>22, <1>23, <1>24, <1>26, <1>27, <1>28, <1>29,
         <1>30, <1>31, <2>1 DEF Declares
  <1>33. CountOK(target, M, C, images, G, {}, "running")
    BY <1>4, <1>25, <1>32, DeclareKeepsCount
  <1>34. CountOK(target', memory', context', images', StagesOf(pyramids'),
                 released', phase')
    BY <1>3, <1>4, <1>14, <1>15, <1>33
  <1> QED
    BY <1>34 DEF CountInv

(* Declarations of accessors and traversals keep the handles.              *)
LEMMA OthersKeepCount ==
  ASSUME CountInv, MemoryInv, TraversalInv
  PROVE  /\ \A c \in AccessorNames, o \in Operands, r \in Regions :
              DeclareAccessor(c, o, r) => CountInv'
         /\ \A ps \in SUBSET PyramidNames : Traverse(ps) => CountInv'
         /\ \A loop \in 1..MaxLoop : Recurse(loop) => CountInv'
         /\ NextRepetition \/ EndRecursion \/ EndTraversal => CountInv'
  <1> DEFINE Same == UNCHANGED <<target, memory, context, images, released, phase>>
  <1>1. ASSUME Same, \A p \in PyramidNames : pyramids'[p].imgs = pyramids[p].imgs
        PROVE  CountInv'
    BY <1>1, CountUnchanged
  <1>2. ASSUME NEW c \in AccessorNames, NEW o \in Operands, NEW r \in Regions,
               DeclareAccessor(c, o, r)
        PROVE  CountInv'
    BY <1>1, <1>2 DEF DeclareAccessor, Statement
  <1>3. ASSUME NEW ps, NEW by, pyramids' = Move(ps, by), Same
        PROVE  CountInv'
    BY <1>1, <1>3, MovedStages
  <1>4. ASSUME NEW ps \in SUBSET PyramidNames, Traverse(ps)
        PROVE  CountInv'
    <2>1. /\ pyramids' = [p \in PyramidNames |->
                            IF p \in ps THEN Bind(pyramids[p]) ELSE pyramids[p]]
          /\ Same
      BY <1>4 DEF Traverse
    <2>2. \A p \in PyramidNames : pyramids'[p].imgs = pyramids[p].imgs
      BY <2>1, SameStages DEF TraversalInv, PyramidsOK
    <2> QED
      BY <1>1, <2>1, <2>2
  <1>5. ASSUME NEW loop \in 1..MaxLoop, Recurse(loop)
        PROVE  CountInv'
    <2>1. pyramids' = Move(Last(hipaccPyramids), 1) /\ Same
      BY <1>5 DEF Recurse
    <2> QED
      BY <1>3, <2>1
  <1>6. ASSUME NextRepetition
        PROVE  CountInv'
    BY <1>1, <1>6 DEF NextRepetition
  <1>7. ASSUME EndRecursion
        PROVE  CountInv'
    <2>1. pyramids' = Move(Last(calls).pyrs, -1) /\ Same
      BY <1>7 DEF EndRecursion
    <2> QED
      BY <1>3, <2>1
  <1>8. ASSUME EndTraversal
        PROVE  CountInv'
    <2>1. PICK ps : ps = Last(calls).pyrs
      OBVIOUS
    <2>2. /\ pyramids' = [p \in PyramidNames |->
                            IF p \in ps THEN Unbind(pyramids[p]) ELSE pyramids[p]]
          /\ Same
      BY <1>8, <2>1 DEF EndTraversal
    <2>3. \A p \in PyramidNames : pyramids'[p].imgs = pyramids[p].imgs
      BY <2>2, SameStages DEF TraversalInv, PyramidsOK
    <2> QED
      BY <1>1, <2>2, <2>3
  <1> QED
    BY <1>2, <1>4, <1>5, <1>6, <1>7, <1>8

(* The end of main().                                                      *)
LEMMA DeclaredVariables ==
  ASSUME TraversalInv
  PROVE  Declared = DeclaredIn(images, StagesOf(pyramids))
  <1>1. ASSUME NEW p \in PyramidNames
        PROVE  pyramids[p] # NoPyramid <=> StagesOf(pyramids)[p] # << >>
    <2>1. PICK P : P = pyramids[p] /\ PyramidOK(P)
      BY DEF TraversalInv, PyramidsOK
    <2>2. P = NoPyramid => P.imgs = << >>
      BY DEF NoPyramid
    <2>3. P # NoPyramid => P.imgs # << >>
      BY <2>1 DEF PyramidOK
    <2>4. StagesOf(pyramids)[p] = P.imgs
      BY <2>1 DEF StagesOf
    <2> QED
      BY <2>1, <2>2, <2>3, <2>4
  <1>2. \A p \in PyramidNames :
          p \in DeclaredIn(images, StagesOf(pyramids)) <=> pyramids[p] # NoPyramid
    BY <1>1, NameKinds DEF DeclaredIn
  <1>3. \A n \in ImageNames :
          n \in DeclaredIn(images, StagesOf(pyramids)) <=> images[n] # 0
    BY NameKinds DEF DeclaredIn
  <1>4. DeclaredIn(images, StagesOf(pyramids)) \subseteq ImageNames \cup PyramidNames
    BY DEF DeclaredIn, Names
  <1> QED
    BY <1>2, <1>3, <1>4 DEF Declared

LEMMA ReleaseVariableKeepsCount ==
  ASSUME CountInv, MemoryInv, TraversalInv, NEW v, NEW ids,
         ReleasesOwn(memory, images, StagesOf(pyramids), v, ids),
         ReleaseVariable(v, ids)
  PROVE  CountInv'
  <1>1. PICK stg : stg = StagesOf(pyramids)
    OBVIOUS
  <1>2. PICK ph : ph = phase
    OBVIOUS
  <1>3. PICK A : A = Release(memory, context, ids)
    OBVIOUS
  <1>4. PICK M : M = Remaining(memory, v, ids, A.mem)
    OBVIOUS
  <1>5. v \in DeclaredIn(images, stg) /\ v \notin released
    BY <1>1, DeclaredVariables DEF ReleaseVariable
  <1>6. ph \in {"running", "releasing"}
    BY <1>2 DEF ReleaseVariable
  <1>7. CountOK(target, memory, context, images, stg, released, ph)
    BY <1>1, <1>2 DEF CountInv
  <1>8. Kept(memory, memory)
    BY MemoryIsKept
  <1>9. /\ memory' = M /\ context' = A.ctx /\ phase' = "releasing"
        /\ released' = released \union {v} /\ UNCHANGED <<target, images, pyramids>>
    BY <1>3, <1>4 DEF ReleaseVariable, Remaining
  <1>10. ReleasesOwn(memory, images, stg, v, ids)
    BY <1>1
  <1>11. CountOK(target, M, A.ctx, images, stg, released \cup {v}, "releasing")
    BY <1>3, <1>4, <1>5, <1>6, <1>7, <1>8, <1>10, ReleaseKeepsCount
  <1> QED
    BY <1>1, <1>9, <1>11 DEF CountInv

LEMMA ReleaseImageKeepsCount ==
  ASSUME CountInv, MemoryInv, TraversalInv, NEW n \in ImageNames, ReleaseImage(n)
  PROVE  CountInv'
  <1>1. PICK i : i = images[n]
    OBVIOUS
  <1>2. images[n] # 0
    <2>1. n \in Declared
      BY DEF ReleaseImage, ReleaseVariable
    <2> QED
      BY <2>1, NamesDiffer DEF Declared
  <1>3. i \in DOMAIN memory
    BY <1>1, <1>2, DeclaredImage
  <1>4. PICK ids : ids = <<i>> /\ IsSeq(ids)
    BY OccurrencesOfOne
  <1>5. DOMAIN ids = {1} /\ ids[1] = i
    BY <1>4
  <1>6. \A j : j \in ToSet(ids) <=> j = i
    BY <1>5 DEF ToSet
  <1>7. ReleasesOwn(memory, images, StagesOf(pyramids), n, ids)
    BY <1>1, <1>3, <1>4, <1>5, <1>6 DEF ReleasesOwn, Owns
  <1>8. ReleaseVariable(n, ids)
    BY <1>1, <1>4 DEF ReleaseImage
  <1> QED
    BY <1>7, <1>8, ReleaseVariableKeepsCount

LEMMA ReleasePyramidKeepsCount ==
  ASSUME CountInv, MemoryInv, TraversalInv, NEW p \in PyramidNames,
         ReleasePyramid(p)
  PROVE  CountInv'
  <1>1. PICK ids : ids = Reverse(Tail(pyramids[p].imgs))
    OBVIOUS
  <1>2. p \in Declared /\ ReleaseVariable(p, ids)
    BY <1>1 DEF ReleasePyramid, ReleaseVariable
  <1>3. PICK s : s = pyramids[p].imgs /\ IsSeq(s) /\ s # << >>
    BY <1>2, DeclaredPyramid
  <1>4. PICK n \in Nat : /\ n = Len(s) - 1 /\ IsSeq(ids) /\ Len(ids) = n
                         /\ \A k \in 1..n : ids[k] = s[n + 2 - k]
    BY <1>1, <1>3, ReversedStages
  <1>5. DOMAIN s = 1..(n + 1)
    <2>1. Len(s) = n + 1
      <3>1. Len(s) \in Nat
        BY <1>3, SeqFacts
      <3> QED
        BY <1>4, <3>1
    <2> QED
      BY <1>3, <2>1, SeqFacts
  <1>6. DOMAIN ids = 1..n
    BY <1>4, SeqFacts
  <1>7. StagesOf(pyramids)[p] = s
    BY <1>3 DEF StagesOf
  <1>8. /\ \A k \in DOMAIN s : s[k] \in DOMAIN memory
        /\ \A j, k \in DOMAIN s : s[j] = s[k] => j = k
    BY <1>7 DEF CountInv, CountOK, TypedHandles, OwnersOK
  <1>9. \A k \in 1..n : n + 2 - k \in 1..(n + 1) /\ n + 2 - k > 1
    OBVIOUS
  <1>10. \A k \in DOMAIN ids : ids[k] \in DOMAIN memory
    BY <1>4, <1>5, <1>6, <1>8, <1>9
  <1>11. ASSUME NEW j \in DOMAIN ids, NEW k \in DOMAIN ids, ids[j] = ids[k]
         PROVE  j = k
    <2>1. s[n + 2 - j] = s[n + 2 - k]
      BY <1>4, <1>6, <1>11
    <2>2. n + 2 - j = n + 2 - k
      BY <1>5, <1>6, <1>8, <1>9, <2>1
    <2> QED
      BY <1>6, <2>2
  <1>12. ASSUME NEW i
         PROVE  i \in ToSet(ids) <=> \E k \in DOMAIN s : k > 1 /\ s[k] = i
    <2>1. ASSUME NEW k \in DOMAIN ids, ids[k] = i
          PROVE  \E j \in DOMAIN s : j > 1 /\ s[j] = i
      BY <1>4, <1>5, <1>6, <1>9, <2>1
    <2>2. ASSUME NEW j \in 1..(n + 1), j > 1, s[j] = i
          PROVE  \E k \in DOMAIN ids : ids[k] = i
      <3>1. n + 2 - j \in 1..n /\ n + 2 - (n + 2 - j) = j
        BY <2>2
      <3>2. ids[n + 2 - j] = i
        BY <1>4, <2>2, <3>1
      <3> QED
        BY <1>6, <3>1, <3>2
    <2>3. i \in ToSet(ids) <=> \E k \in DOMAIN ids : ids[k] = i
      BY DEF ToSet
    <2> QED
      BY <1>5, <2>1, <2>2, <2>3
  <1>13. target.lang # "Vivado"
    <2>1. ASSUME target.lang = "Vivado"
          PROVE  StagesOf(pyramids)[p] = << >>
      BY <2>1 DEF CountInv, CountOK, ContextBalanced
    <2> QED
      BY <1>3, <1>7, <2>1
  <1>14. ReleasesOwn(memory, images, StagesOf(pyramids), p, ids)
    <2>1. p \notin ImageNames
      BY NameKinds
    <2>2. \A i : Owns(images, StagesOf(pyramids), p, i)
                   <=> \E k \in DOMAIN s : k > 1 /\ s[k] = i
      BY <1>7, <2>1 DEF Owns
    <2> QED
      BY <1>4, <1>10, <1>11, <1>12, <1>13, <2>2 DEF ReleasesOwn
  <1> QED
    BY <1>2, <1>14, ReleaseVariableKeepsCount

LEMMA LeaveMainKeepsCount ==
  ASSUME CountInv, MemoryInv, TraversalInv, LeaveMain
  PROVE  CountInv'
  <1>1. PICK stg : stg = StagesOf(pyramids)
    OBVIOUS
  <1>2. PICK M : M = [i \in DOMAIN memory |->
                       Dropped(memory[i], Total(images, stg, released, i))]
    OBVIOUS
  <1>3. /\ phase = "releasing" /\ phase' = "left" /\ released = Declared
        /\ memory' = [i \in DOMAIN memory |-> Dropped(memory[i], Held(i))]
        /\ UNCHANGED <<target, context, images, pyramids, released>>
    BY DEF LeaveMain
  <1>4. \A i : Held(i) = Total(images, stg, released, i)
    <2> SUFFICES ASSUME NEW i
                 PROVE  Held(i) = Total(images, stg, released, i)
      OBVIOUS
    <2>1. phase # "left"
      BY <1>3
    <2> QED
      BY <1>1, <2>1, HeldIsTotal
  <1>5. memory' = M
    BY <1>2, <1>3, <1>4
  <1>6. released = DeclaredIn(images, stg)
    BY <1>1, <1>3, DeclaredVariables
  <1>7. CountOK(target, memory, context, images, stg, released, "releasing")
    BY <1>1, <1>3 DEF CountInv
  <1>8. Kept(memory, memory)
    BY MemoryIsKept
  <1>9. CountOK(target, M, context, images, stg, released, "left")
    BY <1>2, <1>6, <1>7, <1>8, LeaveKeepsCount
  <1> QED
    BY <1>1, <1>3, <1>5, <1>9 DEF CountInv

LEMMA InitCountInv ==
  ASSUME Init
  PROVE  CountInv
  <1>1. /\ memory = << >> /\ context = [imgs |-> << >>, allocs |-> << >>]
        /\ images = [n \in ImageNames |-> 0]
        /\ pyramids = [p \in PyramidNames |-> NoPyramid]
        /\ phase = "running" /\ released = {}
    BY DEF Init
  <1>2. IsSeq(<< >>)
    <2>1. << >> \in Seq({})
      OBVIOUS
    <2> QED
      BY <2>1 DEF IsSeq
  <1>3. PICK stg : stg = StagesOf(pyramids)
    OBVIOUS
  <1>4. \A p \in PyramidNames : stg[p] = << >>
    BY <1>1, <1>3 DEF StagesOf, NoPyramid
  <1>5. DOMAIN memory = {} /\ \A n \in ImageNames : images[n] = 0
    BY <1>1
  <1>6. TypedHandles(memory, images, stg)
    BY <1>1, <1>2, <1>4, <1>5 DEF TypedHandles, AreSeqs
  <1>7. context.imgs = << >> /\ context.allocs = << >>
    BY <1>1
  <1>8. Counted(target, memory, context,
                [i \in DOMAIN memory |-> Holders(images, stg, released, phase, i)])
    BY <1>2, <1>5, <1>7 DEF Counted, ContextOK
  <1>9. OwnersOK(memory, images, stg) /\ FreedOK(memory, images, stg, released)
    BY <1>4, <1>5 DEF OwnersOK, FreedOK
  <1>10. DeclaredIn(images, stg) = {}
    <2>1. \A v \in Names : v \notin ImageNames => stg[v] = << >>
      BY <1>4, NameKinds
    <2> QED
      BY <1>5, <2>1 DEF DeclaredIn
  <1>11. ReleasedOK(images, stg, released, phase)
    BY <1>1 DEF ReleasedOK
  <1>12. ContextBalanced(target, memory, context, images, stg, released)
    <2>1. Len(context.imgs) = 0
      BY <1>7
    <2>2. DeclaredIn(images, stg) \ released = {}
      BY <1>10
    <2>3. Cardinality(DeclaredIn(images, stg) \ released) = 0
      BY <2>2, FS_EmptySet
    <2> QED
      BY <1>4, <1>5, <2>1, <2>3 DEF ContextBalanced, Balanced
  <1> QED
    BY <1>3, <1>6, <1>8, <1>9, <1>11, <1>12 DEF CountInv, CountOK

LEMMA NextKeepsCount ==
  ASSUME CountInv, MemoryInv, TraversalInv, [Next]_vars
  PROVE  CountInv'
  <1>1. ASSUME NEW n \in ImageNames, NEW size \in Sizes,
               NEW a \in {0} \union HostArrays, DeclareImage(n, size, a)
        PROVE  CountInv'
    BY <1>1, DeclareImageKeepsCount
  <1>2. ASSUME NEW p \in PyramidNames, NEW n \in ImageNames, NEW depth \in Depths,
               DeclarePyramid(p, n, depth)
        PROVE  CountInv'
    BY <1>2, DeclarePyramidKeepsCount
  <1>3. ASSUME NEW c \in AccessorNames, NEW o \in Operands, NEW r \in Regions,
               DeclareAccessor(c, o, r)
        PROVE  CountInv'
    BY <1>3, OthersKeepCount
  <1>4. ASSUME NEW d \in Operands, NEW s \in Operands, Assign(d, s)
        PROVE  CountInv'
    BY <1>4, AssignmentsKeepCount
  <1>5. ASSUME NEW d \in Operands, NEW n \in ImageNames, AssignData(d, n)
        PROVE  CountInv'
    BY <1>5, AssignmentsKeepCount
  <1>6. ASSUME NEW d \in Operands, NEW a \in HostArrays, AssignArray(d, a)
        PROVE  CountInv'
    BY <1>6, AssignmentsKeepCount
  <1>7. ASSUME NEW n \in ImageNames, Data(n)
        PROVE  CountInv'
    BY <1>7, DataKeepsCount
  <1>8. ASSUME NEW ps \in SUBSET PyramidNames, Traverse(ps)
        PROVE  CountInv'
    BY <1>8, OthersKeepCount
  <1>9. ASSUME NEW loop \in 1..MaxLoop, Recurse(loop)
        PROVE  CountInv'
    BY <1>9, OthersKeepCount
  <1>10. CASE NextRepetition \/ EndRecursion \/ EndTraversal
    BY <1>10, OthersKeepCount
  <1>11. ASSUME NEW n \in ImageNames, ReleaseImage(n)
         PROVE  CountInv'
    BY <1>11, ReleaseImageKeepsCount
  <1>12. ASSUME NEW p \in PyramidNames, ReleasePyramid(p)
         PROVE  CountInv'
    BY <1>12, ReleasePyramidKeepsCount
  <1>13. CASE LeaveMain
    BY <1>13, LeaveMainKeepsCount
  <1>14. CASE UNCHANGED vars
    BY <1>14 DEF CountInv, vars
  <1> QED
    BY <1>1, <1>2, <1>3, <1>4, <1>5, <1>6, <1>7, <1>8, <1>9, <1>10, <1>11,
       <1>12, <1>13, <1>14 DEF Next

-----------------------------------------------------------------------------
(* What the invariant says about the properties of the host program.       *)
LEMMA CountInvImpliesCounted ==
  ASSUME CountInv
  PROVE  HostBlocksCounted
  <1>1. ContextOK(target, memory, context)
    BY DEF CountInv, CountOK, Counted
  <1>2. ASSUME NEW i \in DOMAIN memory
        PROVE  HasHandles(memory[i], Held(i) + Occurrences(context.imgs, i)
                                             + Occurrences(context.allocs, i))
    <2>1. PICK h : h = Holders(images, StagesOf(pyramids), released, phase, i)
      OBVIOUS
    <2>2. Held(i) = h
      BY <2>1, HeldIsTotal DEF Holders
    <2>3. AreSeqs(StagesOf(pyramids))
      BY DEF CountInv, CountOK, TypedHandles
    <2>4. h \in Nat
      BY <2>1, <2>3, TotalType DEF Holders
    <2>5. PICK o \in Nat : o = Occurrences(context.imgs, i)
      BY <1>1, OccurrencesType DEF ContextOK
    <2>6. PICK a \in Nat : /\ a = Occurrences(context.allocs, i)
                           /\ a = IF target.lang = "Renderscript" THEN o ELSE 0
      <3>1. IsSeq(<< >>) /\ \A k \in DOMAIN << >> : << >>[k] # i
        <4>1. << >> \in Seq({})
          OBVIOUS
        <4> QED
          BY <4>1 DEF IsSeq
      <3>2. Occurrences(<< >>, i) = 0
        BY <3>1, OccurrencesType
      <3> QED
        BY <1>1, <2>5, <3>2 DEF ContextOK
    <2>7. HasHandles(memory[i], h + Entries(target, o))
      BY <2>1, <2>5 DEF CountInv, CountOK, Counted
    <2>8. h + Entries(target, o) = h + o + a
      BY <2>4, <2>5, <2>6 DEF Entries
    <2> QED
      BY <2>2, <2>5, <2>6, <2>7, <2>8
  <1> QED
    BY <1>2 DEF HostBlocksCounted, HasHandles

LEMMA CountInvImpliesReleased ==
  ASSUME CountInv
  PROVE  ReleasedOnce
  <1>1. PICK stg : stg = StagesOf(pyramids)
    OBVIOUS
  <1>2. /\ TypedHandles(memory, images, stg) /\ OwnersOK(memory, images, stg)
        /\ FreedOK(memory, images, stg, released)
        /\ ReleasedOK(images, stg, released, phase)
        /\ ContextBalanced(target, memory, context, images, stg, released)
        /\ ContextOK(target, memory, context)
    BY <1>1 DEF CountInv, CountOK, Counted
  <1>3. \A i \in DOMAIN memory : memory[i].freed \in {0, 1}
    BY <1>2 DEF FreedOK
  <1>4. ASSUME phase = "running", NEW i \in DOMAIN memory
        PROVE  memory[i].freed = 0
    BY <1>2, <1>4 DEF FreedOK, ReleasedOK
  <1>5. ASSUME phase = "left", NEW i \in DOMAIN memory
        PROVE  memory[i].freed = 1
    <2>1. PICK v \in Names : Owns(images, stg, v, i)
      BY <1>2 DEF OwnersOK
    <2>2. i \in Nat \ {0}
      <3>1. DOMAIN memory = 1..Len(memory) /\ Len(memory) \in Nat
        BY <1>2, SeqFacts DEF TypedHandles
      <3> QED
        BY <3>1
    <2>3. v \in DeclaredIn(images, stg)
      BY <1>2, <2>1, <2>2, UndeclaredHoldsNothing
    <2>4. v \in released
      BY <1>2, <1>5, <2>3 DEF ReleasedOK
    <2> QED
      BY <1>2, <2>1, <2>4 DEF FreedOK
  <1>6. ASSUME phase = "left"
        PROVE  context.imgs = << >>
    <2>1. IsSeq(context.imgs) /\ \A k \in DOMAIN context.imgs : context.imgs[k] \in DOMAIN memory
      BY <1>2 DEF ContextOK
    <2>2. Len(context.imgs) = 0
      <3>1. CASE target.lang = "Vivado"
        <4>1. DeclaredIn(images, stg) \ released = {}
          BY <1>2, <1>6 DEF ReleasedOK
        <4> QED
          BY <1>2, <3>1, <4>1, FS_EmptySet DEF ContextBalanced
      <3>2. CASE target.lang # "Vivado"
        <4>1. ASSUME NEW i \in DOMAIN memory
              PROVE  Occurrences(context.imgs, i) = 0
          <5>1. PICK o \in Nat : o = Occurrences(context.imgs, i)
            BY <2>1, OccurrencesType
          <5>2. 1 + o = 1
            BY <1>2, <1>5, <1>6, <3>2, <5>1 DEF ContextBalanced, Balanced
          <5> QED
            BY <5>1, <5>2
        <4>2. ASSUME NEW k \in DOMAIN context.imgs
              PROVE  FALSE
          <5>1. PICK i \in DOMAIN memory : i = context.imgs[k]
            BY <2>1
          <5> QED
            BY <2>1, <4>1, <5>1, OccurrencesType
        <4>3. DOMAIN context.imgs = 1..Len(context.imgs) /\ Len(context.imgs) \in Nat
          BY <2>1, SeqFacts
        <4>4. 1 \notin 1..Len(context.imgs)
          BY <4>2, <4>3
        <4> QED
          BY <4>3, <4>4
      <3> QED
        BY <3>1, <3>2
    <2> QED
      BY <2>1, <2>2 DEF IsSeq
  <1> QED
    BY <1>3, <1>4, <1>5, <1>6 DEF ReleasedOnce

StatementsOK == statements \in 0..MaxStatements

LEMMA NextCountsStatements ==
  ASSUME StatementsOK, [Next]_vars
  PROVE  StatementsOK'
  <1>1. ASSUME Statement
        PROVE  StatementsOK'
    BY <1>1, BoundsAreNat DEF Statement, StatementsOK
  <1>2. ASSUME UNCHANGED statements
        PROVE  StatementsOK'
    BY <1>2 DEF StatementsOK
  <1>3. \A v, ids : ReleaseVariable(v, ids) => UNCHANGED statements
    BY DEF ReleaseVariable
  <1>4. Statement \/ UNCHANGED statements
    BY <1>3 DEF Next, vars, DeclareImage, DeclarePyramid, DeclareAccessor, Assign,
                AssignData, AssignArray, Data, Traverse, Recurse, NextRepetition,
                EndRecursion, EndTraversal, ReleaseImage, ReleasePyramid, LeaveMain
  <1> QED
    BY <1>1, <1>2, <1>4

LEMMA InvariantsImplyTypes ==
  ASSUME CountInv, MemoryInv, StatementsOK
  PROVE  MemoryTypeOK
  <1>1. target \in Targets /\ target.lang \in Languages
    BY MemoryFacts, TargetsAreKnown
  <1>2. /\ images \in [ImageNames -> 0..Len(memory)]
        /\ \A p \in PyramidNames : StagesIn(memory, pyramids[p])
    BY DEF MemoryInv, HandlesOK
  <1>3. \A p \in PyramidNames : ToSet(pyramids[p].imgs) \subseteq DOMAIN memory
    BY <1>2 DEF StagesIn, ToSet
  <1>4. ToSet(context.imgs) \subseteq DOMAIN memory
    BY DEF CountInv, CountOK, Counted, ContextOK, ToSet
  <1>5. phase \in {"running", "releasing", "left"}
    BY DEF CountInv, CountOK, ReleasedOK
  <1>6. ASSUME NEW i \in DOMAIN memory
        PROVE  /\ memory[i].stride >= memory[i].width
               /\ DOMAIN memory[i].device
                    = 0..(memory[i].stride * memory[i].height - 1)
               /\ DOMAIN memory[i].host
                    = 0..(memory[i].width * memory[i].height - 1)
               /\ memory[i].live \in BOOLEAN
    <2>1. Shape(target, memory[i])
      BY MemoryFacts
    <2>2. memory[i].live = (memory[i].refs > 0)
      BY CountFacts DEF CountInv
    <2>3. memory[i].live \in BOOLEAN
      BY <2>2
    <2> QED
      <3>1. PICK m : m = memory[i] /\ Shape(target, m) /\ target \in Targets
        BY <2>1, MemoryFacts
      <3>2. m.stride \in Nat /\ m.width \in Nat /\ m.width <= m.stride
        BY <3>1, ShapeFacts
      <3>3. m.stride >= m.width
        BY <3>2
      <3>4. DOMAIN m.device = Cells(m) /\ DOMAIN m.host = Pixels(m)
        BY <3>1 DEF Shape, IsDevice, IsHost
      <3> QED
        BY <2>3, <3>1, <3>3, <3>4 DEF Cells, Pixels
  <1> QED
    BY <1>1, <1>2, <1>3, <1>4, <1>5, <1>6 DEF MemoryTypeOK, StatementsOK

(* Whatever the program does, memory is what the functions of the run-time *)
(* expect: rows fit into their stride, blocks have the size of their image,*)
(* and no list has an entry without an image.                              *)
THEOREM MemoryTypeCorrect == Spec => []MemoryTypeOK
  <1>1. Init => MemoryInv /\ TraversalInv /\ CountInv /\ StatementsOK
    <2>1. Init => StatementsOK
      BY BoundsAreNat DEF Init, StatementsOK
    <2> QED
      BY <2>1, InitRefines, InitTraversalInv, InitCountInv
  <1>2. MemoryInv /\ TraversalInv /\ CountInv /\ StatementsOK /\ [Next]_vars
          => (MemoryInv /\ TraversalInv /\ CountInv /\ StatementsOK)'
    BY NextRefines, NextKeepsTraversalInv, NextKeepsCount, NextCountsStatements
  <1>3. MemoryInv /\ CountInv /\ StatementsOK => MemoryTypeOK
    BY InvariantsImplyTypes
  <1> QED
    BY <1>1, <1>2, <1>3, PTL DEF Spec

(* The reference count of a host block is the number of handles on it, of  *)
(* all variables, stages and context entries: for every program, whatever  *)
(* the order of its statements and releases.                               *)
THEOREM HostBlocksAreCounted == Spec => []HostBlocksCounted
  <1>1. Init => MemoryInv /\ TraversalInv /\ CountInv
    BY InitRefines, InitTraversalInv, InitCountInv
  <1>2. MemoryInv /\ TraversalInv /\ CountInv /\ [Next]_vars
          => (MemoryInv /\ TraversalInv /\ CountInv)'
    BY NextRefines, NextKeepsTraversalInv, NextKeepsCount
  <1>3. CountInv => HostBlocksCounted
    BY CountInvImpliesCounted
  <1> QED
    BY <1>1, <1>2, <1>3, PTL DEF Spec

(* When main() has returned every device block was released once, by the   *)
(* variable that created it, and none before the last statement.           *)
THEOREM BlocksAreReleasedOnce == Spec => []ReleasedOnce
  <1>1. Init => MemoryInv /\ TraversalInv /\ CountInv
    BY InitRefines, InitTraversalInv, InitCountInv
  <1>2. MemoryInv /\ TraversalInv /\ CountInv /\ [Next]_vars
          => (MemoryInv /\ TraversalInv /\ CountInv)'
    BY NextRefines, NextKeepsTraversalInv, NextKeepsCount
  <1>3. CountInv => ReleasedOnce
    BY CountInvImpliesReleased
  <1> QED
    BY <1>1, <1>2, <1>3, PTL DEF Spec
=============================================================================
