-------------------------- MODULE Reduction_proofs --------------------------
(***************************************************************************)
(* Theorems about Reduction, for images, regions, blocks and numbers of    *)
(* calls of any size.  The first part is about the schedule: what the      *)
(* partial results are does not matter there.  The second is about the     *)
(* values: which pixels a thread, a block and the gathering threads take.  *)
(* The third combines them, and adds the types.                            *)
(***************************************************************************)
EXTENDS Reduction, FiniteSetTheorems, SequenceTheorems, WellFoundedInduction, TLAPS

(* Division rounded up is positive.                                        *)
LEMMA CeilPositive ==
  ASSUME NEW a \in Nat \ {0}, NEW b \in Nat \ {0}
  PROVE  Ceil(a, b) \in Nat \ {0}
BY SMT DEF Ceil

(* Whole blocks that fit into a columns are no wider than a columns.       *)
LEMMA WholeBlocks ==
  ASSUME NEW a \in Nat, NEW b \in Nat \ {0}
  PROVE  (a \div b) * b \in 0..a
BY SMT

(* Every region has a block.                                               *)
LEMMA GridPositive ==
  ASSUME NEW r \in Region
  PROVE  GridSize(r) \in Nat \ {0}
<1>1. /\ r.x \in Nat /\ r.y \in Nat
      /\ r.width \in Nat \ {0} /\ r.height \in Nat \ {0}
      /\ r.x + r.width <= Width
      /\ {Width, PPT, BlockDim} \subseteq Nat \ {0}
  BY RegionsAreParts, SizesArePositive
<1>2. IdleLeft(r) \in 0..r.x
  <2>1. (r.x \div BlockDim) * BlockDim \in 0..r.x
    BY <1>1, WholeBlocks
  <2>2. 0 \in 0..r.x
    BY <1>1
  <2> QED
    BY <2>1, <2>2, Zenon DEF IdleLeft
<1>3. Width - r.x - r.width \in Nat
  BY <1>1
<1>4. IdleRight(r) \in 0..(Width - r.x - r.width)
  <2>1. ((Width - r.x - r.width) \div BlockDim) * BlockDim
          \in 0..(Width - r.x - r.width)
    BY <1>1, <1>3, WholeBlocks
  <2>2. 0 \in 0..(Width - r.x - r.width)
    BY <1>3
  <2> QED
    BY <2>1, <2>2, Zenon DEF IdleRight
<1>5. Width - IdleLeft(r) - IdleRight(r) \in Nat \ {0}
  BY <1>1, <1>2, <1>4
<1>6. 2 * BlockDim \in Nat \ {0}
  BY <1>1
<1>7. GridX(r) \in Nat \ {0}
  BY <1>5, <1>6, CeilPositive DEF GridX
<1>8. GridY(r) \in Nat \ {0}
  BY <1>1, CeilPositive, Zenon DEF GridY
<1> QED
  BY <1>7, <1>8, SMT DEF GridSize

-----------------------------------------------------------------------------
(* The inductive invariant.  While tickets are drawn, finished_blocks      *)
(* counts the blocks that have drawn one, so that the block drawing the    *)
(* last is the only one left; a block that has passed its fence has stored *)
(* its partial result.                                                     *)
Typed ==
  /\ target \in {"fence", "steps"}
  /\ region \in Region
  /\ host \in {"idle", "kernel2D", "kernel1D"}
  /\ pc \in [Block -> PCs]
  /\ inFlight \in SUBSET Block
  /\ output = [b \in Block |-> output[b]]

Fencing == target = "fence" /\ NumBlocks > 1
Busy    == \E b \in Block : pc[b] # "done"
Past    == {b \in Block : pc[b] \in {"last", "done"}}

Quiet == host # "kernel2D" => inFlight = {} /\ ~Busy

Unfenced == ~Fencing => \A b \in Block : pc[b] \in {"reduce", "done"}

Counted == finished = IF Fencing /\ Busy THEN Cardinality(Past) ELSE 0

LastIsAlone ==
  \A b, c \in Block : pc[b] = "last" /\ c # b => pc[c] = "done"

Fenced == Fencing => \A b \in inFlight : pc[b] = "fence"

Stored ==
  host = "kernel2D" /\ (Fencing => Busy) =>
    \A b \in Block : pc[b] # "reduce" =>
      b \in inFlight \/ output[b] = Partial(region, b)

Gathered ==
  /\ host = "kernel1D" => target = "steps" /\ output[0] = Expected(target, region)
  /\ host = "kernel2D" /\ Fencing /\ ~Busy => output[0] = Expected(target, region)

IInv == /\ Typed
        /\ Quiet
        /\ Unfenced
        /\ Counted
        /\ LastIsAlone
        /\ Fenced
        /\ Stored
        /\ Gathered
        /\ ScheduleIndependent

(* The blocks of a region: a finite set with block 0 in it.                *)
LEMMA Blocks ==
  ASSUME Typed
  PROVE  /\ NumBlocks \in Nat \ {0}
         /\ 0 \in Block
         /\ IsFiniteSet(Block)
         /\ Cardinality(Block) = NumBlocks
<1>1. NumBlocks \in Nat \ {0}
  BY GridPositive DEF Typed, NumBlocks
<1>2. /\ IsFiniteSet(0..(NumBlocks - 1))
      /\ Cardinality(0..(NumBlocks - 1))
           = IF 0 > NumBlocks - 1 THEN 0 ELSE NumBlocks - 1 - 0 + 1
  BY <1>1, FS_Interval
<1> QED
  BY <1>1, <1>2 DEF Block

(* Output filled with the partial results is the array Expected reduces.   *)
LEMMA AllStored ==
  ASSUME Typed, \A b \in Block : output[b] = Partial(region, b)
  PROVE  output = Partials(region)
BY Zenon DEF Typed, Partials, Block, NumBlocks

THEOREM InitIInv == Init => IInv
<1> SUFFICES ASSUME Init PROVE IInv
  OBVIOUS
<1>1. Typed
  BY DEF Init, Typed, PCs
<1>2. ~Busy
  BY DEF Init, Busy
<1>3. Quiet /\ Gathered /\ Stored
  BY <1>2 DEF Init, Quiet, Gathered, Stored
<1>4. Unfenced /\ LastIsAlone /\ Fenced
  BY DEF Init, Unfenced, LastIsAlone, Fenced
<1>5. Counted
  BY <1>2 DEF Init, Counted
<1>6. ScheduleIndependent
  BY DEF Init, ScheduleIndependent
<1> QED
  BY <1>1, <1>3, <1>4, <1>5, <1>6 DEF IInv

-----------------------------------------------------------------------------
(* The grid is the same in all states of a behaviour.                      *)
LEMMA SameBlocks ==
  ASSUME UNCHANGED <<target, region>>
  PROVE  /\ NumBlocks' = NumBlocks
         /\ Block' = Block
         /\ Fencing' = Fencing
         /\ Expected(target, region)' = Expected(target, region)
         /\ \A b : Partial(region, b)' = Partial(region, b)
BY DEF NumBlocks, Block, Fencing

LEMMA ApplyReductionStep ==
  ASSUME IInv, ApplyReduction
  PROVE  IInv'
<1> USE DEF IInv, ApplyReduction
<1>1. /\ NumBlocks' = NumBlocks /\ Block' = Block /\ Fencing' = Fencing
      /\ 0 \in Block
  BY SameBlocks, Blocks
<1>2. Typed'
  BY <1>1 DEF Typed, PCs
<1>3. Busy'
  BY <1>1 DEF Busy
<1>4. Quiet'
  BY DEF Quiet
<1>5. Unfenced' /\ LastIsAlone' /\ Stored'
  BY <1>1 DEF Unfenced, LastIsAlone, Stored
<1>6. Fenced'
  BY <1>1 DEF Fenced, Quiet
<1>7. finished' = 0
  BY DEF Counted, Quiet
<1>8. Counted'
  <2>1. Past' = {}
    BY <1>1 DEF Past
  <2> QED
    BY <1>7, <2>1, FS_EmptySet, Zenon DEF Counted
<1>9. Gathered'
  BY <1>3 DEF Gathered
<1>10. ScheduleIndependent'
  BY DEF ScheduleIndependent
<1> QED
  BY <1>2, <1>4, <1>5, <1>6, <1>8, <1>9, <1>10

LEMMA StorePartialStep ==
  ASSUME IInv, NEW b \in Block, StorePartial(b)
  PROVE  IInv'
<1> USE DEF IInv, StorePartial
<1>1. /\ NumBlocks' = NumBlocks /\ Block' = Block /\ Fencing' = Fencing
      /\ \A c : Partial(region, c)' = Partial(region, c)
      /\ Expected(target, region)' = Expected(target, region)
  BY SameBlocks
<1>2. /\ pc \in [Block -> PCs] /\ pc[b] = "reduce" /\ b \notin Past /\ Busy
      /\ pc' = [pc EXCEPT ![b] = IF Fencing THEN "fence" ELSE "done"]
  BY DEF Typed, Past, Busy, Fencing
<1>3. Typed'
  BY <1>1, <1>2 DEF Typed, PCs
<1>4. Quiet' /\ ScheduleIndependent'
  BY DEF Quiet, ScheduleIndependent
<1>5. Unfenced'
  BY <1>1, <1>2 DEF Unfenced
<1>6. LastIsAlone'
  BY <1>1, <1>2 DEF LastIsAlone
<1>7. Fenced'
  BY <1>1, <1>2, Blocks DEF Fenced, Typed
<1>8. Fencing => Busy' /\ Past' = Past
  BY <1>1, <1>2 DEF Busy, Past
<1>9. Counted'
  BY <1>1, <1>2, <1>8 DEF Counted
<1>10. Stored'
  BY <1>1, <1>2 DEF Stored
<1>11. Gathered'
  BY <1>1, <1>8 DEF Gathered
<1> QED
  BY <1>3, <1>4, <1>5, <1>6, <1>7, <1>9, <1>10, <1>11

LEMMA ArriveStep ==
  ASSUME IInv, NEW b \in Block, Arrive(b)
  PROVE  IInv'
<1> USE DEF IInv, Arrive
<1>1. /\ NumBlocks' = NumBlocks /\ Block' = Block /\ Fencing' = Fencing
      /\ \A c : Partial(region, c)' = Partial(region, c)
      /\ Expected(target, region)' = Expected(target, region)
  BY SameBlocks
<1>2. Typed'
  BY <1>1 DEF Typed
<1>3. host = "kernel2D"
  BY DEF Quiet, Typed
<1>4. Busy' = Busy /\ Past' = Past
  BY <1>1 DEF Busy, Past
<1>5. Quiet' /\ ScheduleIndependent'
  BY <1>3 DEF Quiet, ScheduleIndependent
<1>6. Unfenced' /\ LastIsAlone' /\ Fenced'
  BY <1>1 DEF Unfenced, LastIsAlone, Fenced
<1>7. Counted'
  BY <1>1, <1>4, Zenon DEF Counted
<1>8. Stored'
  BY <1>1, <1>4 DEF Stored, Typed
<1>9. Fencing => Busy
  BY DEF Fenced, Busy
<1>10. Gathered'
  BY <1>1, <1>3, <1>4, <1>9 DEF Gathered
<1> QED
  BY <1>2, <1>5, <1>6, <1>7, <1>8, <1>10

LEMMA ThreadFenceStep ==
  ASSUME IInv, NEW b \in Block, ThreadFence(b)
  PROVE  IInv'
<1> USE DEF IInv, ThreadFence
<1>1. /\ NumBlocks' = NumBlocks /\ Block' = Block /\ Fencing' = Fencing
      /\ \A c : Partial(region, c)' = Partial(region, c)
      /\ Expected(target, region)' = Expected(target, region)
  BY SameBlocks
<1>2. /\ pc \in [Block -> PCs] /\ pc[b] = "fence" /\ Fencing
      /\ pc' = [pc EXCEPT ![b] = "ticket"]
  BY DEF Typed, Unfenced
<1>3. Typed'
  BY <1>1, <1>2 DEF Typed, PCs
<1>4. Busy /\ Busy' /\ Past' = Past
  BY <1>1, <1>2 DEF Busy, Past
<1>5. Quiet' /\ ScheduleIndependent'
  BY <1>4 DEF Quiet, ScheduleIndependent
<1>6. Unfenced'
  BY <1>1, <1>2 DEF Unfenced
<1>7. LastIsAlone'
  BY <1>1, <1>2 DEF LastIsAlone
<1>8. Fenced'
  BY <1>1, <1>2 DEF Fenced, Typed
<1>9. Counted'
  BY <1>1, <1>4, Zenon DEF Counted
<1>10. Stored'
  BY <1>1, <1>2, <1>4 DEF Stored
<1>11. Gathered'
  BY <1>4 DEF Gathered, Quiet
<1> QED
  BY <1>3, <1>5, <1>6, <1>7, <1>8, <1>9, <1>10, <1>11

(* The block that draws ticket NumBlocks - 1 finds that all others have    *)
(* drawn theirs: NumBlocks - 1 blocks have, and it is not one of them.     *)
LEMMA LastTicket ==
  ASSUME IInv, NEW b \in Block, pc[b] = "ticket"
  PROVE  /\ finished = Cardinality(Past)
         /\ finished \in 0..(NumBlocks - 1)
         /\ Cardinality(Past \union {b}) = finished + 1
         /\ finished = NumBlocks - 1 => \A c \in Block : c # b => pc[c] = "done"
<1> USE DEF IInv
<1>1. Fencing /\ Busy
  BY DEF Unfenced, Busy
<1>2. finished = Cardinality(Past)
  BY <1>1 DEF Counted
<1>3. Past \in SUBSET Block /\ b \notin Past
  BY DEF Past
<1>4. /\ IsFiniteSet(Block) /\ Cardinality(Block) = NumBlocks
      /\ NumBlocks \in Nat \ {0}
  BY Blocks
<1>5. IsFiniteSet(Past)
  BY <1>3, <1>4, FS_Subset
<1>6. Cardinality(Past) \in Nat
  BY <1>5, FS_CardinalityType
<1>7. Cardinality(Past \union {b}) = finished + 1
  BY <1>2, <1>3, <1>5, FS_AddElement
<1>8. Past \union {b} \in SUBSET Block
  BY <1>3
<1>9. /\ Cardinality(Past \union {b}) <= NumBlocks
      /\ NumBlocks = Cardinality(Past \union {b}) => Block = Past \union {b}
  BY <1>4, <1>8, FS_Subset
<1>10. finished \in 0..(NumBlocks - 1)
  BY <1>2, <1>4, <1>6, <1>7, <1>9
<1>11. ASSUME finished = NumBlocks - 1, NEW c \in Block, c # b
       PROVE  pc[c] = "done"
  <2>1. c \in Past
    BY <1>4, <1>7, <1>9, <1>11
  <2>2. pc[c] # "last"
    BY <1>11 DEF LastIsAlone
  <2> QED
    BY <2>1, <2>2 DEF Past
<1> QED
  BY <1>2, <1>7, <1>10, <1>11

LEMMA DrawTicketStep ==
  ASSUME IInv, NEW b \in Block, DrawTicket(b)
  PROVE  IInv'
<1> USE DEF IInv, DrawTicket
<1>1. /\ NumBlocks' = NumBlocks /\ Block' = Block /\ Fencing' = Fencing
      /\ \A c : Partial(region, c)' = Partial(region, c)
      /\ Expected(target, region)' = Expected(target, region)
      /\ NumBlocks \in Nat \ {0}
  BY SameBlocks, Blocks
<1>2. /\ finished \in 0..(NumBlocks - 1)
      /\ Cardinality(Past \union {b}) = finished + 1
      /\ finished = NumBlocks - 1 => \A c \in Block : c # b => pc[c] = "done"
      /\ finished = Cardinality(Past)
  BY LastTicket
<1>3. /\ pc \in [Block -> PCs] /\ pc[b] = "ticket" /\ Fencing /\ Busy
      /\ pc' = [pc EXCEPT ![b] = IF finished = NumBlocks - 1 THEN "last" ELSE "done"]
  BY DEF Typed, Unfenced, Busy
<1>4. Typed'
  BY <1>1, <1>3 DEF Typed, PCs
<1>5. finished' = finished + 1
  BY <1>1, <1>2
<1>6. Past' = Past \union {b}
  BY <1>1, <1>3 DEF Past
<1>7. Busy'
  <2>1. CASE finished = NumBlocks - 1
    BY <2>1, <1>1, <1>3 DEF Busy
  <2>2. CASE finished # NumBlocks - 1
    <3>1. PICK c \in Block : c \notin Past \union {b}
      <4> SUFFICES ASSUME Past \union {b} = Block PROVE FALSE
        BY <1>3 DEF Past
      <4>1. Cardinality(Block) = NumBlocks
        BY Blocks
      <4>2. Cardinality(Past \union {b}) = NumBlocks
        BY <4>1
      <4>3. finished + 1 = NumBlocks /\ finished \in Int
        BY <1>2, <4>2
      <4> HIDE DEF IInv, DrawTicket
      <4> QED
        BY <4>3, <2>2
    <3>2. c # b /\ pc[c] # "done"
      BY <3>1 DEF Past
    <3>3. pc'[c] = pc[c] /\ c \in Block'
      BY <1>1, <1>3, <3>1, <3>2
    <3> QED
      BY <3>2, <3>3 DEF Busy
  <2> QED
    BY <2>1, <2>2
<1>8. Quiet' /\ ScheduleIndependent'
  BY <1>3 DEF Quiet, ScheduleIndependent
<1>9. Unfenced'
  BY <1>1, <1>3 DEF Unfenced
<1>10. LastIsAlone'
  BY <1>1, <1>2, <1>3 DEF LastIsAlone
<1>11. Fenced'
  BY <1>1, <1>3 DEF Fenced, Typed
<1>12. Counted'
  BY <1>1, <1>2, <1>3, <1>5, <1>6, <1>7 DEF Counted
<1>13. Stored'
  BY <1>1, <1>3 DEF Stored
<1>14. Gathered'
  BY <1>3, <1>7 DEF Gathered, Quiet
<1> QED
  BY <1>4, <1>8, <1>9, <1>10, <1>11, <1>12, <1>13, <1>14

LEMMA LastBlockStep ==
  ASSUME IInv, NEW b \in Block, LastBlock(b)
  PROVE  IInv'
<1> USE DEF IInv, LastBlock
<1>1. /\ NumBlocks' = NumBlocks /\ Block' = Block /\ Fencing' = Fencing
      /\ Expected(target, region)' = Expected(target, region)
      /\ NumBlocks \in Nat \ {0} /\ 0 \in Block
  BY SameBlocks, Blocks
<1>2. /\ pc \in [Block -> PCs] /\ pc[b] = "last" /\ Fencing /\ Busy
      /\ pc' = [pc EXCEPT ![b] = "done"]
      /\ \A c \in Block : c # b => pc[c] = "done"
  BY DEF Typed, Unfenced, Busy, LastIsAlone
<1>3. ~Busy'
  BY <1>1, <1>2 DEF Busy
<1>4. Typed'
  BY <1>1, <1>2 DEF Typed, PCs
<1>5. inFlight = {} /\ host = "kernel2D"
  BY <1>2 DEF Fenced, Quiet, Typed
<1>6. output = Partials(region)
  BY <1>2, <1>5, AllStored DEF Stored
<1>7. target = "fence" /\ NumBlocks = GridSize(region) /\ GridSize(region) # 1
  BY <1>1, <1>2 DEF Fencing, NumBlocks
<1>8. Expected(target, region) = Gather(output, NumBlocks, BlockDim)
  BY <1>6, <1>7, Zenon DEF Expected
<1>9. output'[0] = Expected(target, region)
  BY <1>1, <1>8, Zenon DEF Typed
<1>10. Quiet' /\ ScheduleIndependent'
  BY <1>5 DEF Quiet, ScheduleIndependent
<1>11. Unfenced' /\ LastIsAlone' /\ Fenced'
  BY <1>1, <1>2, <1>5 DEF Unfenced, LastIsAlone, Fenced
<1>12. Counted'
  BY <1>3 DEF Counted
<1>13. Stored'
  BY <1>1, <1>2, <1>3 DEF Stored
<1>14. Gathered'
  BY <1>1, <1>5, <1>9 DEF Gathered
<1> QED
  BY <1>4, <1>10, <1>11, <1>12, <1>13, <1>14

LEMMA Kernel1DStep ==
  ASSUME IInv, Kernel1D
  PROVE  IInv'
<1> USE DEF IInv, Kernel1D
<1>1. /\ NumBlocks' = NumBlocks /\ Block' = Block /\ Fencing' = Fencing
      /\ \A c : Partial(region, c)' = Partial(region, c)
      /\ Expected(target, region)' = Expected(target, region)
      /\ 0 \in Block
  BY SameBlocks, Blocks
<1>2. ~Busy /\ ~Busy' /\ inFlight = {} /\ ~Fencing
  BY <1>1 DEF KernelDone, Busy, Fencing
<1>3. Typed'
  BY <1>1 DEF Typed
<1>4. \A b \in Block : output[b] = Partial(region, b)
  BY <1>2 DEF Stored, KernelDone
<1>5. output = Partials(region)
  BY <1>4, AllStored
<1>6. Expected(target, region)
        = Gather(output, NumBlocks, SecondBlockDim(NumBlocks))
  BY <1>5, Zenon DEF Expected, NumBlocks
<1>7. output'[0] = Expected(target, region)
  BY <1>1, <1>6, Zenon DEF Typed
<1>8. Quiet' /\ ScheduleIndependent'
  BY <1>2 DEF Quiet, ScheduleIndependent
<1>9. Unfenced' /\ LastIsAlone' /\ Fenced'
  BY <1>1 DEF Unfenced, LastIsAlone, Fenced
<1>10. Counted'
  BY <1>2 DEF Counted
<1>11. Stored'
  BY DEF Stored
<1>12. Gathered'
  BY <1>1, <1>7 DEF Gathered
<1> QED
  BY <1>3, <1>8, <1>9, <1>10, <1>11, <1>12

LEMMA ReturnStep ==
  ASSUME IInv, Return
  PROVE  IInv'
<1> USE DEF IInv, Return
<1>1. /\ NumBlocks' = NumBlocks /\ Block' = Block /\ Fencing' = Fencing
      /\ Expected(target, region)' = Expected(target, region)
      /\ NumBlocks \in Nat \ {0} /\ 0 \in Block
  BY SameBlocks, Blocks
<1>2. ~Busy /\ ~Busy' /\ inFlight = {}
  BY <1>1 DEF KernelDone, Busy
<1>3. Typed'
  BY <1>1 DEF Typed
<1>4. output[0] = Expected(target, region)
  <2>1. CASE target = "steps"
    BY <2>1 DEF Gathered
  <2>2. CASE target = "fence" /\ Fencing
    BY <1>2, <2>2 DEF Gathered
  <2>3. CASE target = "fence" /\ ~Fencing
    <3>1. GridSize(region) = 1
      BY <1>1, <2>3 DEF Fencing, NumBlocks
    <3>2. \A b \in Block : output[b] = Partial(region, b)
      BY <1>2, <2>3 DEF Stored, KernelDone
    <3>3. output = Partials(region)
      BY <3>2, AllStored
    <3> QED
      BY <2>3, <3>1, <3>3 DEF Expected
  <2> QED
    BY <2>1, <2>2, <2>3 DEF Typed
<1>5. Quiet'
  BY <1>2 DEF Quiet
<1>6. ScheduleIndependent'
  BY <1>1, <1>4 DEF ScheduleIndependent
<1>7. Unfenced' /\ LastIsAlone' /\ Fenced'
  BY <1>1 DEF Unfenced, LastIsAlone, Fenced
<1>8. Counted'
  BY <1>2 DEF Counted
<1>9. Stored' /\ Gathered'
  BY DEF Stored, Gathered
<1> QED
  BY <1>3, <1>5, <1>6, <1>7, <1>8, <1>9

LEMMA StutterStep ==
  ASSUME IInv, UNCHANGED vars
  PROVE  IInv'
<1> USE DEF IInv, vars
<1>1. /\ NumBlocks' = NumBlocks /\ Block' = Block /\ Fencing' = Fencing
      /\ \A c : Partial(region, c)' = Partial(region, c)
      /\ Expected(target, region)' = Expected(target, region)
  BY SameBlocks
<1>2. Busy' = Busy /\ Past' = Past
  BY <1>1 DEF Busy, Past
<1>3. Typed' /\ Quiet' /\ Unfenced' /\ LastIsAlone' /\ Fenced'
  BY <1>1, <1>2 DEF Typed, Quiet, Unfenced, LastIsAlone, Fenced
<1>4. Counted'
  BY <1>1, <1>2, Zenon DEF Counted
<1>5. Stored' /\ Gathered' /\ ScheduleIndependent'
  BY <1>1, <1>2 DEF Stored, Gathered, ScheduleIndependent
<1> QED
  BY <1>3, <1>4, <1>5

(* The invariant behind the theorems below holds in every state.           *)
THEOREM ReductionInvariant == Spec => []IInv
<1>1. IInv /\ [Next]_vars => IInv'
  <2> SUFFICES ASSUME IInv, [Next]_vars PROVE IInv'
    OBVIOUS
  <2>1. CASE ApplyReduction
    BY <2>1, ApplyReductionStep
  <2>2. ASSUME NEW b \in Block, BlockStep(b) PROVE IInv'
    BY <2>2, StorePartialStep, ArriveStep, ThreadFenceStep, DrawTicketStep,
       LastBlockStep DEF BlockStep
  <2>3. CASE Kernel1D
    BY <2>3, Kernel1DStep
  <2>4. CASE Return
    BY <2>4, ReturnStep
  <2>5. CASE UNCHANGED vars
    BY <2>5, StutterStep
  <2> QED
    BY <2>1, <2>2, <2>3, <2>4, <2>5 DEF Next
<1> QED
  BY InitIInv, <1>1, PTL DEF Spec

(* The block that reduces the partial results is the only one left and     *)
(* sees all of them, however many blocks there are.                        *)
THEOREM LastSeesAllPartials == Spec => []LastSeesAll
<1>1. IInv => LastSeesAll
  <2> SUFFICES ASSUME IInv, NEW b \in Block, pc[b] = "last", NEW c \in Block
               PROVE  /\ output[c] = Partial(region, c)
                      /\ c # b => pc[c] = "done"
    BY DEF LastSeesAll
  <2> USE DEF IInv
  <2>1. Fencing /\ Busy
    BY DEF Unfenced, Busy
  <2>2. host = "kernel2D"
    BY <2>1 DEF Quiet
  <2>3. c # b => pc[c] = "done"
    BY DEF LastIsAlone
  <2>4. c \notin inFlight /\ pc[c] # "reduce"
    BY <2>1, <2>3 DEF Fenced
  <2> QED
    BY <2>1, <2>2, <2>3, <2>4 DEF Stored
<1> QED
  BY ReductionInvariant, <1>1, PTL

(* Between calls the counter is zero: the kernel can be launched again.    *)
THEOREM CounterIsReset == Spec => []CounterReset
<1>1. IInv => CounterReset
  BY DEF IInv, CounterReset, Quiet, Counted
<1> QED
  BY ReductionInvariant, <1>1, PTL

(* Every call returns what the partial results determine, whatever the     *)
(* order in which blocks run and stores arrive.                            *)
THEOREM ResultIsDeterminate == Spec => []ScheduleIndependent
<1>1. IInv => ScheduleIndependent
  BY DEF IInv
<1> QED
  BY ReductionInvariant, <1>1, PTL

-----------------------------------------------------------------------------
(* Induction, as a fact about sets.                                        *)
LEMMA InductionOnNat ==
  ASSUME NEW S, 0 \in S, \A n \in Nat : n \in S => n + 1 \in S
  PROVE  Nat \subseteq S
  <1> DEFINE T == {n \in Nat : n \notin S}
             R == {ss \in Nat \X Nat : ss[1] < ss[2]}
  <1>1. SUFFICES ASSUME T # {} PROVE FALSE
    OBVIOUS
  <1>2. IsWellFoundedOn(R, Nat)
    BY NatLessThanWellFounded DEF OpToRel
  <1>3. PICK x \in T : \A y \in T : <<y, x>> \notin R
    <2> HIDE DEF R
    <2> QED
      BY <1>1, <1>2, WFMin
  <1>4. x \in Nat /\ x # 0
    BY <1>3
  <1>5. x - 1 \in T
    BY <1>4, <1>3
  <1>6. <<x - 1, x>> \in R
    BY <1>4
  <1> QED
    BY <1>3, <1>5, <1>6

-----------------------------------------------------------------------------
(* Sequences that list the elements of a set, each once.                   *)
Lists(s, S) == /\ s \in Seq(Int)
               /\ \A m, n \in 1..Len(s) : s[m] = s[n] => m = n
               /\ S = {s[n] : n \in 1..Len(s)}

LEMMA ListsNone ==
  ASSUME NEW s \in Seq(Int), Len(s) = 0
  PROVE  Lists(s, {})
BY DEF Lists

LEMMA ListsOne ==
  ASSUME NEW a \in Int
  PROVE  Lists(<<a>>, {a})
BY DEF Lists

LEMMA ListsTwo ==
  ASSUME NEW a \in Int, NEW b \in Int, a # b
  PROVE  Lists(<<a, b>>, {a, b})
<1>1. PICK s : s = <<a, b>>
  OBVIOUS
<1>2. s \in Seq(Int) /\ Len(s) = 2 /\ s[1] = a /\ s[2] = b
  BY <1>1
<1>3. 1..Len(s) = {1, 2}
  BY <1>2
<1>4. Lists(s, {a, b})
  BY <1>2, <1>3 DEF Lists
<1> QED
  BY <1>1, <1>4

LEMMA ListsConcat ==
  ASSUME NEW s, NEW t, NEW S, NEW T, Lists(s, S), Lists(t, T), S \cap T = {}
  PROVE  Lists(s \o t, S \union T)
<1>1. PICK j \in Nat, k \in Nat : j = Len(s) /\ k = Len(t)
  BY DEF Lists
<1>2. /\ s \in Seq(Int) /\ t \in Seq(Int)
      /\ \A m, n \in 1..j : s[m] = s[n] => m = n
      /\ \A m, n \in 1..k : t[m] = t[n] => m = n
      /\ S = {s[n] : n \in 1..j}
      /\ T = {t[n] : n \in 1..k}
  BY <1>1 DEF Lists
<1>3. PICK u : u = s \o t
  OBVIOUS
<1>4. u \in Seq(Int) /\ Len(u) = j + k
  BY <1>1, <1>2, <1>3
<1>5. ASSUME NEW n \in 1..(j + k)
      PROVE  /\ n <= j => u[n] = s[n] /\ n \in 1..j
             /\ n > j => u[n] = t[n - j] /\ n - j \in 1..k
  BY <1>1, <1>2, <1>3
<1>6. \A m, n \in 1..(j + k) : u[m] = u[n] => m = n
  <2>1. SUFFICES ASSUME NEW m \in 1..(j + k), NEW n \in 1..(j + k), u[m] = u[n]
                 PROVE  m = n
    OBVIOUS
  <2>2. CASE m <= j /\ n <= j
    BY <1>2, <1>5, <2>1, <2>2
  <2>3. CASE m > j /\ n > j
    <3>1. u[m] = t[m - j] /\ m - j \in 1..k /\ u[n] = t[n - j] /\ n - j \in 1..k
      BY <1>5, <2>3
    <3>2. m - j = n - j
      BY <1>2, <2>1, <3>1
    <3> QED
      BY <3>2
  <2>4. CASE m <= j /\ n > j
    <3>1. u[m] \in S /\ u[n] \in T
      BY <1>2, <1>5, <2>4
    <3> QED
      BY <2>1, <3>1
  <2>5. CASE m > j /\ n <= j
    <3>1. u[m] \in T /\ u[n] \in S
      BY <1>2, <1>5, <2>5
    <3> QED
      BY <2>1, <3>1
  <2> QED
    BY <2>2, <2>3, <2>4, <2>5
<1>7. S \union T = {u[n] : n \in 1..(j + k)}
  <2>1. ASSUME NEW e \in S
        PROVE  e \in {u[n] : n \in 1..(j + k)}
    <3>1. PICK n \in 1..j : e = s[n]
      BY <1>2
    <3>2. n \in 1..(j + k) /\ u[n] = s[n]
      BY <1>5
    <3> QED
      BY <3>1, <3>2
  <2>2. ASSUME NEW e \in T
        PROVE  e \in {u[n] : n \in 1..(j + k)}
    <3>1. PICK n \in 1..k : e = t[n]
      BY <1>2
    <3>2. n + j \in 1..(j + k) /\ n + j > j /\ (n + j) - j = n
      OBVIOUS
    <3>3. u[n + j] = t[(n + j) - j]
      BY <1>5, <3>2
    <3>4. PICK i \in 1..(j + k) : e = u[i]
      BY <3>1, <3>2, <3>3
    <3> QED
      BY <3>4
  <2>3. ASSUME NEW n \in 1..(j + k)
        PROVE  u[n] \in S \union T
    <3>1. CASE n <= j
      BY <1>2, <1>5, <3>1
    <3>2. CASE n > j
      <4>1. n - j \in 1..k /\ u[n] = t[n - j]
        BY <1>5, <3>2
      <4> QED
        BY <1>2, <4>1
    <3> QED
      BY <3>1, <3>2
  <2> QED
    BY <2>1, <2>2, <2>3
<1>8. Len(u) = j + k
  BY <1>4
<1>9. Lists(u, S \union T)
  BY <1>4, <1>6, <1>7, <1>8 DEF Lists
<1> QED
  BY <1>3, <1>9

(* There are as many elements in the set as in the sequence.               *)
LEMMA ListsCount ==
  ASSUME NEW s, NEW S, Lists(s, S)
  PROVE  /\ Len(s) = Cardinality(S)
         /\ {s[n] : n \in DOMAIN s} = S
<1>1. PICK k \in Nat : k = Len(s) /\ DOMAIN s = 1..k
  BY DEF Lists
<1>2. PICK f : f = [n \in 1..k |-> s[n]]
  OBVIOUS
<1>3. f \in Bijection(1..k, S)
  BY <1>1, <1>2 DEF Lists, Bijection, Injection, Surjection, IsInjective
<1>4. IsFiniteSet(1..k) /\ Cardinality(1..k) = k
  BY FS_Interval
<1>5. ExistsBijection(1..k, S)
  BY <1>3 DEF ExistsBijection
<1>6. Cardinality(S) = k
  BY <1>4, <1>5, FS_Bijection
<1> QED
  BY <1>1, <1>6 DEF Lists

-----------------------------------------------------------------------------
(* FlattenSeq is defined by a recursive function on the indices of the     *)
(* sequence of sequences; such a function exists up to every n.            *)
FlattensTo(f, q, n) == f = [i \in 1..n |-> IF i = 1 THEN q[i] ELSE f[i - 1] \o q[i]]

LEMMA FlatteningExists ==
  ASSUME NEW q, NEW n \in Nat
  PROVE  \E f : FlattensTo(f, q, n)
<1> DEFINE S == {k \in Nat : \E f : FlattensTo(f, q, k)}
<1>1. 0 \in S
  <2>1. PICK f : f = [i \in 1..0 |-> 0]
    OBVIOUS
  <2>2. 1..0 = {}
    OBVIOUS
  <2>3. f = [i \in 1..0 |-> IF i = 1 THEN q[i] ELSE f[i - 1] \o q[i]]
    BY <2>1, <2>2
  <2> QED
    BY <2>3 DEF FlattensTo
<1>2. ASSUME NEW k \in Nat, k \in S
      PROVE  k + 1 \in S
  <2>1. PICK f : FlattensTo(f, q, k)
    BY <1>2
  <2>2. PICK e : e = IF k + 1 = 1 THEN q[k + 1] ELSE f[k] \o q[k + 1]
    OBVIOUS
  <2>3. PICK g : g = [i \in 1..(k + 1) |-> IF i = k + 1 THEN e ELSE f[i]]
    OBVIOUS
  <2>4. \A i \in 1..k : f[i] = IF i = 1 THEN q[i] ELSE f[i - 1] \o q[i]
    BY <2>1 DEF FlattensTo
  <2>5. ASSUME NEW i \in 1..(k + 1)
        PROVE  g[i] = IF i = 1 THEN q[i] ELSE g[i - 1] \o q[i]
    <3>1. i # 1 => g[i - 1] = f[i - 1]
      BY <2>3
    <3>2. CASE i = k + 1
      BY <2>2, <2>3, <3>1, <3>2
    <3>3. CASE i # k + 1
      <4>1. i \in 1..k /\ g[i] = f[i]
        BY <2>3, <3>3
      <4> QED
        BY <2>4, <3>1, <4>1
    <3> QED
      BY <3>2, <3>3
  <2>6. g = [i \in 1..(k + 1) |-> g[i]]
    BY <2>3
  <2>7. g = [i \in 1..(k + 1) |-> IF i = 1 THEN q[i] ELSE g[i - 1] \o q[i]]
    BY <2>5, <2>6
  <2>8. FlattensTo(g, q, k + 1)
    BY <2>7 DEF FlattensTo
  <2> QED
    BY <2>8
<1>3. Nat \subseteq S
  <2> HIDE DEF S
  <2> QED
    BY <1>1, <1>2, InductionOnNat
<1> QED
  BY <1>3

LEMMA FlattenIs ==
  ASSUME NEW q \in Seq(Seq(Int)), NEW n \in Nat \ {0}, Len(q) = n
  PROVE  \E f : /\ FlattenSeq(q) = f[n]
                /\ f[1] = q[1]
                /\ \A i \in 1..n : i # 1 => f[i] = f[i - 1] \o q[i]
<1>1. PICK f : f = CHOOSE g : FlattensTo(g, q, n)
  OBVIOUS
<1>2. FlattensTo(f, q, n)
  BY <1>1, FlatteningExists
<1>3. FlattenSeq(q) = f[n]
  BY <1>1 DEF FlattenSeq, FlattensTo
<1>4. \A i \in 1..n : f[i] = IF i = 1 THEN q[i] ELSE f[i - 1] \o q[i]
  BY <1>2 DEF FlattensTo
<1>5. 1 \in 1..n
  OBVIOUS
<1> QED
  BY <1>3, <1>4, <1>5

LEMMA FlattenNone ==
  ASSUME NEW q \in Seq(Seq(Int)), Len(q) = 0
  PROVE  FlattenSeq(q) \in Seq(Int) /\ Len(FlattenSeq(q)) = 0
<1>1. FlattenSeq(q) = q
  BY DEF FlattenSeq
<1>2. q = << >>
  OBVIOUS
<1> QED
  BY <1>1, <1>2

LEMMA FlattenTyped ==
  ASSUME NEW q \in Seq(Seq(Int))
  PROVE  FlattenSeq(q) \in Seq(Int)
<1>1. PICK n \in Nat : n = Len(q)
  OBVIOUS
<1>2. CASE n = 0
  BY <1>1, <1>2, FlattenNone
<1>3. CASE n # 0
  <2>1. PICK f : /\ FlattenSeq(q) = f[n]
                 /\ f[1] = q[1]
                 /\ \A i \in 1..n : i # 1 => f[i] = f[i - 1] \o q[i]
    <3>1. n \in Nat \ {0} /\ Len(q) = n
      BY <1>1, <1>3
    <3> QED
      BY <3>1, FlattenIs, Zenon
  <2>2. \A i \in 1..n : q[i] \in Seq(Int)
    BY <1>1
  <2> DEFINE S == {k \in Nat : k \in 1..n => f[k] \in Seq(Int)}
  <2>3. 0 \in S
    OBVIOUS
  <2>4. ASSUME NEW k \in Nat, k \in S
        PROVE  k + 1 \in S
    <3>1. CASE k = 0
      BY <2>1, <2>2, <3>1
    <3>2. CASE k # 0 /\ k + 1 \in 1..n
      <4>1. k \in 1..n /\ k + 1 # 1 /\ (k + 1) - 1 = k
        BY <3>2
      <4>2. f[k + 1] = f[k] \o q[k + 1]
        BY <2>1, <3>2, <4>1
      <4>3. f[k] \in Seq(Int) /\ q[k + 1] \in Seq(Int)
        BY <2>2, <2>4, <3>2, <4>1
      <4>4. f[k] \o q[k + 1] \in Seq(Int)
        BY <4>3
      <4>5. f[k + 1] \in Seq(Int)
        BY <4>2, <4>4, Zenon
      <4>6. k + 1 \in Nat
        OBVIOUS
      <4> QED
        BY <4>5, <4>6, Zenon
    <3>3. CASE k + 1 \notin 1..n
      BY <3>3
    <3> QED
      BY <3>1, <3>2, <3>3
  <2>5. Nat \subseteq S
    <3> HIDE DEF S
    <3> QED
      BY <2>3, <2>4, InductionOnNat
  <2>6. n \in 1..n
    BY <1>3
  <2>7. f[n] \in Seq(Int)
    BY <2>5, <2>6
  <2> QED
    BY <2>1, <2>7
<1> QED
  BY <1>2, <1>3

(* Sequences that list disjoint sets: together they list the union.        *)
Disjoint(F, n) == \A i, j \in 1..n : i # j => F[i] \cap F[j] = {}
ListsEach(q, F, n) == \A i \in 1..n : Lists(q[i], F[i])

Joined(F, n) == UNION {F[i] : i \in 1..n}

LEMMA FlattenLists ==
  ASSUME NEW q \in Seq(Seq(Int)), NEW n \in Nat, Len(q) = n, NEW F,
         ListsEach(q, F, n), Disjoint(F, n)
  PROVE  Lists(FlattenSeq(q), Joined(F, n))
<1>1. CASE n = 0
  <2>1. Joined(F, n) = {}
    <3>1. 1..n = {}
      BY <1>1
    <3> QED
      BY <3>1 DEF Joined
  <2> QED
    BY <1>1, <2>1, FlattenNone, ListsNone
<1>2. CASE n # 0
  <2>1. PICK f : /\ FlattenSeq(q) = f[n]
                 /\ f[1] = q[1]
                 /\ \A i \in 1..n : i # 1 => f[i] = f[i - 1] \o q[i]
    <3>1. n \in Nat \ {0}
      BY <1>2
    <3> QED
      BY <3>1, FlattenIs, Zenon
  <2> DEFINE S == {k \in Nat : k \in 1..n => Lists(f[k], Joined(F, k))}
  <2>2. 0 \in S
    OBVIOUS
  <2>3. ASSUME NEW k \in Nat, k \in S
        PROVE  k + 1 \in S
    <3>1. CASE k = 0
      <4>1. 1..1 = {1} /\ 1 \in 1..n
        BY <1>2
      <4>2. Joined(F, 1) = F[1]
        BY <4>1 DEF Joined
      <4>3. Lists(f[1], F[1])
        BY <2>1, <4>1 DEF ListsEach
      <4>4. k + 1 = 1
        BY <3>1
      <4> QED
        BY <4>2, <4>3, <4>4
    <3>2. CASE k # 0 /\ k + 1 \in 1..n
      <4>1. k \in 1..n /\ k + 1 # 1 /\ (k + 1) - 1 = k
        BY <3>2
      <4>2. f[k + 1] = f[k] \o q[k + 1]
        BY <2>1, <3>2, <4>1
      <4>3. Lists(f[k], Joined(F, k))
        BY <2>3, <4>1
      <4>4. Lists(q[k + 1], F[k + 1])
        BY <3>2 DEF ListsEach
      <4>5. Joined(F, k) \cap F[k + 1] = {}
        <5>1. ASSUME NEW i \in 1..k
              PROVE  F[i] \cap F[k + 1] = {}
          BY <3>2 DEF Disjoint
        <5> QED
          BY <5>1 DEF Joined
      <4>6. Joined(F, k + 1) = Joined(F, k) \union F[k + 1]
        <5>1. 1..(k + 1) = (1..k) \union {k + 1}
          OBVIOUS
        <5> QED
          BY <5>1 DEF Joined
      <4>7. Lists(f[k] \o q[k + 1], Joined(F, k) \union F[k + 1])
        BY <4>3, <4>4, <4>5, ListsConcat
      <4>8. Lists(f[k + 1], Joined(F, k + 1))
        BY <4>2, <4>6, <4>7
      <4> QED
        BY <4>8
    <3>3. CASE k + 1 \notin 1..n
      BY <3>3
    <3> QED
      BY <3>1, <3>2, <3>3
  <2>4. Nat \subseteq S
    <3> HIDE DEF S
    <3> QED
      BY <2>2, <2>3, InductionOnNat
  <2>5. n \in 1..n
    BY <1>2
  <2>6. Lists(f[n], Joined(F, n))
    BY <2>4, <2>5
  <2> QED
    BY <2>1, <2>6
<1> QED
  BY <1>1, <1>2
-----------------------------------------------------------------------------
(* Pixels of a region by column of the image and row of the region.  Read  *)
(* maps no two of them to the same index: rows do not overlap.             *)
Coords(r)   == (r.x..(r.x + r.width - 1)) \X (0..(r.height - 1))
Image(r, C) == {Read(r, c[1], c[2]) : c \in C}

LEMMA RegionFacts ==
  ASSUME NEW r \in Region
  PROVE  /\ r.x \in Nat /\ r.y \in Nat
         /\ r.width \in Nat \ {0} /\ r.height \in Nat \ {0}
         /\ r.x + r.width <= Width
         /\ Width \in Nat \ {0} /\ Stride \in Nat \ {0} /\ Width <= Stride
         /\ PPT \in Nat \ {0} /\ BlockDim \in Nat \ {0}
BY RegionsAreParts, SizesArePositive, RowsDoNotOverlap

LEMMA RowsApart ==
  ASSUME NEW s \in Nat \ {0}, NEW a \in 0..(s - 1), NEW c \in 0..(s - 1),
         NEW b \in Nat, NEW d \in Nat, a + b * s = c + d * s
  PROVE  a = c /\ b = d
<1>1. ASSUME NEW k \in Nat, NEW l \in Nat, k < l
      PROVE  k * s + s <= l * s
  <2>1. PICK e \in Nat : l = k + 1 + e
    <3>1. l - k - 1 \in Nat /\ l = k + 1 + (l - k - 1)
      BY <1>1
    <3> QED
      BY <3>1
  <2>2. e * s \in Nat
    OBVIOUS
  <2>3. l * s = k * s + s + e * s
    BY <2>1
  <2> QED
    BY <2>2, <2>3
<1>2. b * s \in Nat /\ d * s \in Nat
  OBVIOUS
<1>3. ~(b < d)
  <2>1. SUFFICES ASSUME b < d PROVE FALSE
    OBVIOUS
  <2>2. b * s + s <= d * s
    BY <1>1, <2>1
  <2> QED
    BY <1>2, <2>2
<1>4. ~(d < b)
  <2>1. SUFFICES ASSUME d < b PROVE FALSE
    OBVIOUS
  <2>2. d * s + s <= b * s
    BY <1>1, <2>1
  <2> QED
    BY <1>2, <2>2
<1>5. b = d
  BY <1>3, <1>4
<1> QED
  BY <1>2, <1>5

LEMMA ReadIsInt ==
  ASSUME NEW r \in Region, NEW x \in Int, NEW y \in Int
  PROVE  Read(r, x, y) \in Int
<1>1. r.y \in Int /\ Stride \in Int
  BY RegionFacts
<1>2. (y + r.y) * Stride \in Int
  BY <1>1
<1> QED
  BY <1>2 DEF Read

LEMMA ReadInjective ==
  ASSUME NEW r \in Region, NEW c \in Coords(r), NEW d \in Coords(r),
         Read(r, c[1], c[2]) = Read(r, d[1], d[2])
  PROVE  c = d
<1>1. PICK x \in Nat, y \in Nat, s \in Nat \ {0} : x = r.x /\ y = r.y /\ s = Stride
  BY RegionFacts
<1>2. /\ c[1] \in 0..(s - 1) /\ c[2] + y \in Nat /\ c[2] \in Nat /\ c = <<c[1], c[2]>>
      /\ d[1] \in 0..(s - 1) /\ d[2] + y \in Nat /\ d[2] \in Nat /\ d = <<d[1], d[2]>>
  BY <1>1, RegionFacts DEF Coords
<1>3. c[1] + (c[2] + y) * s = d[1] + (d[2] + y) * s
  BY <1>1 DEF Read
<1>4. c[1] = d[1] /\ c[2] + y = d[2] + y
  BY <1>2, <1>3, RowsApart
<1> QED
  BY <1>2, <1>4

LEMMA ImagesDisjoint ==
  ASSUME NEW r \in Region, NEW C \in SUBSET Coords(r), NEW D \in SUBSET Coords(r),
         C \cap D = {}
  PROVE  Image(r, C) \cap Image(r, D) = {}
BY ReadInjective DEF Image

(* A value that was computed from pixels C of the region, each once.       *)
Covers(s, r, C) == C \subseteq Coords(r) /\ Lists(s, Image(r, C))

CoversEach(q, r, C, n) == \A i \in 1..n : Covers(q[i], r, C[i])

LEMMA CoversNone ==
  ASSUME NEW r, NEW s \in Seq(Int), Len(s) = 0
  PROVE  Covers(s, r, {})
<1>1. Image(r, {}) = {}
  BY DEF Image
<1> QED
  BY <1>1, ListsNone DEF Covers

LEMMA CoversConcat ==
  ASSUME NEW r \in Region, NEW s, NEW t, NEW C, NEW D,
         Covers(s, r, C), Covers(t, r, D), C \cap D = {}
  PROVE  Covers(s \o t, r, C \union D)
<1>1. C \in SUBSET Coords(r) /\ D \in SUBSET Coords(r)
  BY DEF Covers
<1>2. Image(r, C) \cap Image(r, D) = {}
  BY <1>1, ImagesDisjoint
<1>3. Lists(s \o t, Image(r, C) \union Image(r, D))
  BY <1>2, ListsConcat DEF Covers
<1>4. Image(r, C) \union Image(r, D) = Image(r, C \union D)
  BY DEF Image
<1> QED
  BY <1>1, <1>3, <1>4 DEF Covers

LEMMA FlattenCovers ==
  ASSUME NEW r \in Region, NEW q \in Seq(Seq(Int)), NEW n \in Nat, Len(q) = n,
         NEW C, CoversEach(q, r, C, n), Disjoint(C, n)
  PROVE  Covers(FlattenSeq(q), r, Joined(C, n))
<1>1. PICK F : F = [i \in 1..n |-> Image(r, C[i])]
  OBVIOUS
<1>2. ListsEach(q, F, n)
  BY <1>1 DEF ListsEach, CoversEach, Covers
<1>3. Disjoint(F, n)
  <2>1. SUFFICES ASSUME NEW i \in 1..n, NEW j \in 1..n, i # j
                 PROVE  F[i] \cap F[j] = {}
    BY DEF Disjoint
  <2>2. C[i] \in SUBSET Coords(r) /\ C[j] \in SUBSET Coords(r) /\ C[i] \cap C[j] = {}
    BY <2>1 DEF CoversEach, Covers, Disjoint
  <2>3. Image(r, C[i]) \cap Image(r, C[j]) = {}
    BY <2>2, ImagesDisjoint
  <2> QED
    BY <1>1, <2>3
<1>4. Lists(FlattenSeq(q), Joined(F, n))
  BY <1>2, <1>3, FlattenLists, Zenon
<1>5. Joined(F, n) = Image(r, Joined(C, n))
  <2>1. ASSUME NEW i \in 1..n, NEW e \in F[i]
        PROVE  e \in Image(r, Joined(C, n))
    <3>1. PICK c \in C[i] : e = Read(r, c[1], c[2])
      BY <1>1, <2>1 DEF Image
    <3>2. c \in Joined(C, n)
      BY DEF Joined
    <3> QED
      BY <3>1, <3>2 DEF Image
  <2>2. ASSUME NEW c \in Joined(C, n)
        PROVE  Read(r, c[1], c[2]) \in Joined(F, n)
    <3>1. PICK i \in 1..n : c \in C[i]
      BY DEF Joined
    <3>2. Read(r, c[1], c[2]) \in F[i]
      BY <1>1, <3>1 DEF Image
    <3> QED
      BY <3>2 DEF Joined
  <2>3. ASSUME NEW e \in Image(r, Joined(C, n))
        PROVE  e \in Joined(F, n)
    BY <2>2, <2>3 DEF Image
  <2> QED
    BY <2>1, <2>3 DEF Joined
<1>6. Joined(C, n) \subseteq Coords(r)
  BY DEF CoversEach, Covers, Joined
<1> QED
  BY <1>4, <1>5, <1>6 DEF Covers

-----------------------------------------------------------------------------
(* What a thread starts with and adds: the pixels of the region in its two *)
(* columns and PPT rows.                                                   *)
Cell(r, x, y)        == {c \in Coords(r) : c[1] = x /\ c[2] = y}
RowCells(r, x, y)    == {c \in Coords(r) : c[1] \in {x, x + BlockDim} /\ c[2] = y}
ThreadCells(r, x, y) == {c \in Coords(r) : /\ c[1] \in {x, x + BlockDim}
                                           /\ c[2] \in y..(y + PPT - 1)}

One(r, x, y) == IF Inside(r, x) THEN <<Read(r, x, y)>> ELSE << >>

LEMMA OneCovers ==
  ASSUME NEW r \in Region, NEW x \in Nat, NEW y \in 0..(r.height - 1)
  PROVE  Covers(One(r, x, y), r, Cell(r, x, y))
<1>1. Cell(r, x, y) \subseteq Coords(r)
  BY DEF Cell
<1>2. PICK e \in Int : e = Read(r, x, y)
  <2>1. y \in Int
    BY RegionFacts
  <2> QED
    BY <2>1, ReadIsInt
<1>3. CASE Inside(r, x)
  <2>1. Cell(r, x, y) = {<<x, y>>}
    BY <1>3 DEF Cell, Coords, Inside
  <2>2. Image(r, {<<x, y>>}) = {e}
    BY <1>2 DEF Image
  <2>3. Lists(<<e>>, {e})
    BY <1>2, ListsOne
  <2>4. One(r, x, y) = <<e>>
    BY <1>2, <1>3 DEF One
  <2> QED
    BY <1>1, <2>1, <2>2, <2>3, <2>4 DEF Covers
<1>4. CASE ~Inside(r, x)
  <2>1. Cell(r, x, y) = {}
    BY <1>4 DEF Cell, Coords, Inside
  <2>2. One(r, x, y) = << >>
    BY <1>4 DEF One
  <2>3. << >> \in Seq(Int) /\ Len(<< >>) = 0
    OBVIOUS
  <2>4. Covers(<< >>, r, {})
    BY <2>3, CoversNone
  <2> QED
    BY <2>1, <2>2, <2>4
<1> QED
  BY <1>3, <1>4

LEMMA PairCovers ==
  ASSUME NEW r \in Region, NEW x \in Nat, NEW y \in 0..(r.height - 1)
  PROVE  Covers(One(r, x, y) \o One(r, x + BlockDim, y), r, RowCells(r, x, y))
<1>1. BlockDim \in Nat \ {0} /\ x + BlockDim \in Nat /\ x + BlockDim # x
  BY RegionFacts
<1>2. Covers(One(r, x, y), r, Cell(r, x, y))
  BY OneCovers
<1>3. Covers(One(r, x + BlockDim, y), r, Cell(r, x + BlockDim, y))
  BY <1>1, OneCovers
<1>4. Cell(r, x, y) \cap Cell(r, x + BlockDim, y) = {}
  BY <1>1 DEF Cell
<1>5. RowCells(r, x, y) = Cell(r, x, y) \union Cell(r, x + BlockDim, y)
  BY DEF RowCells, Cell
<1> QED
  BY <1>2, <1>3, <1>4, <1>5, CoversConcat

LEMMA NextRowCovers ==
  ASSUME NEW r \in Region, NEW x \in Nat, NEW y \in Nat
  PROVE  Covers(NextRow(r, x, y), r, RowCells(r, x, y))
<1>1. r.height \in Nat \ {0}
  BY RegionFacts
<1>2. CASE y >= r.height
  <2>1. RowCells(r, x, y) = {}
    BY <1>1, <1>2 DEF RowCells, Coords
  <2>2. NextRow(r, x, y) = << >>
    BY <1>2 DEF NextRow
  <2>3. << >> \in Seq(Int) /\ Len(<< >>) = 0
    OBVIOUS
  <2> QED
    BY <2>1, <2>2, <2>3, CoversNone
<1>3. CASE ~(y >= r.height)
  <2>1. y \in 0..(r.height - 1)
    BY <1>1, <1>3
  <2>2. NextRow(r, x, y) = One(r, x, y) \o One(r, x + BlockDim, y)
    BY <1>3, Zenon DEF NextRow, One
  <2> QED
    BY <2>1, <2>2, PairCovers
<1> QED
  BY <1>2, <1>3

LEMMA FirstRowCovers ==
  ASSUME NEW r \in Region, NEW x \in Nat, NEW y \in 0..(r.height - 1),
         Inside(r, x) \/ Inside(r, x + BlockDim)
  PROVE  Covers(FirstRow(r, x, y), r, RowCells(r, x, y))
<1>1. y \in Int /\ BlockDim \in Int
  BY RegionFacts
<1>2. PICK a \in Int, b \in Int : a = Read(r, x, y) /\ b = Read(r, x + BlockDim, y)
  BY <1>1, ReadIsInt
<1>3. FirstRow(r, x, y) = One(r, x, y) \o One(r, x + BlockDim, y)
  <2>1. /\ <<a>> \o <<b>> = <<a, b>>
        /\ <<a>> \o << >> = <<a>>
        /\ << >> \o <<b>> = <<b>>
    <3>1. PICK s : s = <<a>>
      OBVIOUS
    <3>2. PICK t : t = <<b>>
      OBVIOUS
    <3>3. /\ s \in Seq(Int) /\ Len(s) = 1 /\ s[1] = a
          /\ t \in Seq(Int) /\ Len(t) = 1 /\ t[1] = b
      BY <3>1, <3>2
    <3>4. PICK u : u = s \o t
      OBVIOUS
    <3>5. u \in Seq(Int)
      BY <3>3, <3>4
    <3>6. Len(u) = 2 /\ u[1] = a /\ u[2] = b
      <4>1. /\ Len(u) = Len(s) + Len(t)
            /\ \A i \in 1..(Len(s) + Len(t)) :
                 u[i] = IF i <= Len(s) THEN s[i] ELSE t[i - Len(s)]
        BY <3>3, <3>4, ConcatProperties, Zenon
      <4>2. /\ Len(u) = 1 + 1
            /\ \A i \in 1..(1 + 1) : u[i] = IF i <= 1 THEN s[i] ELSE t[i - 1]
        BY <3>3, <4>1, Zenon
      <4> QED
        BY <3>3, <4>2
    <3>7. u = <<a, b>>
      <4>1. PICK v : v = <<a, b>>
        OBVIOUS
      <4>2. v \in Seq(Int) /\ Len(v) = 2 /\ v[1] = a /\ v[2] = b
        BY <4>1
      <4>3. Len(u) = Len(v) /\ \A i \in 1..Len(u) : u[i] = v[i]
        BY <3>6, <4>2
      <4>4. u = v
        BY <3>5, <4>2, <4>3, SeqEqual, Zenon
      <4> QED
        BY <4>1, <4>4
    <3>8. s \o << >> = s /\ << >> \o t = t
      BY <3>3, ConcatEmptySeq
    <3> QED
      BY <3>1, <3>2, <3>4, <3>7, <3>8, Zenon
  <2>2. CASE Inside(r, x) /\ Inside(r, x + BlockDim)
    BY <1>2, <2>1, <2>2 DEF FirstRow, One
  <2>3. CASE Inside(r, x) /\ ~Inside(r, x + BlockDim)
    BY <1>2, <2>1, <2>3 DEF FirstRow, One
  <2>4. CASE ~Inside(r, x)
    BY <1>2, <2>1, <2>4 DEF FirstRow, One
  <2> QED
    BY <2>2, <2>3, <2>4
<1> QED
  BY <1>3, PairCovers

LEMMA ThreadCovers ==
  ASSUME NEW r \in Region, NEW x \in Nat, NEW y \in 0..(r.height - 1),
         Inside(r, x) \/ Inside(r, x + BlockDim)
  PROVE  Covers(FirstRow(r, x, y)
                  \o FlattenSeq([j \in 1..(PPT - 1) |-> NextRow(r, x, y + j)]),
                r, ThreadCells(r, x, y))
<1>1. PICK n \in Nat, p \in Nat : n = PPT - 1 /\ p = PPT /\ n = p - 1
  BY RegionFacts
<1>2. y \in Nat
  BY RegionFacts
<1>3. PICK q : q = [j \in 1..n |-> NextRow(r, x, y + j)]
  OBVIOUS
<1>4. PICK C : C = [j \in 1..n |-> RowCells(r, x, y + j)]
  OBVIOUS
<1>5. ASSUME NEW j \in 1..n
      PROVE  Covers(NextRow(r, x, y + j), r, RowCells(r, x, y + j))
  BY <1>2, NextRowCovers
<1>6. \A j \in 1..n : NextRow(r, x, y + j) \in Seq(Int)
  BY <1>5 DEF Covers, Lists
<1>7. q \in Seq(Seq(Int)) /\ Len(q) = n
  BY <1>3, <1>6
<1>8. CoversEach(q, r, C, n)
  BY <1>3, <1>4, <1>5 DEF CoversEach
<1>9. Disjoint(C, n)
  <2>1. SUFFICES ASSUME NEW i \in 1..n, NEW j \in 1..n, i # j
                 PROVE  C[i] \cap C[j] = {}
    BY DEF Disjoint
  <2>2. y + i # y + j
    BY <1>2, <2>1
  <2> QED
    BY <1>4, <2>2 DEF RowCells
<1>10. Covers(FlattenSeq(q), r, Joined(C, n))
  BY <1>7, <1>8, <1>9, FlattenCovers
<1>11. Covers(FirstRow(r, x, y), r, RowCells(r, x, y))
  BY FirstRowCovers
<1>12. RowCells(r, x, y) \cap Joined(C, n) = {}
  <2>1. ASSUME NEW i \in 1..n
        PROVE  RowCells(r, x, y) \cap C[i] = {}
    <3>1. y + i # y
      BY <1>2
    <3> QED
      BY <1>4, <3>1 DEF RowCells
  <2> QED
    BY <2>1 DEF Joined
<1>13. RowCells(r, x, y) \union Joined(C, n) = ThreadCells(r, x, y)
  <2>1. ASSUME NEW c \in ThreadCells(r, x, y)
        PROVE  c \in RowCells(r, x, y) \union Joined(C, n)
    <3>1. /\ c \in Coords(r) /\ c[1] \in {x, x + BlockDim}
          /\ c[2] \in y..(y + p - 1)
      BY <1>1 DEF ThreadCells
    <3>2. CASE c[2] = y
      BY <3>1, <3>2 DEF RowCells
    <3>3. CASE c[2] # y
      <4>1. PICK j \in 1..n : c[2] = y + j
        <5>1. c[2] - y \in 1..n /\ c[2] = y + (c[2] - y)
          BY <1>1, <1>2, <3>1, <3>3
        <5> QED
          BY <5>1
      <4>2. c \in C[j]
        BY <1>4, <3>1, <4>1 DEF RowCells
      <4> QED
        BY <4>2 DEF Joined
    <3> QED
      BY <3>2, <3>3
  <2>2. ASSUME NEW c \in RowCells(r, x, y)
        PROVE  c \in ThreadCells(r, x, y)
    <3>1. PPT = p /\ y \in y..(y + p - 1)
      BY <1>1, <1>2
    <3> QED
      BY <3>1 DEF RowCells, ThreadCells
  <2>3. ASSUME NEW i \in 1..n, NEW c \in C[i]
        PROVE  c \in ThreadCells(r, x, y)
    <3>1. PPT = p /\ y + i \in y..(y + p - 1)
      BY <1>1, <1>2
    <3>2. c \in RowCells(r, x, y + i)
      BY <1>4
    <3> QED
      BY <3>1, <3>2 DEF RowCells, ThreadCells
  <2>4. ASSUME NEW c \in Joined(C, n)
        PROVE  c \in ThreadCells(r, x, y)
    BY <2>3 DEF Joined
  <2> QED
    BY <2>1, <2>2, <2>4
<1>14. Covers(FirstRow(r, x, y) \o FlattenSeq(q), r, ThreadCells(r, x, y))
  BY <1>10, <1>11, <1>12, <1>13, CoversConcat
<1> QED
  BY <1>1, <1>3, <1>14

-----------------------------------------------------------------------------
(* A block reduces the pixels of the region in its 2*BlockDim columns and  *)
(* PPT rows.  The blocks of the grid cover the region.                     *)
Left(r, b) == 2 * BlockDim * (b % GridX(r)) + IdleLeft(r)
Top(r, b)  == PPT * (b \div GridX(r))

BlockCells(r, b) == {c \in Coords(r) : /\ c[1] - Left(r, b) \in 0..(2 * BlockDim - 1)
                                       /\ c[2] - Top(r, b) \in 0..(PPT - 1)}

(* The part of EveryThreadStarts about the columns.                        *)
ColumnsStart(r) ==
  /\ r.width >= BlockDim
  /\ r.x + r.width >= IdleLeft(r) + 2 * BlockDim * (GridX(r) - 1) + BlockDim

LEMMA CeilBounds ==
  ASSUME NEW a \in Nat \ {0}, NEW b \in Nat \ {0}
  PROVE  /\ b * Ceil(a, b) >= a
         /\ b * (Ceil(a, b) - 1) < a
<1>1. PICK q \in Nat, e \in Nat : a + b - 1 = b * q + e /\ e < b /\ Ceil(a, b) = q
  BY SMT DEF Ceil
<1>2. b * (q - 1) = b * q - b
  OBVIOUS
<1> QED
  BY <1>1, <1>2

LEMMA IdleBounds ==
  ASSUME NEW r \in Region
  PROVE  /\ IdleLeft(r) \in Nat /\ IdleLeft(r) <= r.x /\ r.x < IdleLeft(r) + BlockDim
         /\ IdleRight(r) \in Nat /\ r.x + r.width + IdleRight(r) <= Width
<1>1. PICK x \in Nat, w \in Nat \ {0}, d \in Nat \ {0}, t \in Nat :
        /\ x = r.x /\ w = r.width /\ d = BlockDim
        /\ Width = x + w + t
  <2>1. Width - r.x - r.width \in Nat
    BY RegionFacts
  <2>2. Width = r.x + r.width + (Width - r.x - r.width)
    BY RegionFacts
  <2> QED
    BY <2>1, <2>2, RegionFacts
<1>2. (x \div d) * d \in Nat /\ (x \div d) * d <= x /\ x < (x \div d) * d + d
  BY SMT
<1>3. (t \div d) * d \in Nat /\ (t \div d) * d <= t
  BY WholeBlocks
<1>4. Width - r.x - r.width = t
  BY <1>1
<1>5. ~IsCropped(r) => x = 0
  BY <1>1, OriginMeansWhole, RegionsAreParts DEF IsCropped
<1>6. CASE IsCropped(r)
  <2>1. IdleLeft(r) = (x \div d) * d /\ IdleRight(r) = (t \div d) * d
    BY <1>1, <1>4, <1>6 DEF IdleLeft, IdleRight
  <2> HIDE DEF IdleLeft, IdleRight
  <2> QED
    BY <1>1, <1>2, <1>3, <2>1
<1>7. CASE ~IsCropped(r)
  <2>1. IdleLeft(r) = 0 /\ IdleRight(r) = 0
    BY <1>7 DEF IdleLeft, IdleRight
  <2> QED
    BY <1>1, <1>5, <1>7, <2>1
<1> QED
  BY <1>6, <1>7

LEMMA GridBounds ==
  ASSUME NEW r \in Region
  PROVE  /\ GridX(r) \in Nat \ {0} /\ GridY(r) \in Nat \ {0}
         /\ r.x + r.width <= IdleLeft(r) + 2 * BlockDim * GridX(r)
         /\ r.height <= PPT * GridY(r)
         /\ PPT * (GridY(r) - 1) < r.height
<1>1. Width - IdleLeft(r) - IdleRight(r) \in Nat \ {0}
  BY IdleBounds, RegionFacts
<1>2. 2 * BlockDim \in Nat \ {0}
  BY RegionFacts
<1>3. GridX(r) \in Nat \ {0}
  BY <1>1, <1>2, CeilPositive DEF GridX
<1>4. GridY(r) \in Nat \ {0}
  BY RegionFacts, CeilPositive DEF GridY
<1>5. (2 * BlockDim) * GridX(r) >= Width - IdleLeft(r) - IdleRight(r)
  BY <1>1, <1>2, CeilBounds DEF GridX
<1>6. PPT * GridY(r) >= r.height /\ PPT * (GridY(r) - 1) < r.height
  BY RegionFacts, CeilBounds DEF GridY
<1>7. 2 * BlockDim * GridX(r) \in Nat
  BY <1>2, <1>3
<1>8. r.height <= PPT * GridY(r)
  <2>1. PPT * GridY(r) \in Nat
    BY <1>4, RegionFacts
  <2> QED
    BY <1>6, <2>1, RegionFacts
<1>9. r.x + r.width <= IdleLeft(r) + 2 * BlockDim * GridX(r)
  <2>1. PICK z \in Nat : z = 2 * BlockDim * GridX(r)
    BY <1>7
  <2>2. z >= Width - IdleLeft(r) - IdleRight(r)
    BY <1>5, <2>1
  <2> HIDE DEF IdleLeft, IdleRight
  <2> QED
    BY <2>1, <2>2, IdleBounds, RegionFacts
<1> QED
  BY <1>3, <1>4, <1>6, <1>8, <1>9

(* A block in the grid, by column and row.                                 *)
LEMMA BlockPlace ==
  ASSUME NEW r \in Region, NEW b \in 0..(GridSize(r) - 1)
  PROVE  /\ b \in Nat
         /\ b % GridX(r) \in 0..(GridX(r) - 1)
         /\ b \div GridX(r) \in 0..(GridY(r) - 1)
         /\ b = GridX(r) * (b \div GridX(r)) + (b % GridX(r))
<1>1. PICK g \in Nat \ {0}, h \in Nat \ {0} : g = GridX(r) /\ h = GridY(r)
  BY GridBounds
<1>2. g * h \in Nat \ {0}
  OBVIOUS
<1>3. b \in Nat /\ b < g * h
  BY <1>1, <1>2 DEF GridSize
<1>4. PICK q \in Nat, e \in Nat : q = b \div g /\ e = b % g /\ b = g * q + e /\ e < g
  BY <1>3, SMT
<1>5. q < h
  <2>1. SUFFICES ASSUME q >= h PROVE FALSE
    BY <1>4
  <2>2. PICK k \in Nat : q = h + k
    <3>1. q - h \in Nat /\ q = h + (q - h)
      BY <2>1
    <3> QED
      BY <3>1
  <2>3. g * q = g * h + g * k /\ g * k \in Nat
    BY <2>2
  <2> QED
    BY <1>2, <1>3, <1>4, <2>3
<1>6. /\ b \in Nat
      /\ b % g \in 0..(g - 1)
      /\ b \div g \in 0..(h - 1)
      /\ b = g * (b \div g) + (b % g)
  <2>1. e \in 0..(g - 1) /\ q \in 0..(h - 1)
    BY <1>4, <1>5
  <2> QED
    BY <1>3, <1>4, <2>1, Zenon
<1> QED
  BY <1>1, <1>6, Zenon

LEMMA Multiples ==
  ASSUME NEW d \in Nat \ {0}, NEW q \in Nat, NEW g \in Nat \ {0}, q < g
  PROVE  /\ d * q \in Nat
         /\ q = 0 => d * q = 0
         /\ q # 0 => d * q >= d
         /\ q = g - 1 \/ d * q + d <= d * (g - 1)
         /\ d * q <= d * (g - 1)
<1>1. d * q \in Nat
  OBVIOUS
<1>2. ASSUME q # 0
      PROVE  d * q >= d
  <2>1. PICK k \in Nat : q = k + 1
    <3>1. q - 1 \in Nat /\ q = (q - 1) + 1
      BY <1>2
    <3> QED
      BY <3>1
  <2>2. d * q = d * k + d /\ d * k \in Nat
    BY <2>1
  <2> QED
    BY <2>2
<1>3. ASSUME q # g - 1
      PROVE  d * q + d <= d * (g - 1)
  <2>1. PICK k \in Nat : g - 1 = q + 1 + k
    <3>1. g - 2 - q \in Nat /\ g - 1 = q + 1 + (g - 2 - q)
      BY <1>3
    <3> QED
      BY <3>1
  <2>2. d * (q + 1 + k) = d * q + d + d * k /\ d * k \in Nat
    OBVIOUS
  <2> QED
    BY <1>1, <2>1, <2>2
<1>4. d * q <= d * (g - 1)
  <2>1. CASE q = g - 1
    BY <1>1, <2>1
  <2>2. CASE q # g - 1
    <3>1. d * (g - 1) \in Nat
      OBVIOUS
    <3> QED
      BY <1>1, <1>3, <2>2, <3>1
  <2> QED
    BY <2>1, <2>2
<1>5. q = 0 => d * q = 0
  OBVIOUS
<1> QED
  BY <1>1, <1>2, <1>3, <1>4, <1>5

LEMMA ThreadStarts ==
  ASSUME NEW r \in Region, ColumnsStart(r), NEW q \in 0..(GridX(r) - 1),
         NEW t \in 0..(BlockDim - 1), NEW x \in Nat,
         x = 2 * BlockDim * q + IdleLeft(r) + t
  PROVE  Inside(r, x) \/ Inside(r, x + BlockDim)
<1>1. PICK d \in Nat \ {0}, g \in Nat \ {0}, l \in Nat, s \in Nat, w \in Nat :
        /\ d = BlockDim /\ g = GridX(r) /\ l = IdleLeft(r) /\ s = r.x /\ w = r.width
  BY RegionFacts, GridBounds, IdleBounds
<1>2. q \in Nat /\ q < g /\ 2 * d \in Nat \ {0}
  BY <1>1
<1>3. /\ (2 * d) * q \in Nat
      /\ q = 0 => (2 * d) * q = 0
      /\ q # 0 => (2 * d) * q >= 2 * d
      /\ q = g - 1 \/ (2 * d) * q + 2 * d <= (2 * d) * (g - 1)
  BY <1>2, Multiples
<1>4. PICK p \in Nat, z \in Nat :
        /\ p = 2 * d * q /\ z = 2 * d * (g - 1)
        /\ p = 0 \/ p >= 2 * d
        /\ p = z \/ p + 2 * d <= z
  <2>1. 2 * d * (g - 1) \in Nat
    OBVIOUS
  <2> QED
    BY <1>3, <2>1
<1>5. /\ l <= s /\ s < l + d
      /\ w >= d
      /\ s + w >= l + z + d
      /\ t \in 0..(d - 1)
      /\ x = p + l + t
  BY <1>1, <1>4, IdleBounds DEF ColumnsStart
<1>6. x \in s..(s + w - 1) \/ x + d \in s..(s + w - 1)
  <2>1. CASE p + 2 * d <= z
    BY <1>5, <2>1
  <2>2. CASE p = z /\ p >= 2 * d
    BY <1>5, <2>2
  <2>3. CASE p = z /\ p = 0
    BY <1>5, <2>3
  <2> QED
    BY <1>4, <2>1, <2>2, <2>3
<1> QED
  BY <1>1, <1>6 DEF Inside

LEMMA CornerFacts ==
  ASSUME NEW r \in Region, NEW b \in 0..(GridSize(r) - 1)
  PROVE  Left(r, b) \in Nat /\ Top(r, b) \in 0..(r.height - 1)
<1>1. PICK d \in Nat \ {0}, p \in Nat \ {0}, h \in Nat \ {0}, l \in Nat,
           q \in Nat, k \in Nat :
        /\ d = BlockDim /\ p = PPT /\ h = GridY(r) /\ l = IdleLeft(r)
        /\ q = b % GridX(r) /\ k = b \div GridX(r) /\ k < h
  <2>1. /\ BlockDim \in Nat \ {0} /\ PPT \in Nat \ {0} /\ GridY(r) \in Nat \ {0}
        /\ GridX(r) \in Nat \ {0} /\ IdleLeft(r) \in Nat
    BY RegionFacts, GridBounds, IdleBounds
  <2>2. /\ b % GridX(r) \in 0..(GridX(r) - 1)
        /\ b \div GridX(r) \in 0..(GridY(r) - 1)
    BY BlockPlace
  <2>3. /\ b % GridX(r) \in Nat
        /\ b \div GridX(r) \in Nat /\ b \div GridX(r) < GridY(r)
    BY <2>1, <2>2
  <2> QED
    BY <2>1, <2>3, Zenon
<1>2. 2 * d * q \in Nat
  OBVIOUS
<1>3. p * k \in Nat /\ p * k <= p * (h - 1)
  BY <1>1, Multiples
<1>4. p * (h - 1) \in Nat /\ p * (h - 1) < r.height /\ r.height \in Nat
  BY <1>1, GridBounds, RegionFacts
<1>5. p * k \in 0..(r.height - 1)
  BY <1>3, <1>4
<1> QED
  BY <1>1, <1>2, <1>5 DEF Left, Top

LEMMA PartialCovers ==
  ASSUME NEW r \in Region, ColumnsStart(r), NEW b \in 0..(GridSize(r) - 1)
  PROVE  Covers(Partial(r, b), r, BlockCells(r, b))
<1>1. PICK n \in Nat \ {0} : n = BlockDim
  BY RegionFacts
<1>2. PICK x \in Nat, y \in 0..(r.height - 1) : x = Left(r, b) /\ y = Top(r, b)
  BY CornerFacts
<1>3. PICK q : q = [t \in 1..n |-> ThreadValue(r, b, t - 1)]
  OBVIOUS
<1>4. PICK C : C = [t \in 1..n |-> ThreadCells(r, x + (t - 1), y)]
  OBVIOUS
<1>5. ASSUME NEW t \in 1..n
      PROVE  Covers(ThreadValue(r, b, t - 1), r, ThreadCells(r, x + (t - 1), y))
  <2>1. PICK u : u = x + (t - 1)
    OBVIOUS
  <2>2. u \in Nat /\ t - 1 \in 0..(BlockDim - 1)
    BY <1>1, <2>1
  <2>3. u = 2 * BlockDim * (b % GridX(r)) + IdleLeft(r) + (t - 1)
    BY <1>2, <2>1 DEF Left
  <2>4. Inside(r, u) \/ Inside(r, u + BlockDim)
    BY <2>2, <2>3, BlockPlace, ThreadStarts
  <2>5. Covers(FirstRow(r, u, y)
                 \o FlattenSeq([j \in 1..(PPT - 1) |-> NextRow(r, u, y + j)]),
               r, ThreadCells(r, u, y))
    BY <2>2, <2>4, ThreadCovers
  <2>6. 2 * BlockDim * (b % GridX(r)) + (t - 1) + IdleLeft(r) = u
    <3>1. PICK l \in Nat, m \in Nat : l = IdleLeft(r) /\ m = b % GridX(r)
      BY IdleBounds, BlockPlace, GridBounds
    <3>2. 2 * BlockDim * m \in Nat
      BY <1>1
    <3> QED
      BY <2>3, <3>1, <3>2
  <2>7. ThreadValue(r, b, t - 1)
          = FirstRow(r, u, y)
              \o FlattenSeq([j \in 1..(PPT - 1) |-> NextRow(r, u, y + j)])
    <3>1. PPT * (b \div GridX(r)) = y
      BY <1>2 DEF Top
    <3> QED
      BY <2>6, <3>1, Zenon DEF ThreadValue
  <2> QED
    BY <2>1, <2>5, <2>7
<1>6. q \in Seq(Seq(Int)) /\ Len(q) = n
  <2>1. \A t \in 1..n : ThreadValue(r, b, t - 1) \in Seq(Int)
    BY <1>5 DEF Covers, Lists
  <2> QED
    BY <1>3, <2>1
<1>7. CoversEach(q, r, C, n)
  BY <1>3, <1>4, <1>5 DEF CoversEach
<1>8. Disjoint(C, n)
  <2>1. SUFFICES ASSUME NEW i \in 1..n, NEW j \in 1..n, i # j
                 PROVE  C[i] \cap C[j] = {}
    BY DEF Disjoint
  <2>2. {x + (i - 1), x + (i - 1) + n} \cap {x + (j - 1), x + (j - 1) + n} = {}
    BY <2>1
  <2>3. /\ \A c \in C[i] : c[1] \in {x + (i - 1), x + (i - 1) + n}
        /\ \A c \in C[j] : c[1] \in {x + (j - 1), x + (j - 1) + n}
    BY <1>1, <1>4 DEF ThreadCells
  <2> QED
    BY <2>2, <2>3
<1>9. Covers(FlattenSeq(q), r, Joined(C, n))
  BY <1>6, <1>7, <1>8, FlattenCovers
<1>10. Joined(C, n) = BlockCells(r, b)
  <2>1. PICK p \in Nat \ {0} : p = PPT
    BY RegionFacts
  <2>2. ASSUME NEW c \in Coords(r)
        PROVE  /\ c[1] \in Nat /\ c[2] \in Nat
               /\ c[2] \in y..(y + p - 1) <=> c[2] - y \in 0..(p - 1)
    BY RegionFacts DEF Coords
  <2>3. ASSUME NEW i \in 1..n, NEW c \in C[i]
        PROVE  c \in BlockCells(r, b)
    <3>1. /\ c \in Coords(r) /\ c[1] \in {x + (i - 1), x + (i - 1) + n}
          /\ c[2] \in y..(y + p - 1)
      BY <1>1, <1>4, <2>1 DEF ThreadCells
    <3>2. c[1] - x \in 0..(2 * n - 1)
      BY <2>2, <3>1
    <3> QED
      BY <1>1, <1>2, <2>1, <2>2, <3>1, <3>2 DEF BlockCells
  <2>4. ASSUME NEW c \in BlockCells(r, b)
        PROVE  \E i \in 1..n : c \in C[i]
    <3>1. /\ c \in Coords(r) /\ c[1] - x \in 0..(2 * n - 1)
          /\ c[2] \in y..(y + p - 1)
      BY <1>1, <1>2, <2>1, <2>2 DEF BlockCells
    <3>2. c[1] \in Nat
      BY <2>2, <3>1
    <3>3. PICK i \in 1..n : c[1] \in {x + (i - 1), x + (i - 1) + n}
      <4>1. CASE c[1] - x < n
        <5>1. c[1] - x + 1 \in 1..n /\ c[1] = x + ((c[1] - x + 1) - 1)
          BY <3>1, <3>2, <4>1
        <5> QED
          BY <5>1
      <4>2. CASE c[1] - x >= n
        <5>1. /\ c[1] - x - n + 1 \in 1..n
              /\ c[1] = x + ((c[1] - x - n + 1) - 1) + n
          BY <3>1, <3>2, <4>2
        <5> QED
          BY <5>1
      <4> QED
        BY <3>1, <3>2, <4>1, <4>2
    <3> QED
      BY <1>1, <1>4, <2>1, <3>1, <3>3 DEF ThreadCells
  <2> QED
    BY <2>3, <2>4 DEF Joined
<1>11. Partial(r, b) = FlattenSeq(q)
  BY <1>1, <1>3 DEF Partial
<1> QED
  BY <1>9, <1>10, <1>11

LEMMA BlocksDisjoint ==
  ASSUME NEW r \in Region, NEW a \in 0..(GridSize(r) - 1), NEW b \in 0..(GridSize(r) - 1),
         a # b
  PROVE  BlockCells(r, a) \cap BlockCells(r, b) = {}
<1>1. SUFFICES ASSUME NEW c \in BlockCells(r, a), c \in BlockCells(r, b)
               PROVE  FALSE
  OBVIOUS
<1>2. PICK s \in Nat \ {0}, p \in Nat \ {0}, g \in Nat \ {0}, l \in Nat :
        s = 2 * BlockDim /\ p = PPT /\ g = GridX(r) /\ l = IdleLeft(r)
  <2>1. 2 * BlockDim \in Nat \ {0}
    BY RegionFacts
  <2> QED
    BY <2>1, RegionFacts, GridBounds, IdleBounds, Zenon
<1>3. PICK q \in Nat, k \in Nat : q = a % g /\ k = a \div g /\ a = g * k + q
  <2>1. a % g \in Nat /\ a \div g \in Nat /\ a = g * (a \div g) + (a % g)
    <3>1. a % g \in 0..(g - 1) /\ a \div g \in 0..(GridY(r) - 1)
      BY <1>2, BlockPlace, Zenon
    <3>2. GridY(r) \in Nat
      BY GridBounds
    <3>3. a = g * (a \div g) + (a % g)
      BY <1>2, BlockPlace, Zenon
    <3> QED
      BY <3>1, <3>2, <3>3
  <2> QED
    BY <2>1, Zenon
<1>4. PICK u \in Nat, v \in Nat : u = b % g /\ v = b \div g /\ b = g * v + u
  <2>1. b % g \in Nat /\ b \div g \in Nat /\ b = g * (b \div g) + (b % g)
    <3>1. b % g \in 0..(g - 1) /\ b \div g \in 0..(GridY(r) - 1)
      BY <1>2, BlockPlace, Zenon
    <3>2. GridY(r) \in Nat
      BY GridBounds
    <3>3. b = g * (b \div g) + (b % g)
      BY <1>2, BlockPlace, Zenon
    <3> QED
      BY <3>1, <3>2, <3>3
  <2> QED
    BY <2>1, Zenon
<1>5. /\ Left(r, a) = s * q + l /\ Top(r, a) = p * k
      /\ Left(r, b) = s * u + l /\ Top(r, b) = p * v
  BY <1>2, <1>3, <1>4, Zenon DEF Left, Top
<1>6. /\ s * q \in Nat /\ p * k \in Nat /\ s * u \in Nat /\ p * v \in Nat
      /\ s * q = q * s /\ p * k = k * p /\ s * u = u * s /\ p * v = v * p
  OBVIOUS
<1>7. PICK x \in Nat, y \in Nat : x = c[1] /\ y = c[2]
  BY <1>1, RegionFacts DEF BlockCells, Coords
<1>8. /\ x - (s * q + l) \in 0..(s - 1) /\ y - p * k \in 0..(p - 1)
      /\ x - (s * u + l) \in 0..(s - 1) /\ y - p * v \in 0..(p - 1)
  BY <1>1, <1>2, <1>5, <1>7, Zenon DEF BlockCells
<1>9. q = u
  <2>1. (x - (s * q + l)) + q * s = (x - (s * u + l)) + u * s
    BY <1>6
  <2> QED
    BY <1>8, <2>1, RowsApart
<1>10. k = v
  <2>1. (y - p * k) + k * p = (y - p * v) + v * p
    BY <1>6
  <2> QED
    BY <1>8, <2>1, RowsApart
<1> QED
  BY <1>3, <1>4, <1>9, <1>10

(* Division with remainder, of a number below a multiple of the divisor.   *)
LEMMA Divided ==
  ASSUME NEW d \in Nat \ {0}, NEW g \in Nat, NEW a \in Nat, a < d * g
  PROVE  /\ a \div d \in 0..(g - 1) /\ a % d \in 0..(d - 1)
         /\ a = d * (a \div d) + (a % d)
<1>1. PICK q \in Nat, e \in Nat : q = a \div d /\ e = a % d /\ a = d * q + e /\ e < d
  BY SMT
<1>2. q < g
  <2>1. SUFFICES ASSUME q >= g PROVE FALSE
    OBVIOUS
  <2>2. PICK k \in Nat : q = g + k
    <3>1. q - g \in Nat /\ q = g + (q - g)
      BY <2>1
    <3> QED
      BY <3>1
  <2>3. d * q = d * g + d * k /\ d * k \in Nat /\ d * g \in Nat
    BY <2>2
  <2> QED
    BY <1>1, <2>3
<1>3. q \in 0..(g - 1) /\ e \in 0..(d - 1)
  BY <1>1, <1>2
<1> QED
  BY <1>1, <1>3, Zenon

LEMMA QuotientIs ==
  ASSUME NEW g \in Nat \ {0}, NEW k \in Nat, NEW q \in 0..(g - 1)
  PROVE  (g * k + q) % g = q /\ (g * k + q) \div g = k
<1>1. PICK b \in Nat : b = g * k + q
  <2>1. g * k \in Nat
    OBVIOUS
  <2> QED
    BY <2>1
<1>2. PICK v \in Nat, u \in Nat : v = b \div g /\ u = b % g /\ b = g * v + u /\ u < g
  BY SMT
<1>3. u + v * g = q + k * g
  BY <1>1, <1>2
<1>4. u \in 0..(g - 1)
  BY <1>2
<1>5. u = q /\ v = k
  BY <1>3, <1>4, RowsApart
<1> QED
  BY <1>1, <1>2, <1>5, Zenon

LEMMA BlocksCover ==
  ASSUME NEW r \in Region, NEW c \in Coords(r)
  PROVE  \E b \in 0..(GridSize(r) - 1) : c \in BlockCells(r, b)
<1>1. PICK s \in Nat \ {0}, p \in Nat \ {0}, g \in Nat \ {0}, h \in Nat \ {0}, l \in Nat :
        /\ s = 2 * BlockDim /\ p = PPT /\ g = GridX(r) /\ h = GridY(r) /\ l = IdleLeft(r)
  <2>1. 2 * BlockDim \in Nat \ {0}
    BY RegionFacts
  <2> QED
    BY <2>1, RegionFacts, GridBounds, IdleBounds, Zenon
<1>2. PICK x \in Nat, y \in Nat : /\ x = c[1] /\ y = c[2]
                                 /\ x - l \in Nat /\ x - l < s * g /\ y < p * h
  <2>1. /\ c[1] \in r.x..(r.x + r.width - 1) /\ c[2] \in 0..(r.height - 1)
    BY DEF Coords
  <2>2. s * g \in Nat /\ p * h \in Nat
    OBVIOUS
  <2>3. r.x + r.width <= l + s * g
    BY <1>1, GridBounds
  <2>4. r.height <= p * h
    BY <1>1, GridBounds
  <2>5. l <= r.x
    BY <1>1, IdleBounds
  <2>6. /\ c[1] \in Nat /\ c[2] \in Nat
        /\ c[1] - l \in Nat /\ c[1] - l < s * g /\ c[2] < p * h
    BY <2>1, <2>2, <2>3, <2>4, <2>5, RegionFacts
  <2> QED
    BY <2>6, Zenon
<1>3. PICK q \in 0..(g - 1), e \in 0..(s - 1) : x - l = s * q + e
  <2>1. g \in Nat
    OBVIOUS
  <2>2. /\ (x - l) \div s \in 0..(g - 1) /\ (x - l) % s \in 0..(s - 1)
        /\ x - l = s * ((x - l) \div s) + ((x - l) % s)
    BY <1>2, <2>1, Divided, Zenon
  <2> QED
    BY <2>2, Zenon
<1>4. PICK k \in 0..(h - 1), f \in 0..(p - 1) : y = p * k + f
  <2>1. h \in Nat
    OBVIOUS
  <2>2. /\ y \div p \in 0..(h - 1) /\ y % p \in 0..(p - 1)
        /\ y = p * (y \div p) + (y % p)
    BY <1>2, <2>1, Divided, Zenon
  <2> QED
    BY <2>2, Zenon
<1>5. q \in Nat /\ k \in Nat /\ k < h
  OBVIOUS
<1>6. PICK b \in Nat : b = g * k + q
  <2>1. g * k \in Nat
    BY <1>5
  <2> QED
    BY <1>5, <2>1
<1>7. b \in 0..(GridSize(r) - 1)
  <2>1. g * k <= g * (h - 1) /\ g * k \in Nat
    BY <1>5, Multiples
  <2>2. g * (h - 1) = g * h - g /\ g * h \in Nat
    OBVIOUS
  <2>3. b <= g * h - 1
    BY <1>6, <2>1, <2>2
  <2>4. GridSize(r) = g * h
    BY <1>1 DEF GridSize
  <2> QED
    BY <2>2, <2>3, <2>4
<1>8. b % g = q /\ b \div g = k
  BY <1>5, <1>6, QuotientIs
<1>9. Left(r, b) = s * q + l /\ Top(r, b) = p * k
  BY <1>1, <1>8, Zenon DEF Left, Top
<1>10. x - (s * q + l) = e /\ y - p * k = f
  <2>1. s * q \in Nat /\ p * k \in Nat
    BY <1>5
  <2> QED
    BY <1>2, <1>3, <1>4, <2>1
<1>11. c[1] - Left(r, b) \in 0..(s - 1) /\ c[2] - Top(r, b) \in 0..(p - 1)
  BY <1>2, <1>9, <1>10, Zenon
<1>12. c \in BlockCells(r, b)
  BY <1>1, <1>11, Zenon DEF BlockCells
<1> QED
  BY <1>7, <1>12

-----------------------------------------------------------------------------
(* Gathering partial results: thread t reduces every n-th from t - 1 on.   *)
FurtherOf(mem, m, i) == IF i < m THEN mem[i] ELSE << >>
ChainOf(mem, m, n, t) == [j \in 1..(m \div n) |-> FurtherOf(mem, m, t - 1 + j * n)]
StrandOf(mem, m, n, t) ==
  (IF t - 1 < m THEN mem[t - 1] ELSE Junk) \o FlattenSeq(ChainOf(mem, m, n, t))

LEMMA GatherIs ==
  ASSUME NEW mem, NEW m, NEW n
  PROVE  Gather(mem, m, n) = FlattenSeq([t \in 1..n |-> StrandOf(mem, m, n, t)])
BY Zenon DEF Gather, StrandOf, ChainOf, FurtherOf

(* Partial results 0..m-1, each computed from its own pixels P.            *)
Shares(mem, r, P, m) ==
  /\ \A i \in 0..(m - 1) : Covers(mem[i], r, P[i])
  /\ \A i, j \in 0..(m - 1) : i # j => P[i] \cap P[j] = {}

StrandCells(P, m, n, t) ==
  UNION {P[i] : i \in {i \in 0..(m - 1) : \E j \in Nat : i = t - 1 + j * n}}

LEMMA SequenceOf ==
  ASSUME NEW S, NEW k \in Nat, NEW q, q = [j \in 1..k |-> q[j]],
         \A j \in 1..k : q[j] \in S
  PROVE  q \in Seq(S) /\ Len(q) = k
  OBVIOUS

LEMMA StrandCovers ==
  ASSUME NEW r \in Region, NEW mem, NEW P, NEW m \in Nat, NEW n \in Nat \ {0}, n <= m,
         Shares(mem, r, P, m), NEW t \in 1..n
  PROVE  Covers(StrandOf(mem, m, n, t), r, StrandCells(P, m, n, t))
<1>1. PICK k \in Nat : k = m \div n /\ \A j \in Nat : j * n < m => j <= k
  <2>1. PICK q \in Nat, e \in Nat : q = m \div n /\ m = n * q + e /\ e < n
    BY SMT
  <2>2. ASSUME NEW j \in Nat, j * n < m
        PROVE  j <= q
    <3>1. SUFFICES ASSUME j > q PROVE FALSE
      OBVIOUS
    <3>2. PICK i \in Nat : j = q + 1 + i
      <4>1. j - q - 1 \in Nat /\ j = q + 1 + (j - q - 1)
        BY <3>1
      <4> QED
        BY <4>1
    <3>3. j * n = n * q + n + i * n /\ i * n \in Nat /\ n * q \in Nat
      BY <3>2
    <3> QED
      BY <2>1, <2>2, <3>3
  <2> QED
    BY <2>1, <2>2
<1> DEFINE At(j) == t - 1 + j * n
<1>2. ASSUME NEW j \in Nat
      PROVE  At(j) \in Nat /\ (j # 0 => At(j) >= n) /\ At(0) = t - 1
  <2>1. j * n \in Nat /\ 0 * n = 0
    OBVIOUS
  <2>2. j # 0 => j * n >= n
    <3>1. SUFFICES ASSUME j # 0 PROVE j * n >= n
      OBVIOUS
    <3>2. n * j >= n
      BY <3>1, Multiples
    <3> QED
      BY <3>2
  <2> QED
    BY <2>1, <2>2
<1>3. ASSUME NEW i \in Nat, NEW j \in Nat, At(i) = At(j)
      PROVE  i = j
  <2>1. t - 1 \in 0..(n - 1)
    OBVIOUS
  <2> QED
    BY <1>3, <2>1, RowsApart
<1>4. PICK q : q = ChainOf(mem, m, n, t)
  OBVIOUS
<1>5. PICK C : C = [j \in 1..k |-> IF At(j) < m THEN P[At(j)] ELSE {}]
  OBVIOUS
<1>6. \A j \in 1..k : q[j] = IF At(j) < m THEN mem[At(j)] ELSE << >>
  BY <1>1, <1>4 DEF ChainOf, FurtherOf
<1>7. ASSUME NEW j \in 1..k
      PROVE  Covers(q[j], r, C[j])
  <2>1. CASE At(j) < m
    <3>1. At(j) \in 0..(m - 1)
      BY <1>2, <2>1
    <3>2. q[j] = mem[At(j)] /\ C[j] = P[At(j)]
      BY <1>5, <1>6, <2>1
    <3> HIDE DEF At
    <3> QED
      BY <3>1, <3>2 DEF Shares
  <2>2. CASE ~(At(j) < m)
    <3>1. q[j] = << >> /\ C[j] = {}
      BY <1>5, <1>6, <2>2
    <3>2. << >> \in Seq(Int) /\ Len(<< >>) = 0
      OBVIOUS
    <3>3. Covers(<< >>, r, {})
      BY <3>2, CoversNone
    <3> HIDE DEF At
    <3> QED
      BY <3>1, <3>3
  <2> QED
    BY <2>1, <2>2
<1>8. q \in Seq(Seq(Int)) /\ Len(q) = k
  <2>1. \A j \in 1..k : q[j] \in Seq(Int)
    BY <1>7 DEF Covers, Lists
  <2>2. q = [j \in 1..k |-> q[j]]
    BY <1>1, <1>4 DEF ChainOf
  <2> HIDE DEF At
  <2> QED
    BY <1>1, <2>1, <2>2, SequenceOf
<1>9. CoversEach(q, r, C, k)
  BY <1>7 DEF CoversEach
<1>10. Disjoint(C, k)
  <2>1. SUFFICES ASSUME NEW i \in 1..k, NEW j \in 1..k, i # j, At(i) < m, At(j) < m
                 PROVE  P[At(i)] \cap P[At(j)] = {}
    BY <1>5 DEF Disjoint
  <2>2. At(i) # At(j)
    BY <1>3, <2>1
  <2>3. At(i) \in 0..(m - 1) /\ At(j) \in 0..(m - 1)
    BY <1>2, <2>1
  <2> HIDE DEF At
  <2> QED
    BY <2>2, <2>3 DEF Shares
<1>11. Covers(FlattenSeq(q), r, Joined(C, k))
  BY <1>8, <1>9, <1>10, FlattenCovers
<1>12. t - 1 \in 0..(m - 1) /\ t - 1 < m /\ t - 1 < n
  OBVIOUS
<1>13. Covers(mem[t - 1], r, P[t - 1])
  BY <1>12 DEF Shares
<1>14. P[t - 1] \cap Joined(C, k) = {}
  <2>1. ASSUME NEW j \in 1..k, At(j) < m
        PROVE  P[t - 1] \cap P[At(j)] = {}
    <3>1. At(j) # t - 1 /\ At(j) \in 0..(m - 1)
      BY <1>2, <1>12, <2>1
    <3> HIDE DEF At
    <3> QED
      BY <1>12, <3>1 DEF Shares
  <2>2. ASSUME NEW j \in 1..k
        PROVE  P[t - 1] \cap C[j] = {}
    BY <1>5, <2>1
  <2> QED
    BY <2>2 DEF Joined
<1>15. P[t - 1] \union Joined(C, k) = StrandCells(P, m, n, t)
  <2> DEFINE I == {i \in 0..(m - 1) : \E j \in Nat : i = At(j)}
  <2>1. StrandCells(P, m, n, t) = UNION {P[i] : i \in I}
    BY DEF StrandCells
  <2>2. t - 1 \in I
    <3>1. t - 1 = At(0) /\ 0 \in Nat
      OBVIOUS
    <3> QED
      BY <1>12, <3>1
  <2>3. ASSUME NEW j \in 1..k, At(j) < m
        PROVE  At(j) \in I
    BY <1>2, <2>3
  <2>4. ASSUME NEW i \in I
        PROVE  i = t - 1 \/ \E j \in 1..k : i = At(j) /\ At(j) < m
    <3>1. PICK j \in Nat : i = At(j) /\ At(j) < m
      OBVIOUS
    <3>2. j * n < m
      <4>1. j * n \in Nat /\ t - 1 \in Nat
        OBVIOUS
      <4> QED
        BY <3>1, <4>1
    <3>3. j <= k
      BY <1>1, <3>2
    <3>4. j = 0 => i = t - 1
      BY <3>1
    <3> QED
      BY <3>1, <3>3, <3>4
  <2> HIDE DEF I, At
  <2>5. \A j \in 1..k : C[j] = IF At(j) < m THEN P[At(j)] ELSE {}
    BY <1>5
  <2> QED
    BY <2>1, <2>2, <2>3, <2>4, <2>5 DEF Joined
<1>16. StrandOf(mem, m, n, t) = mem[t - 1] \o FlattenSeq(q)
  BY <1>4, <1>12, Zenon DEF StrandOf
<1> QED
  BY <1>11, <1>13, <1>14, <1>15, <1>16, CoversConcat

LEMMA GatherCovers ==
  ASSUME NEW r \in Region, NEW mem, NEW P, NEW m \in Nat, NEW n \in Nat \ {0}, n <= m,
         Shares(mem, r, P, m)
  PROVE  Covers(Gather(mem, m, n), r, UNION {P[i] : i \in 0..(m - 1)})
<1>1. PICK q : q = [t \in 1..n |-> StrandOf(mem, m, n, t)]
  OBVIOUS
<1>2. PICK C : C = [t \in 1..n |-> StrandCells(P, m, n, t)]
  OBVIOUS
<1>3. \A t \in 1..n : Covers(StrandOf(mem, m, n, t), r, StrandCells(P, m, n, t))
  BY StrandCovers
<1>4. q \in Seq(Seq(Int)) /\ Len(q) = n
  <2>1. \A t \in 1..n : StrandOf(mem, m, n, t) \in Seq(Int)
    BY <1>3 DEF Covers, Lists
  <2> QED
    BY <1>1, <2>1
<1>5. CoversEach(q, r, C, n)
  BY <1>1, <1>2, <1>3 DEF CoversEach
<1>6. Disjoint(C, n)
  <2>1. SUFFICES ASSUME NEW t \in 1..n, NEW u \in 1..n, t # u
                 PROVE  C[t] \cap C[u] = {}
    BY DEF Disjoint
  <2>2. ASSUME NEW i \in 0..(m - 1), NEW j \in 0..(m - 1),
               NEW a \in Nat, NEW b \in Nat,
               i = t - 1 + a * n, j = u - 1 + b * n
        PROVE  P[i] \cap P[j] = {}
    <3>1. t - 1 \in 0..(n - 1) /\ u - 1 \in 0..(n - 1) /\ t - 1 # u - 1
      BY <2>1
    <3>2. i # j
      BY <2>2, <3>1, RowsApart
    <3> QED
      BY <3>2 DEF Shares
  <2>3. C[t] = StrandCells(P, m, n, t) /\ C[u] = StrandCells(P, m, n, u)
    BY <1>2
  <2>4. ASSUME NEW c \in C[t], c \in C[u]
        PROVE  FALSE
    <3>1. PICK i \in 0..(m - 1), a \in Nat : i = t - 1 + a * n /\ c \in P[i]
      BY <2>3 DEF StrandCells
    <3>2. PICK j \in 0..(m - 1), b \in Nat : j = u - 1 + b * n /\ c \in P[j]
      <4>1. c \in StrandCells(P, m, n, u)
        BY <2>3, <2>4
      <4> QED
        BY <4>1 DEF StrandCells
    <3> QED
      BY <2>2, <3>1, <3>2
  <2> QED
    BY <2>4
<1>7. Covers(FlattenSeq(q), r, Joined(C, n))
  BY <1>4, <1>5, <1>6, FlattenCovers
<1>8. Joined(C, n) = UNION {P[i] : i \in 0..(m - 1)}
  <2>1. ASSUME NEW i \in 0..(m - 1)
        PROVE  \E t \in 1..n : \E j \in Nat : i = t - 1 + j * n
    <3>1. PICK j \in Nat, e \in Nat :
            j = i \div n /\ e = i % n /\ i = n * j + e /\ e < n
      <4>1. i \in Nat
        OBVIOUS
      <4> QED
        BY <4>1, SMT
    <3>2. e + 1 \in 1..n /\ i = (e + 1) - 1 + j * n
      BY <3>1
    <3> QED
      BY <3>2
  <2>2. ASSUME NEW i \in 0..(m - 1)
        PROVE  P[i] \subseteq Joined(C, n)
    <3>1. PICK t \in 1..n : \E j \in Nat : i = t - 1 + j * n
      BY <2>1
    <3>2. P[i] \subseteq C[t]
      BY <1>2, <3>1 DEF StrandCells
    <3> QED
      BY <3>2 DEF Joined
  <2>3. \A t \in 1..n : C[t] \subseteq UNION {P[i] : i \in 0..(m - 1)}
    BY <1>2 DEF StrandCells
  <2> QED
    BY <2>2, <2>3 DEF Joined
<1> QED
  BY <1>1, <1>7, <1>8, GatherIs

-----------------------------------------------------------------------------
(* The threads that gather: a power of two.                                *)
LEMMA LeastOf ==
  ASSUME NEW T \in SUBSET Nat, T # {}
  PROVE  \E p \in T : \A q \in T : p <= q
<1> DEFINE R == {ss \in Nat \X Nat : ss[1] < ss[2]}
<1>1. IsWellFoundedOn(R, Nat)
  BY NatLessThanWellFounded DEF OpToRel
<1>2. PICK p \in T : \A q \in T : <<q, p>> \notin R
  <2> HIDE DEF R
  <2> QED
    BY <1>1, WFMin
<1>3. ASSUME NEW q \in T
      PROVE  p <= q
  <2>1. <<q, p>> \notin R /\ p \in Nat /\ q \in Nat
    BY <1>2
  <2> QED
    BY <2>1
<1> QED
  BY <1>3

LEMMA NextPow2Positive ==
  ASSUME NEW x \in Nat, x <= 1024
  PROVE  NextPow2(x) \in Nat \ {0}
<1>1. PICK w \in Nat \ {0} : w = WarpSize /\ w <= 1024
  <2>1. WarpSize \in PowersOfTwo /\ WarpSize \in Nat \ {0}
    BY SizesArePositive
  <2> QED
    BY <2>1 DEF PowersOfTwo
<1>2. PICK T : T = {p \in PowersOfTwo : p >= x /\ p >= w}
  OBVIOUS
<1>3. T \in SUBSET Nat /\ T # {}
  <2>1. PowersOfTwo \subseteq Nat
    BY DEF PowersOfTwo
  <2>2. 1024 \in PowersOfTwo
    BY DEF PowersOfTwo
  <2>3. 1024 >= x /\ 1024 >= w
    BY <1>1
  <2>4. 1024 \in T
    BY <1>2, <2>2, <2>3
  <2>5. T \subseteq PowersOfTwo
    BY <1>2
  <2> QED
    BY <2>1, <2>4, <2>5
<1>4. PICK p \in T : \A q \in T : p <= q
  BY <1>3, LeastOf
<1>5. /\ p \in PowersOfTwo /\ p >= x /\ p >= w
      /\ \A q \in PowersOfTwo : q >= x /\ q >= w => p <= q
  BY <1>2, <1>4
<1>6. PICK n : /\ n = NextPow2(x)
               /\ n \in PowersOfTwo /\ n >= x /\ n >= w
  BY <1>1, <1>5 DEF NextPow2
<1>7. n \in Nat
  BY <1>6 DEF PowersOfTwo
<1> QED
  BY <1>1, <1>6, <1>7

LEMMA SecondBlockDimPositive ==
  ASSUME NEW m \in Nat
  PROVE  SecondBlockDim(m) \in Nat \ {0}
<1>1. PICK d \in Nat \ {0} : d = BlockDim /\ d <= 1024
  <2>1. BlockDim \in PowersOfTwo /\ BlockDim \in Nat \ {0}
    BY SizesArePositive
  <2> QED
    BY <2>1 DEF PowersOfTwo
<1>2. CASE m < d
  <2>1. (m + 1) \div 2 \in Nat /\ (m + 1) \div 2 <= 1024
    BY <1>1, <1>2
  <2>2. NextPow2((m + 1) \div 2) \in Nat \ {0}
    BY <2>1, NextPow2Positive
  <2> QED
    BY <1>1, <1>2, <2>2 DEF SecondBlockDim
<1>3. CASE ~(m < d)
  BY <1>1, <1>3 DEF SecondBlockDim
<1> QED
  BY <1>2, <1>3

(* The rest of EveryThreadStarts: as many partial results as threads.      *)
GatherStarts(t, r) ==
  IF t = "fence" THEN GridSize(r) = 1 \/ GridSize(r) >= BlockDim
  ELSE GridSize(r) >= SecondBlockDim(GridSize(r))

LEMMA PartialsShare ==
  ASSUME NEW r \in Region, ColumnsStart(r)
  PROVE  Shares(Partials(r), r, [b \in 0..(GridSize(r) - 1) |-> BlockCells(r, b)],
                GridSize(r))
<1>1. \A b \in 0..(GridSize(r) - 1) : Covers(Partial(r, b), r, BlockCells(r, b))
  BY PartialCovers
<1>2. \A a, b \in 0..(GridSize(r) - 1) : a # b => BlockCells(r, a) \cap BlockCells(r, b) = {}
  BY BlocksDisjoint
<1> QED
  BY <1>1, <1>2 DEF Shares, Partials

LEMMA ExpectedCovers ==
  ASSUME NEW r \in Region, ColumnsStart(r), NEW t \in {"fence", "steps"},
         GatherStarts(t, r)
  PROVE  Covers(Expected(t, r), r, Coords(r))
<1>1. PICK m \in Nat \ {0} : m = GridSize(r)
  BY GridPositive
<1>2. PICK mem : mem = Partials(r)
  OBVIOUS
<1>3. PICK P : P = [b \in 0..(m - 1) |-> BlockCells(r, b)]
  OBVIOUS
<1>4. Shares(mem, r, P, m)
  BY <1>1, <1>2, <1>3, PartialsShare
<1>5. UNION {P[i] : i \in 0..(m - 1)} = Coords(r)
  <2>1. \A i \in 0..(m - 1) : P[i] = BlockCells(r, i)
    BY <1>3
  <2>2. \A i \in 0..(m - 1) : P[i] \subseteq Coords(r)
    BY <2>1 DEF BlockCells
  <2>3. \A c \in Coords(r) : \E i \in 0..(m - 1) : c \in P[i]
    BY <1>1, <2>1, BlocksCover
  <2> QED
    BY <2>2, <2>3
<1>6. ASSUME NEW n \in Nat \ {0}, n <= m
      PROVE  Covers(Gather(mem, m, n), r, Coords(r))
  <2>1. Covers(Gather(mem, m, n), r, UNION {P[i] : i \in 0..(m - 1)})
    BY <1>4, <1>6, GatherCovers
  <2> QED
    BY <1>5, <2>1
<1>7. CASE t = "steps"
  <2>1. PICK n \in Nat \ {0} : n = SecondBlockDim(m)
    BY SecondBlockDimPositive
  <2>2. n <= m
    BY <1>1, <1>7, <2>1 DEF GatherStarts
  <2>3. Expected(t, r) = Gather(mem, m, n)
    BY <1>1, <1>2, <1>7, <2>1, Zenon DEF Expected
  <2> QED
    BY <1>6, <2>2, <2>3
<1>8. CASE t = "fence" /\ m = 1
  <2>1. 0..(m - 1) = {0}
    BY <1>8
  <2>2. P[0] = Coords(r)
    BY <1>5, <2>1
  <2>3. Covers(mem[0], r, P[0])
    BY <1>4, <2>1 DEF Shares
  <2>4. Expected(t, r) = mem[0]
    BY <1>1, <1>2, <1>8 DEF Expected
  <2> QED
    BY <2>2, <2>3, <2>4
<1>9. CASE t = "fence" /\ m # 1
  <2>1. PICK n \in Nat \ {0} : n = BlockDim
    BY RegionFacts
  <2>2. n <= m
    BY <1>1, <1>9, <2>1 DEF GatherStarts
  <2>3. Expected(t, r) = Gather(mem, m, n)
    BY <1>1, <1>2, <1>9, <2>1 DEF Expected
  <2> QED
    BY <1>6, <2>2, <2>3
<1> QED
  BY <1>7, <1>8, <1>9

LEMMA CoordsArePixels ==
  ASSUME region \in Region
  PROVE  Image(region, Coords(region)) = Pixels
<1>1. PICK y \in Nat, h \in Nat \ {0} : y = region.y /\ h = region.height
  BY RegionFacts
<1>2. PICK X : X = region.x..(region.x + region.width - 1)
  OBVIOUS
<1>3. Coords(region) = X \X (0..(h - 1))
  BY <1>1, <1>2, Zenon DEF Coords
<1>4. Pixels = {x + v * Stride : x \in X, v \in y..(y + h - 1)}
  BY <1>1, <1>2 DEF Pixels
<1>5. ASSUME NEW x \in X, NEW u \in 0..(h - 1)
      PROVE  u + y \in y..(y + h - 1) /\ Read(region, x, u) = x + (u + y) * Stride
  BY <1>1 DEF Read
<1>6. ASSUME NEW v \in y..(y + h - 1)
      PROVE  v - y \in 0..(h - 1) /\ (v - y) + y = v
  OBVIOUS
<1>7. ASSUME NEW e \in Image(region, Coords(region))
      PROVE  e \in Pixels
  <2>1. PICK c \in Coords(region) : e = Read(region, c[1], c[2])
    BY DEF Image
  <2>2. c[1] \in X /\ c[2] \in 0..(h - 1)
    BY <1>3, <2>1
  <2> QED
    BY <1>4, <1>5, <2>1, <2>2
<1>8. ASSUME NEW e \in Pixels
      PROVE  e \in Image(region, Coords(region))
  <2>1. PICK x \in X, v \in y..(y + h - 1) : e = x + v * Stride
    BY <1>4
  <2>2. PICK u \in 0..(h - 1) : u + y = v
    BY <1>6
  <2>3. e = Read(region, x, u)
    BY <1>5, <2>1, <2>2
  <2>4. PICK c : c = <<x, u>>
    OBVIOUS
  <2>5. c \in Coords(region) /\ c[1] = x /\ c[2] = u
    BY <1>3, <2>4
  <2> QED
    BY <2>3, <2>5 DEF Image
<1> QED
  BY <1>7, <1>8

LEMMA IndependentIsReduction ==
  ASSUME Typed, ScheduleIndependent
  PROVE  ResultIsReduction
<1>1. SUFFICES ASSUME host = "idle", calls > 0, EveryThreadStarts
               PROVE  /\ Len(result) = Cardinality(Pixels)
                      /\ {result[n] : n \in DOMAIN result} = Pixels
  BY DEF ResultIsReduction
<1>2. region \in Region /\ target \in {"fence", "steps"}
  BY DEF Typed
<1>3. ColumnsStart(region) /\ GatherStarts(target, region)
  BY <1>1 DEF EveryThreadStarts, ColumnsStart, GatherStarts, NumBlocks
<1>4. result = Expected(target, region)
  BY <1>1 DEF ScheduleIndependent
<1>5. Covers(result, region, Coords(region))
  BY <1>2, <1>3, <1>4, ExpectedCovers
<1>6. Lists(result, Pixels)
  BY <1>2, <1>5, CoordsArePixels DEF Covers
<1> QED
  BY <1>6, ListsCount

(* Every call returns the reduction of all pixels of the region, each      *)
(* taken once, for every image, region, grid and schedule.                 *)
THEOREM ResultIsTheReduction == Spec => []ResultIsReduction
<1>1. IInv => ResultIsReduction
  BY IndependentIsReduction DEF IInv
<1> QED
  BY <1>1, ReductionInvariant, PTL

-----------------------------------------------------------------------------
(* Types.  Whatever the region, partial results and their reductions are   *)
(* sequences of indices.                                                   *)
LEMMA RowsAreValues ==
  ASSUME NEW r \in Region, NEW x \in Int, NEW y \in Int
  PROVE  FirstRow(r, x, y) \in Value /\ NextRow(r, x, y) \in Value
<1>1. x + BlockDim \in Int
  BY RegionFacts
<1>2. PICK a \in Int, b \in Int : a = Read(r, x, y) /\ b = Read(r, x + BlockDim, y)
  BY <1>1, ReadIsInt
<1>3. PICK s \in Seq(Int), t \in Seq(Int) :
        /\ s = IF Inside(r, x) THEN <<a>> ELSE << >>
        /\ t = IF Inside(r, x + BlockDim) THEN <<b>> ELSE << >>
  <2>1. (IF Inside(r, x) THEN <<a>> ELSE << >>) \in Seq(Int)
    OBVIOUS
  <2>2. (IF Inside(r, x + BlockDim) THEN <<b>> ELSE << >>) \in Seq(Int)
    OBVIOUS
  <2> QED
    BY <2>1, <2>2, Zenon
<1>4. s \o t \in Seq(Int) /\ << >> \in Seq(Int)
  OBVIOUS
<1>5. NextRow(r, x, y) = IF y >= r.height THEN << >> ELSE s \o t
  BY <1>2, <1>3, Zenon DEF NextRow
<1>6. NextRow(r, x, y) \in Seq(Int)
  BY <1>4, <1>5, Zenon
<1>7. <<a, b>> \in Seq(Int) /\ <<a>> \in Seq(Int) /\ <<b>> \in Seq(Int)
  OBVIOUS
<1>8. FirstRow(r, x, y) \in Seq(Int)
  BY <1>2, <1>7, Zenon DEF FirstRow
<1> QED
  BY <1>6, <1>8 DEF Value

LEMMA PartialIsValue ==
  ASSUME NEW r \in Region, NEW b \in 0..(GridSize(r) - 1)
  PROVE  Partial(r, b) \in Value
<1>1. PICK n \in Nat, p \in Nat : n = BlockDim /\ p = PPT - 1
  BY RegionFacts
<1>2. PICK x \in Nat, y \in Nat : x = 2 * BlockDim * (b % GridX(r)) /\ y = Top(r, b)
  <2>1. Top(r, b) \in Nat
    BY CornerFacts, RegionFacts
  <2>2. b % GridX(r) \in Nat
    BY BlockPlace, GridBounds
  <2>3. 2 * BlockDim * (b % GridX(r)) \in Nat
    <3>1. PICK e \in Nat : e = b % GridX(r)
      BY <2>2
    <3> QED
      BY <1>1, <3>1
  <2> QED
    BY <2>1, <2>3, Zenon
<1>3. ASSUME NEW t \in 1..n
      PROVE  ThreadValue(r, b, t - 1) \in Seq(Int)
  <2>1. PICK u \in Int : u = x + (t - 1) + IdleLeft(r)
    BY IdleBounds
  <2>2. PICK q : q = [j \in 1..p |-> NextRow(r, u, y + j)]
    OBVIOUS
  <2>3. \A j \in 1..p : NextRow(r, u, y + j) \in Seq(Int)
    BY RowsAreValues DEF Value
  <2>4. FlattenSeq(q) \in Seq(Int)
    <3>1. q \in Seq(Seq(Int))
      BY <2>2, <2>3
    <3> QED
      BY <3>1, FlattenTyped
  <2>5. FirstRow(r, u, y) \in Seq(Int)
    BY RowsAreValues DEF Value
  <2>6. ThreadValue(r, b, t - 1) = FirstRow(r, u, y) \o FlattenSeq(q)
    BY <1>1, <1>2, <2>1, <2>2, Zenon DEF ThreadValue, Top
  <2>7. FirstRow(r, u, y) \o FlattenSeq(q) \in Seq(Int)
    BY <2>4, <2>5
  <2> QED
    BY <2>6, <2>7
<1>4. PICK q : q = [t \in 1..n |-> ThreadValue(r, b, t - 1)]
  OBVIOUS
<1>5. q \in Seq(Seq(Int))
  BY <1>3, <1>4
<1>6. Partial(r, b) = FlattenSeq(q)
  BY <1>1, <1>4 DEF Partial
<1> QED
  BY <1>5, <1>6, FlattenTyped DEF Value

LEMMA GatherIsValue ==
  ASSUME NEW mem, NEW m \in Nat, NEW n \in Nat \ {0},
         \A i \in 0..(m - 1) : mem[i] \in Value
  PROVE  Gather(mem, m, n) \in Value
<1>1. PICK k \in Nat : k = m \div n
  BY SMT
<1>2. ASSUME NEW t \in 1..n
      PROVE  StrandOf(mem, m, n, t) \in Seq(Int)
  <2>1. PICK q : q = ChainOf(mem, m, n, t)
    OBVIOUS
  <2>2. ASSUME NEW j \in 1..k
        PROVE  FurtherOf(mem, m, t - 1 + j * n) \in Seq(Int)
    <3>1. PICK i \in Nat : i = t - 1 + j * n
      <4>1. j * n \in Nat
        OBVIOUS
      <4> QED
        BY <4>1
    <3>2. i < m => mem[i] \in Seq(Int)
      BY <3>1 DEF Value
    <3>3. << >> \in Seq(Int)
      OBVIOUS
    <3> QED
      BY <3>1, <3>2, <3>3, Zenon DEF FurtherOf
  <2>3. q \in Seq(Seq(Int))
    BY <1>1, <2>1, <2>2 DEF ChainOf
  <2>4. FlattenSeq(q) \in Seq(Int)
    BY <2>3, FlattenTyped
  <2>5. PICK s \in Seq(Int) : s = IF t - 1 < m THEN mem[t - 1] ELSE Junk
    <3>1. t - 1 < m => mem[t - 1] \in Seq(Int)
      BY DEF Value
    <3>2. Junk \in Seq(Int)
      BY DEF Junk
    <3> QED
      BY <3>1, <3>2, Zenon
  <2>6. StrandOf(mem, m, n, t) = s \o FlattenSeq(q)
    BY <2>1, <2>5, Zenon DEF StrandOf
  <2>7. s \o FlattenSeq(q) \in Seq(Int)
    BY <2>4
  <2> QED
    BY <2>6, <2>7
<1>3. PICK q : q = [t \in 1..n |-> StrandOf(mem, m, n, t)]
  OBVIOUS
<1>4. q \in Seq(Seq(Int))
  BY <1>2, <1>3
<1> QED
  BY <1>3, <1>4, GatherIs, FlattenTyped DEF Value

(* What IInv does not say about types.                                     *)
Values == /\ output \in [Block -> Value]
          /\ result \in Value
          /\ calls \in 0..MaxCalls

LEMMA InitValues ==
  ASSUME Init
  PROVE  Values
<1>1. Junk \in Value
  BY DEF Junk, Value
<1>2. 0 \in 0..MaxCalls
  BY CallsAreBounded
<1> QED
  BY <1>1, <1>2 DEF Init, Values

LEMMA NextValues ==
  ASSUME Typed, Values, [Next]_vars
  PROVE  Values'
<1>1. /\ output \in [Block -> Value] /\ result \in Value /\ calls \in 0..MaxCalls
      /\ region \in Region
  BY DEF Typed, Values
<1>2. region' = region
  BY DEF Next, BlockStep, vars, ApplyReduction, StorePartial, Arrive, ThreadFence,
         DrawTicket, LastBlock, Kernel1D, Return
<1>3. Block' = Block
  BY <1>2 DEF Block, NumBlocks
<1>4. NumBlocks \in Nat \ {0} /\ 0 \in Block
  BY Blocks
<1>5. \A b \in Block : Partial(region, b) \in Value
  BY <1>1, PartialIsValue DEF Block, NumBlocks
<1>6. ASSUME NEW n \in Nat \ {0}
      PROVE  Gather(output, NumBlocks, n) \in Value
  <2>1. \A i \in 0..(NumBlocks - 1) : output[i] \in Value
    BY <1>1 DEF Block
  <2> QED
    BY <1>4, <2>1, GatherIsValue
<1>7. ASSUME UNCHANGED <<output, result, calls>>
      PROVE  Values'
  BY <1>1, <1>3, <1>7 DEF Values
<1>8. ASSUME NEW b \in Block, NEW v \in Value, output' = [output EXCEPT ![b] = v],
             UNCHANGED <<result, calls>>
      PROVE  Values'
  BY <1>1, <1>3, <1>8 DEF Values
<1>9. CASE ApplyReduction
  <2>1. Junk \in Value
    BY DEF Junk, Value
  <2>2. calls' \in 0..MaxCalls
    BY <1>1, <1>9, CallsAreBounded DEF ApplyReduction
  <2>3. output' = [b \in Block |-> Junk] /\ result' = result
    BY <1>9 DEF ApplyReduction
  <2> QED
    BY <1>1, <1>3, <2>1, <2>2, <2>3 DEF Values
<1>10. CASE \E b \in Block : BlockStep(b)
  <2>1. PICK b \in Block : BlockStep(b)
    BY <1>10
  <2>2. CASE StorePartial(b) \/ ThreadFence(b) \/ DrawTicket(b)
    BY <1>7, <2>2 DEF StorePartial, ThreadFence, DrawTicket
  <2>3. CASE Arrive(b)
    BY <1>5, <1>8, <2>3 DEF Arrive
  <2>4. CASE LastBlock(b)
    <3>1. Gather(output, NumBlocks, BlockDim) \in Value
      BY <1>1, <1>6, RegionFacts
    <3> QED
      BY <1>4, <1>8, <2>4, <3>1 DEF LastBlock
  <2> QED
    BY <2>1, <2>2, <2>3, <2>4 DEF BlockStep
<1>11. CASE Kernel1D
  <2>1. Gather(output, NumBlocks, SecondBlockDim(NumBlocks)) \in Value
    BY <1>4, <1>6, SecondBlockDimPositive
  <2> QED
    BY <1>4, <1>8, <1>11, <2>1 DEF Kernel1D
<1>12. CASE Return
  BY <1>1, <1>3, <1>4, <1>12 DEF Return, Values
<1>13. CASE UNCHANGED vars
  BY <1>7, <1>13 DEF vars
<1> QED
  BY <1>9, <1>10, <1>11, <1>12, <1>13 DEF Next

LEMMA InvariantTypes ==
  ASSUME IInv, Values
  PROVE  TypeOK
<1>1. Typed /\ Counted
  BY DEF IInv
<1>2. /\ NumBlocks \in Nat \ {0} /\ IsFiniteSet(Block) /\ Cardinality(Block) = NumBlocks
  BY <1>1, Blocks
<1>3. Cardinality(Past) \in 0..NumBlocks
  <2>1. Past \subseteq Block
    BY DEF Past
  <2>2. /\ IsFiniteSet(Past) /\ Cardinality(Past) <= NumBlocks
    BY <1>2, <2>1, FS_Subset
  <2>3. Cardinality(Past) \in Nat
    BY <2>2, FS_CardinalityType
  <2> QED
    BY <1>2, <2>2, <2>3
<1>4. finished \in 0..NumBlocks
  BY <1>1, <1>2, <1>3 DEF Counted
<1> QED
  BY <1>1, <1>4 DEF Typed, Values, TypeOK

(* The types of the state, in every run.                                   *)
THEOREM ReductionTypeCorrect == Spec => []TypeOK
<1>1. Init => Values
  BY InitValues
<1>2. IInv /\ Values /\ [Next]_vars => Values'
  BY NextValues DEF IInv
<1>3. IInv /\ Values => TypeOK
  BY InvariantTypes
<1> QED
  BY <1>1, <1>2, <1>3, ReductionInvariant, PTL DEF Spec
=============================================================================
