----------------------- MODULE DataflowRegion_proofs -----------------------
(***************************************************************************)
(* Theorems about HostDataDeps, StreamSchedule and DataflowRegion.         *)
(*                                                                         *)
(* About HostDataDeps, for every host program: any number of images,       *)
(* accessors and kernels, any kernel signatures, any number of executions. *)
(* First the invariant IInv and what follows from it of the wiring; then   *)
(* that the graph implements the sequential host program.                  *)
(*                                                                         *)
(* About StreamSchedule, for every host program whose kernels do not work  *)
(* in place, however many executions it has and however they share their   *)
(* images: the entry function is a legal dataflow region that passes the   *)
(* values the program means.  The invariant, ScheduleInv, holds of         *)
(* in-place kernels as well: TrackOK while statements are recorded,        *)
(* MarkInv while createSchedule names the streams.  OutOfPlace is needed   *)
(* at the end, to see that every process has been planned.                 *)
(*                                                                         *)
(* About DataflowRegion, the printed program as a whole: whatever the      *)
(* order in which the statements of the entry function run, and whatever   *)
(* the host program, main() fetches the image the program computes         *)
(* sequentially.  The network of streams is that of StreamSchedule; what   *)
(* is added is the argument for networks of this kind: as each stream has  *)
(* one writer and one reader, its contents are a piece of the sequence of  *)
(* pixels that only depends on how far these two are.                      *)
(***************************************************************************)
EXTENDS DataflowRegion, SequenceTheorems, FiniteSetTheorems, WellFoundedInduction,
        TLAPS

-----------------------------------------------------------------------------
(* The graph of the data dependencies: HostDataDeps.                       *)

(* Names in scope are declared: a kernel's arguments when it is declared,  *)
(* a process's kernel when it is executed.                                 *)
DeclOK ==
  \A k \in DOMAIN kernelMap :
    /\ kernelMap[k].iter \in DOMAIN iterMap
    /\ \A n \in DOMAIN kernelMap[k].accs :
         kernelMap[k].accs[n] \in DOMAIN accMap

(* A process owns its output space and has linked a prefix of its          *)
(* accessors.                                                              *)
ProcOK ==
  \A p \in DOMAIN processes :
    /\ processes[p].kernel \in DOMAIN kernelMap
    /\ processes[p].out \in DOMAIN spaces
    /\ spaces[processes[p].out].src = p
    /\ spaces[processes[p].out].image = Writes(p)
    /\ Len(processes[p].ins) <= Len(AccsOf(p))
    /\ \A n \in DOMAIN processes[p].ins : processes[p].ins[n] \in DOMAIN spaces

SrcOK ==
  \A s \in DOMAIN spaces :
    spaces[s].src # 0 => /\ spaces[s].src \in DOMAIN processes
                         /\ processes[spaces[s].src].out = s

(* Output spaces are pushed in the order of the executions.                *)
OutputsOrdered ==
  \A p, q \in DOMAIN processes : p < q => processes[p].out < processes[q].out

(* An input space is the first space of its image.                         *)
InputIsFirst ==
  \A s, t \in DOMAIN spaces :
    spaces[s].src = 0 /\ t < s => spaces[t].image # spaces[s].image

LinkOK ==
  link # 0 =>
    /\ Len(processes) # 0
    /\ link <= Len(AccsOf(Len(processes)))
    /\ link = Len(processes[Len(processes)].ins) + 1

IInv ==
  /\ TypeOK /\ DeclOK /\ ProcOK /\ SrcOK /\ OutputsOrdered /\ InputIsFirst
  /\ LinkOK /\ ReadsLatestWrite

-----------------------------------------------------------------------------
(* Maps.                                                                   *)

LEMMA PartialFcnApply ==
  ASSUME NEW S, NEW T, NEW f \in PartialFcn(S, T)
  PROVE  /\ f \in [DOMAIN f -> T]
         /\ DOMAIN f \subseteq S
  BY DEF PartialFcn

LEMMA PartialFcnWiden ==
  ASSUME NEW S, NEW T, NEW U, T \subseteq U, NEW f \in PartialFcn(S, T)
  PROVE  f \in PartialFcn(S, U)
  <1>1. PICK D \in SUBSET S : f \in [D -> T]
    BY DEF PartialFcn
  <1>2. f \in [D -> U]
    BY <1>1
  <1> QED
    BY <1>2 DEF PartialFcn

LEMMA BindFcn ==
  ASSUME NEW S, NEW T, NEW f \in PartialFcn(S, T), NEW k \in S, NEW v \in T,
         k \notin DOMAIN f
  PROVE  /\ Bind(f, k, v) \in PartialFcn(S, T)
         /\ DOMAIN Bind(f, k, v) = DOMAIN f \cup {k}
         /\ Bind(f, k, v)[k] = v
         /\ \A x \in DOMAIN f : Bind(f, k, v)[x] = f[x]
  <1>1. f \in [DOMAIN f -> T] /\ DOMAIN f \subseteq S
    BY PartialFcnApply
  <1>2. Bind(f, k, v) \in [DOMAIN f \cup {k} -> T]
    BY <1>1 DEF Bind
  <1>3. DOMAIN f \cup {k} \in SUBSET S
    BY <1>1
  <1>4. Bind(f, k, v) \in PartialFcn(S, T)
    BY <1>2, <1>3 DEF PartialFcn
  <1> QED
    BY <1>4 DEF Bind

LEMMA EmptyPartialFcn ==
  ASSUME NEW S, NEW T
  PROVE  << >> \in PartialFcn(S, T)
  <1>1. << >> \in [{} -> T]
    OBVIOUS
  <1> QED
    BY <1>1 DEF PartialFcn

-----------------------------------------------------------------------------
(* Declarations extend the maps and leave the graph alone.                 *)

Grows(f, g) ==
  /\ DOMAIN f \subseteq DOMAIN g
  /\ \A x \in DOMAIN f : g[x] = f[x]

MapsGrow ==
  /\ Grows(accMap, accMap')
  /\ Grows(iterMap, iterMap')
  /\ Grows(kernelMap, kernelMap')

LEMMA DeclareGrowsMaps ==
  ASSUME TypeOK, Declare
  PROVE  TypeOK' /\ MapsGrow /\ UNCHANGED graphVars
  <1> USE DEF TypeOK, graphVars, MapsGrow
  <1>1. ASSUME NEW i \in Image, AddImage(i)
        PROVE  TypeOK' /\ MapsGrow /\ UNCHANGED graphVars
    <2>1. imgMap \subseteq imgMap'
      BY <1>1 DEF AddImage
    <2>2. /\ bcMap \in PartialFcn(BoundaryCondition, imgMap')
          /\ accMap \in PartialFcn(Accessor, imgMap')
          /\ iterMap \in PartialFcn(IterationSpace, imgMap')
      BY <2>1, PartialFcnWiden
    <2> QED
      BY <1>1, <2>2 DEF AddImage, Grows
  <1>2. ASSUME NEW b \in BoundaryCondition, NEW i \in Image,
               AddBoundaryCondition(b, i)
        PROVE  TypeOK' /\ MapsGrow /\ UNCHANGED graphVars
    <2>1. /\ bcMap' = Bind(bcMap, b, i)
          /\ b \notin DOMAIN bcMap
          /\ i \in imgMap
          /\ bcMap \in PartialFcn(BoundaryCondition, imgMap)
      BY <1>2 DEF AddBoundaryCondition
    <2>2. bcMap' \in PartialFcn(BoundaryCondition, imgMap)
      BY <2>1, BindFcn, Zenon
    <2>3. Grows(bcMap, bcMap')
      BY <2>1 DEF Bind, Grows
    <2> QED
      BY <1>2, <2>2, <2>3 DEF AddBoundaryCondition, Grows
  <1>3. ASSUME NEW a \in Accessor, NEW i \in Image, AddImageAccessor(a, i)
        PROVE  TypeOK' /\ MapsGrow /\ UNCHANGED graphVars
    <2>1. /\ accMap' = Bind(accMap, a, i)
          /\ a \notin DOMAIN accMap
          /\ i \in imgMap
          /\ accMap \in PartialFcn(Accessor, imgMap)
      BY <1>3 DEF AddImageAccessor
    <2>2. accMap' \in PartialFcn(Accessor, imgMap)
      BY <2>1, BindFcn, Zenon
    <2>3. Grows(accMap, accMap')
      BY <2>1 DEF Bind, Grows
    <2> QED
      BY <1>3, <2>2, <2>3 DEF AddImageAccessor, Grows
  <1>4. ASSUME NEW a \in Accessor, NEW b \in BoundaryCondition,
               AddBoundaryAccessor(a, b)
        PROVE  TypeOK' /\ MapsGrow /\ UNCHANGED graphVars
    <2>1. /\ accMap' = Bind(accMap, a, bcMap[b])
          /\ a \notin DOMAIN accMap
          /\ bcMap[b] \in imgMap
          /\ accMap \in PartialFcn(Accessor, imgMap)
      BY <1>4, PartialFcnApply DEF AddBoundaryAccessor
    <2>2. accMap' \in PartialFcn(Accessor, imgMap)
      BY <2>1, BindFcn, Zenon
    <2>3. Grows(accMap, accMap')
      BY <2>1 DEF Bind, Grows
    <2> QED
      BY <1>4, <2>2, <2>3 DEF AddBoundaryAccessor, Grows
  <1>5. ASSUME NEW is \in IterationSpace, NEW i \in Image,
               AddIterationSpace(is, i)
        PROVE  TypeOK' /\ MapsGrow /\ UNCHANGED graphVars
    <2>1. /\ iterMap' = Bind(iterMap, is, i)
          /\ is \notin DOMAIN iterMap
          /\ i \in imgMap
          /\ iterMap \in PartialFcn(IterationSpace, imgMap)
      BY <1>5 DEF AddIterationSpace
    <2>2. iterMap' \in PartialFcn(IterationSpace, imgMap)
      BY <2>1, BindFcn, Zenon
    <2>3. Grows(iterMap, iterMap')
      BY <2>1 DEF Bind, Grows
    <2> QED
      BY <1>5, <2>2, <2>3 DEF AddIterationSpace, Grows
  <1>6. ASSUME NEW k \in Kernel, NEW c \in Ctor, AddKernel(k, c)
        PROVE  TypeOK' /\ MapsGrow /\ UNCHANGED graphVars
    <2>1. /\ kernelMap' = Bind(kernelMap, k, c)
          /\ k \notin DOMAIN kernelMap
          /\ c \in Ctor
          /\ kernelMap \in PartialFcn(Kernel, Ctor)
      BY <1>6 DEF AddKernel
    <2>2. kernelMap' \in PartialFcn(Kernel, Ctor)
      BY <2>1, BindFcn, Zenon
    <2>3. Grows(kernelMap, kernelMap')
      BY <2>1 DEF Bind, Grows
    <2> QED
      BY <1>6, <2>2, <2>3 DEF AddKernel, Grows
  <1> QED
    BY <1>1, <1>2, <1>3, <1>4, <1>5, <1>6 DEF Declare

LEMMA DeclareKeepsDeclOK ==
  ASSUME TypeOK, DeclOK, Declare
  PROVE  DeclOK'
  <1>1. MapsGrow
    BY DeclareGrowsMaps
  <1>2. CASE UNCHANGED kernelMap
    BY <1>1, <1>2 DEF DeclOK, MapsGrow, Grows
  <1>3. ASSUME NEW k \in Kernel, NEW c \in Ctor, AddKernel(k, c)
        PROVE  DeclOK'
    <2>1. /\ DOMAIN kernelMap' = DOMAIN kernelMap \cup {k}
          /\ kernelMap'[k] = c
          /\ \A x \in DOMAIN kernelMap : kernelMap'[x] = kernelMap[x]
      BY <1>3 DEF AddKernel, Bind
    <2> QED
      BY <1>3, <2>1 DEF DeclOK, AddKernel
  <1> QED
    BY <1>2, <1>3 DEF Declare, AddImage, AddBoundaryCondition,
       AddImageAccessor, AddBoundaryAccessor, AddIterationSpace

LEMMA ElementType ==
  ASSUME NEW S, NEW q \in Seq(S), NEW n \in DOMAIN q
  PROVE  q[n] \in S
  OBVIOUS

LEMMA ProcessType ==
  ASSUME TypeOK, NEW p \in DOMAIN processes
  PROVE  processes[p] \in ProcessRec
  BY ElementType DEF TypeOK

LEMMA SpaceType ==
  ASSUME TypeOK, NEW s \in DOMAIN spaces
  PROVE  spaces[s] \in SpaceRec
  BY ElementType DEF TypeOK

(* What the graph says of a process is not affected by new names.          *)
LEMMA DeclareKeepsProcesses ==
  ASSUME TypeOK, DeclOK, ProcOK, MapsGrow, UNCHANGED graphVars,
         NEW p \in DOMAIN processes
  PROVE  /\ processes'[p] = processes[p]
         /\ AccsOf(p)' = AccsOf(p)
         /\ Writes(p)' = Writes(p)
         /\ \A n \in DOMAIN processes[p].ins : Reads(p, n)' = Reads(p, n)
  <1> DEFINE k == processes[p].kernel
  <1>1. processes' = processes /\ k \in DOMAIN kernelMap
    BY DEF graphVars, ProcOK
  <1>2. kernelMap'[k] = kernelMap[k]
    BY <1>1 DEF MapsGrow, Grows
  <1>3. AccsOf(p)' = AccsOf(p)
    BY <1>1, <1>2 DEF AccsOf
  <1>4. Writes(p)' = Writes(p)
    BY <1>1, <1>2 DEF Writes, DeclOK, MapsGrow, Grows
  <1>5. ASSUME NEW n \in DOMAIN processes[p].ins
        PROVE  Reads(p, n)' = Reads(p, n)
    <2>1. kernelMap[k] \in Ctor
      BY <1>1, PartialFcnApply DEF TypeOK
    <2>2. AccsOf(p) \in Seq(Accessor)
      BY <2>1, CtorType DEF AccsOf
    <2>3. processes[p].ins \in Seq(Nat)
      BY ProcessType DEF ProcessRec
    <2>4. Len(processes[p].ins) <= Len(AccsOf(p))
      BY DEF ProcOK
    <2>5. n \in DOMAIN AccsOf(p)
      BY <2>2, <2>3, <2>4, <1>5
    <2>6. AccsOf(p)[n] \in DOMAIN accMap
      BY <1>1, <2>5 DEF DeclOK, AccsOf
    <2> QED
      BY <1>3, <2>6 DEF Reads, MapsGrow, Grows
  <1> QED
    BY <1>1, <1>3, <1>4, <1>5

-----------------------------------------------------------------------------
(* Executions.  Every step keeps what the graph already says.              *)

SameProcess(p) ==
  /\ processes'[p].kernel = processes[p].kernel
  /\ processes'[p].out = processes[p].out
  /\ Writes(p)' = Writes(p)
  /\ AccsOf(p)' = AccsOf(p)
  /\ Len(processes[p].ins) <= Len(processes'[p].ins)
  /\ \A n \in DOMAIN processes[p].ins :
       /\ processes'[p].ins[n] = processes[p].ins[n]
       /\ Reads(p, n)' = Reads(p, n)

SameSpace(s) ==
  /\ spaces'[s].image = spaces[s].image
  /\ spaces'[s].src = spaces[s].src

GraphGrows ==
  /\ Len(processes) <= Len(processes')
  /\ Len(spaces) <= Len(spaces')
  /\ \A p \in DOMAIN processes : SameProcess(p)
  /\ \A s \in DOMAIN spaces : SameSpace(s)

LEMMA DeclareGrowsGraph ==
  ASSUME TypeOK, DeclOK, ProcOK, Declare
  PROVE  GraphGrows
  <1>1. MapsGrow /\ UNCHANGED graphVars
    BY DeclareGrowsMaps
  <1>2. ASSUME NEW p \in DOMAIN processes
        PROVE  SameProcess(p)
    <2>1. processes[p].ins \in Seq(Nat)
      BY ProcessType DEF ProcessRec
    <2> QED
      BY <1>1, <2>1, DeclareKeepsProcesses DEF SameProcess
  <1>3. UNCHANGED spaces /\ UNCHANGED processes
    BY <1>1 DEF graphVars
  <1>4. Len(processes) \in Nat /\ Len(spaces) \in Nat
    BY DEF TypeOK
  <1> QED
    BY <1>2, <1>3, <1>4 DEF GraphGrows, SameSpace

(* runKernel pushes one process and its output space.                      *)
LEMMA RunKernelStep ==
  ASSUME TypeOK, DeclOK, NEW k \in Kernel, RunKernel(k)
  PROVE  /\ TypeOK'
         /\ UNCHANGED declVars
         /\ Len(processes') = Len(processes) + 1
         /\ Len(spaces') = Len(spaces) + 1
         /\ \A p \in DOMAIN processes : processes'[p] = processes[p]
         /\ \A s \in DOMAIN spaces : spaces'[s] = spaces[s]
         /\ processes'[Len(processes) + 1] =
              [kernel |-> k, out |-> Len(spaces) + 1, ins |-> << >>]
         /\ spaces'[Len(spaces) + 1] =
              [image |-> iterMap[kernelMap[k].iter],
               src |-> Len(processes) + 1, dst |-> << >>]
  <1> DEFINE np == [kernel |-> k, out |-> Len(spaces) + 1, ins |-> << >>]
             ns == [image |-> iterMap[kernelMap[k].iter],
                    src |-> Len(processes) + 1, dst |-> << >>]
  <1>1. /\ processes \in Seq(ProcessRec)
        /\ spaces \in Seq(SpaceRec)
        /\ k \in DOMAIN kernelMap
        /\ processes' = Append(processes, np)
        /\ spaces' = Append(spaces, ns)
        /\ link' \in Nat
        /\ UNCHANGED declVars
    BY DEF RunKernel, TypeOK
  <1>2. iterMap[kernelMap[k].iter] \in Image
    <2>1. kernelMap[k].iter \in DOMAIN iterMap
      BY <1>1 DEF DeclOK
    <2>2. iterMap \in [DOMAIN iterMap -> imgMap]
      BY PartialFcnApply DEF TypeOK
    <2> QED
      BY <2>1, <2>2 DEF TypeOK
  <1>3. np \in ProcessRec
    BY <1>1 DEF ProcessRec
  <1>4. ns \in SpaceRec
    BY <1>1, <1>2 DEF SpaceRec
  <1> HIDE DEF np, ns
  <1>5. processes' \in Seq(ProcessRec) /\ spaces' \in Seq(SpaceRec)
    BY <1>1, <1>3, <1>4
  <1>6. TypeOK'
    BY <1>1, <1>5 DEF TypeOK, declVars
  <1>7. /\ Len(processes') = Len(processes) + 1
        /\ \A p \in DOMAIN processes : processes'[p] = processes[p]
        /\ processes'[Len(processes) + 1] = np
    BY <1>1
  <1>8. /\ Len(spaces') = Len(spaces) + 1
        /\ \A s \in DOMAIN spaces : spaces'[s] = spaces[s]
        /\ spaces'[Len(spaces) + 1] = ns
    BY <1>1
  <1> QED
    BY <1>1, <1>6, <1>7, <1>8 DEF np, ns

LEMMA AppendOne ==
  ASSUME NEW S, NEW q \in Seq(S), NEW e \in S
  PROVE  /\ Append(q, e) \in Seq(S)
         /\ Len(Append(q, e)) = Len(q) + 1
         /\ DOMAIN Append(q, e) = DOMAIN q \cup {Len(q) + 1}
         /\ Append(q, e)[Len(q) + 1] = e
         /\ \A n \in DOMAIN q : Append(q, e)[n] = q[n]
  OBVIOUS

LEMMA SetIns ==
  ASSUME NEW r \in ProcessRec, NEW q \in Seq(Nat)
  PROVE  /\ [r EXCEPT !.ins = q] \in ProcessRec
         /\ [r EXCEPT !.ins = q].kernel = r.kernel
         /\ [r EXCEPT !.ins = q].out = r.out
         /\ [r EXCEPT !.ins = q].ins = q
  BY DEF ProcessRec

LEMMA SetDst ==
  ASSUME NEW r \in SpaceRec, NEW q \in Seq(Nat)
  PROVE  /\ [r EXCEPT !.dst = q] \in SpaceRec
         /\ [r EXCEPT !.dst = q].image = r.image
         /\ [r EXCEPT !.dst = q].src = r.src
  BY DEF SpaceRec

(* One iteration of the accessor loop, for a list of spaces sp that the    *)
(* iteration may have extended.                                            *)
LEMMA ConnectStep ==
  ASSUME TypeOK, NEW sp \in Seq(SpaceRec), NEW s \in DOMAIN sp,
         Len(processes) # 0, Connect(sp, s)
  PROVE  LET p == Len(processes) IN
         /\ TypeOK'
         /\ UNCHANGED declVars
         /\ Len(processes') = Len(processes)
         /\ Len(spaces') = Len(sp)
         /\ \A t \in DOMAIN sp : /\ spaces'[t].image = sp[t].image
                                 /\ spaces'[t].src = sp[t].src
         /\ \A q \in DOMAIN processes : q # p => processes'[q] = processes[q]
         /\ processes'[p].kernel = processes[p].kernel
         /\ processes'[p].out = processes[p].out
         /\ processes'[p].ins = Append(processes[p].ins, s)
  <1> DEFINE p  == Len(processes)
             np == [processes[p] EXCEPT !.ins = Append(@, s)]
             ns == [sp[s] EXCEPT !.dst = Append(@, p)]
  <1>1. /\ processes \in Seq(ProcessRec)
        /\ p \in Nat
        /\ p \in DOMAIN processes
        /\ processes' = [processes EXCEPT ![p] = np]
        /\ spaces' = [sp EXCEPT ![s] = ns]
        /\ UNCHANGED declVars
    BY DEF Connect, TypeOK
  <1>2. link' \in Nat
    BY DEF Connect, TypeOK
  <1>3. /\ np \in ProcessRec
        /\ np.kernel = processes[p].kernel
        /\ np.out = processes[p].out
        /\ np.ins = Append(processes[p].ins, s)
    <2>1. processes[p] \in ProcessRec
      BY <1>1, ElementType
    <2>2. s \in Nat /\ processes[p].ins \in Seq(Nat)
      BY <2>1 DEF ProcessRec
    <2>3. Append(processes[p].ins, s) \in Seq(Nat)
      BY <2>2
    <2> QED
      BY <2>1, <2>3, SetIns
  <1>4. /\ ns \in SpaceRec
        /\ ns.image = sp[s].image
        /\ ns.src = sp[s].src
    <2>1. sp[s] \in SpaceRec
      BY ElementType
    <2>2. sp[s].dst \in Seq(Nat)
      BY <2>1 DEF SpaceRec
    <2>3. Append(sp[s].dst, p) \in Seq(Nat)
      BY <1>1, <2>2
    <2> QED
      BY <2>1, <2>3, SetDst
  <1> HIDE DEF np, ns
  <1>5. /\ processes' \in Seq(ProcessRec)
        /\ Len(processes') = p
        /\ \A q \in DOMAIN processes : q # p => processes'[q] = processes[q]
        /\ processes'[p] = np
    BY <1>1, <1>3
  <1>6. /\ spaces' \in Seq(SpaceRec)
        /\ Len(spaces') = Len(sp)
        /\ \A t \in DOMAIN sp : t # s => spaces'[t] = sp[t]
        /\ spaces'[s] = ns
    BY <1>1, <1>4
  <1>7. TypeOK'
    BY <1>1, <1>2, <1>5, <1>6 DEF TypeOK, declVars
  <1> QED
    BY <1>1, <1>3, <1>4, <1>5, <1>6, <1>7

-----------------------------------------------------------------------------
(* The youngest space of an image holds its current value: the central     *)
(* argument.  Output spaces are ordered like the executions, and an input  *)
(* space of the image would be older than any of them.                     *)

LEMMA ProcessCount ==
  ASSUME TypeOK
  PROVE  /\ Len(processes) \in Nat /\ DOMAIN processes = 1..Len(processes)
         /\ Len(spaces) \in Nat /\ DOMAIN spaces = 1..Len(spaces)
  BY DEF TypeOK

LEMMA YoungestIsCurrent ==
  ASSUME TypeOK, ProcOK, SrcOK, OutputsOrdered, InputIsFirst,
         NEW i, NEW s \in Holding(i), \A t \in Holding(i) : t <= s,
         Len(processes) # 0, Writes(Len(processes)) # i
  PROVE  IsLastWriter(spaces[s].src, i, Len(processes) - 1)
  <1> DEFINE p == Len(processes)
             w == spaces[s].src
  <1>1. /\ p \in Nat \ {0}
        /\ DOMAIN processes = 1..p
        /\ s \in DOMAIN spaces /\ s \in Nat
        /\ spaces[s].image = i
    BY ProcessCount DEF Holding
  <1>2. w \in Nat
    BY <1>1, SpaceType DEF SpaceRec
  <1>3. ASSUME NEW q \in DOMAIN processes, Writes(q) = i
        PROVE  /\ processes[q].out \in Holding(i)
               /\ processes[q].out <= s
               /\ spaces[processes[q].out].src = q
    BY <1>3 DEF ProcOK, Holding
  <1>4. CASE w = 0
    <2>1. ASSUME NEW q \in 1..(p - 1), Writes(q) = i
          PROVE  FALSE
      <3>1. q \in DOMAIN processes /\ q # 0
        BY <1>1
      <3>2. /\ processes[q].out \in Holding(i)
            /\ processes[q].out <= s
            /\ processes[q].out # s
        BY <1>3, <1>4, <2>1, <3>1
      <3>3. processes[q].out \in DOMAIN spaces /\ processes[q].out \in Nat
        BY <3>2, ProcessCount DEF Holding
      <3>4. processes[q].out < s
        BY <1>1, <3>2, <3>3
      <3> QED
        BY <1>1, <1>4, <3>2, <3>3, <3>4 DEF InputIsFirst, Holding
    <2> QED
      BY <1>1, <1>4, <2>1 DEF IsLastWriter
  <1>5. CASE w # 0
    <2>1. w \in 1..p /\ processes[w].out = s
      BY <1>1, <1>5 DEF SrcOK
    <2>2. Writes(w) = i
      BY <1>1, <2>1 DEF ProcOK
    <2>3. w \in 1..(p - 1)
      BY <1>1, <2>1, <2>2
    <2>4. ASSUME NEW q \in (w + 1)..(p - 1), Writes(q) = i
          PROVE  FALSE
      <3>1. q \in DOMAIN processes /\ w < q
        BY <1>1, <2>1
      <3>2. s < processes[q].out
        BY <1>1, <2>1, <3>1 DEF OutputsOrdered
      <3>3. processes[q].out <= s
        BY <1>3, <2>4, <3>1
      <3>4. processes[q].out \in Nat
        BY <3>1, ProcessType DEF ProcessRec
      <3> QED
        BY <1>1, <3>2, <3>3, <3>4
    <2> QED
      BY <1>1, <2>2, <2>3, <2>4 DEF IsLastWriter
  <1> QED
    BY <1>4, <1>5

(* An image without a space was never written.                             *)
LEMMA NoSpaceNoWriter ==
  ASSUME TypeOK, ProcOK, NEW i, Holding(i) = {}, Len(processes) # 0
  PROVE  IsLastWriter(0, i, Len(processes) - 1)
  <1>1. ASSUME NEW q \in 1..(Len(processes) - 1), Writes(q) = i
        PROVE  FALSE
    BY <1>1, ProcessCount DEF ProcOK, Holding
  <1> QED
    BY <1>1, ProcessCount DEF IsLastWriter

(* Later executions do not change who wrote an image last before.          *)
LEMMA LastWriterKept ==
  ASSUME TypeOK, GraphGrows, NEW n \in Nat, n <= Len(processes), NEW w, NEW i,
         IsLastWriter(w, i, n)
  PROVE  IsLastWriter(w, i, n)'
  <1>1. \A q \in 1..n : Writes(q)' = Writes(q)
    BY ProcessCount DEF GraphGrows, SameProcess
  <1> QED
    BY <1>1 DEF IsLastWriter

LEMMA FedByLastWriterKept ==
  ASSUME TypeOK, ProcOK, GraphGrows, NEW p \in DOMAIN processes,
         NEW n \in DOMAIN processes[p].ins, FedByLastWriter(p, n)
  PROVE  FedByLastWriter(p, n)'
  <1> DEFINE s == processes[p].ins[n]
  <1>1. /\ processes'[p].ins[n] = s
        /\ Reads(p, n)' = Reads(p, n)
    BY DEF GraphGrows, SameProcess
  <1>2. s \in DOMAIN spaces
    BY DEF ProcOK
  <1>3. spaces'[s].image = spaces[s].image /\ spaces'[s].src = spaces[s].src
    BY <1>2 DEF GraphGrows, SameSpace
  <1>4. PICK w, i : w = spaces[s].src /\ i = Reads(p, n)
    OBVIOUS
  <1>5. p - 1 \in Nat /\ p - 1 <= Len(processes)
    BY ProcessCount
  <1>6. IsLastWriter(w, i, p - 1)
    BY <1>4 DEF FedByLastWriter
  <1>7. IsLastWriter(w, i, p - 1)'
    BY <1>5, <1>6, LastWriterKept
  <1>8. spaces'[s].src = w /\ Reads(p, n)' = i /\ spaces'[s].image = i
    BY <1>1, <1>3, <1>4 DEF FedByLastWriter
  <1>9. IsLastWriter(spaces[s].src, Reads(p, n), p - 1)'
    BY <1>1, <1>7, <1>8 DEF IsLastWriter
  <1> QED
    BY <1>1, <1>8, <1>9 DEF FedByLastWriter

LEMMA ReadsKept ==
  ASSUME TypeOK, ProcOK, GraphGrows, ReadsLatestWrite,
         NEW p \in DOMAIN processes, NEW n \in DOMAIN processes[p].ins,
         (Reads(p, n) # Writes(p))'
  PROVE  FedByLastWriter(p, n)'
  <1>1. Reads(p, n) # Writes(p)
    BY DEF GraphGrows, SameProcess
  <1>2. FedByLastWriter(p, n)
    BY <1>1 DEF ReadsLatestWrite
  <1> QED
    BY <1>2, FedByLastWriterKept

-----------------------------------------------------------------------------
(* Each action keeps the invariant.                                        *)

LEMMA DeclareKeeps ==
  ASSUME IInv, Declare
  PROVE  IInv' /\ GraphGrows
  <1> USE DEF IInv
  <1>1. MapsGrow /\ UNCHANGED graphVars /\ TypeOK' /\ DeclOK'
    BY DeclareGrowsMaps, DeclareKeepsDeclOK
  <1>2. GraphGrows
    BY DeclareGrowsGraph
  <1>3. UNCHANGED spaces /\ UNCHANGED processes /\ UNCHANGED link
    BY <1>1 DEF graphVars
  <1>4. \A p \in DOMAIN processes : Writes(p)' = Writes(p) /\ AccsOf(p)' = AccsOf(p)
    BY <1>1, DeclareKeepsProcesses
  <1>5. ProcOK'
    BY <1>1, <1>3, <1>4 DEF ProcOK, MapsGrow, Grows
  <1>6. SrcOK' /\ OutputsOrdered' /\ InputIsFirst'
    BY <1>3 DEF SrcOK, OutputsOrdered, InputIsFirst
  <1>7. LinkOK'
    BY <1>3, <1>4, ProcessCount DEF LinkOK
  <1>8. ReadsLatestWrite'
    BY <1>2, <1>3, ReadsKept DEF ReadsLatestWrite
  <1> QED
    BY <1>1, <1>2, <1>5, <1>6, <1>7, <1>8

LEMMA RunKernelGrows ==
  ASSUME IInv, NEW k \in Kernel, RunKernel(k)
  PROVE  GraphGrows
  <1>1. /\ UNCHANGED declVars
        /\ Len(processes') = Len(processes) + 1
        /\ Len(spaces') = Len(spaces) + 1
        /\ \A p \in DOMAIN processes : processes'[p] = processes[p]
        /\ \A s \in DOMAIN spaces : spaces'[s] = spaces[s]
    BY RunKernelStep DEF IInv
  <1>2. ASSUME NEW p \in DOMAIN processes
        PROVE  SameProcess(p)
    <2>1. processes[p].ins \in Seq(Nat)
      BY ProcessType DEF ProcessRec, IInv
    <2> QED
      BY <1>1, <2>1 DEF SameProcess, Writes, Reads, AccsOf, declVars
  <1>3. Len(processes) \in Nat /\ Len(spaces) \in Nat
    BY ProcessCount DEF IInv
  <1> QED
    BY <1>1, <1>2, <1>3 DEF GraphGrows, SameSpace

LEMMA RunKernelKeeps ==
  ASSUME IInv, NEW k \in Kernel, RunKernel(k)
  PROVE  IInv'
  <1>0. PICK np, ns : np = Len(processes) + 1 /\ ns = Len(spaces) + 1
    OBVIOUS
  <1>1. /\ TypeOK'
        /\ UNCHANGED declVars
        /\ Len(processes') = np
        /\ Len(spaces') = ns
        /\ \A p \in DOMAIN processes : processes'[p] = processes[p]
        /\ \A s \in DOMAIN spaces : spaces'[s] = spaces[s]
        /\ processes'[np] = [kernel |-> k, out |-> ns, ins |-> << >>]
        /\ spaces'[ns] = [image |-> iterMap[kernelMap[k].iter],
                          src |-> np, dst |-> << >>]
    BY <1>0, RunKernelStep DEF IInv
  <1>2. GraphGrows
    BY RunKernelGrows
  <1>3. /\ Len(processes) \in Nat /\ Len(spaces) \in Nat
        /\ DOMAIN processes = 1..Len(processes)
        /\ DOMAIN spaces = 1..Len(spaces)
        /\ DOMAIN processes' = DOMAIN processes \cup {np}
        /\ DOMAIN spaces' = DOMAIN spaces \cup {ns}
        /\ np = Len(processes) + 1 /\ ns = Len(spaces) + 1
    BY <1>0, <1>1, ProcessCount DEF IInv, TypeOK
  <1>4. \A p \in DOMAIN processes : processes[p].out \in DOMAIN spaces
    BY DEF IInv, ProcOK
  <1>5. DeclOK'
    BY <1>1 DEF IInv, DeclOK, declVars
  <1>6. ProcOK'
    <2>1. ASSUME NEW p \in DOMAIN processes
          PROVE  /\ processes'[p].kernel \in DOMAIN kernelMap'
                 /\ processes'[p].out \in DOMAIN spaces'
                 /\ spaces'[processes'[p].out].src = p
                 /\ spaces'[processes'[p].out].image = Writes(p)'
                 /\ Len(processes'[p].ins) <= Len(AccsOf(p)')
                 /\ \A n \in DOMAIN processes'[p].ins :
                      processes'[p].ins[n] \in DOMAIN spaces'
      BY <1>1, <1>3 DEF IInv, ProcOK, Writes, AccsOf, declVars
    <2>2. /\ k \in DOMAIN kernelMap'
          /\ Writes(np)' = iterMap[kernelMap[k].iter]
          /\ AccsOf(np)' = kernelMap[k].accs
      BY <1>1 DEF RunKernel, Writes, AccsOf, declVars
    <2>3. kernelMap[k].accs \in Seq(Accessor)
      BY PartialFcnApply, CtorType DEF IInv, TypeOK, RunKernel
    <2>4. Len(processes'[np].ins) <= Len(AccsOf(np)')
      BY <1>1, <2>2, <2>3
    <2> QED
      BY <1>1, <1>3, <2>1, <2>2, <2>4 DEF ProcOK
  <1>7. SrcOK'
    BY <1>1, <1>3, <1>4 DEF IInv, SrcOK
  <1>8. OutputsOrdered'
    <2>1. ASSUME NEW p \in DOMAIN processes', NEW q \in DOMAIN processes', p < q
          PROVE  processes'[p].out < processes'[q].out
      <3>1. p \in DOMAIN processes
        BY <1>3, <2>1
      <3>2. CASE q \in DOMAIN processes
        BY <1>1, <2>1, <3>1, <3>2 DEF IInv, OutputsOrdered
      <3>3. CASE q = np
        BY <1>1, <1>3, <1>4, <3>1, <3>3
      <3> QED
        BY <1>3, <3>2, <3>3
    <2> QED
      BY <2>1 DEF OutputsOrdered
  <1>9. InputIsFirst'
    BY <1>1, <1>3 DEF IInv, InputIsFirst
  <1>10. LinkOK'
    <2>1. AccsOf(np)' = kernelMap[k].accs /\ processes'[np].ins = << >>
      BY <1>1 DEF AccsOf, declVars
    <2>2. kernelMap[k].accs \in Seq(Accessor)
      BY PartialFcnApply, CtorType DEF IInv, TypeOK, RunKernel
    <2>3. link' # 0 => link' = 1 /\ kernelMap[k].accs # << >>
      BY DEF RunKernel
    <2> QED
      BY <1>1, <1>3, <2>1, <2>2, <2>3 DEF LinkOK
  <1>11. ReadsLatestWrite'
    <2>1. processes'[np].ins = << >>
      BY <1>1
    <2>2. ASSUME NEW p \in DOMAIN processes, NEW n \in DOMAIN processes'[p].ins,
                 (Reads(p, n) # Writes(p))'
          PROVE  FedByLastWriter(p, n)'
      BY <1>1, <1>2, <2>2, ReadsKept DEF IInv
    <2> QED
      BY <1>3, <2>1, <2>2 DEF ReadsLatestWrite
  <1> QED
    BY <1>1, <1>5, <1>6, <1>7, <1>8, <1>9, <1>10, <1>11 DEF IInv

(* Accessor link of the process p that is being linked gets space s of sp, *)
(* which is spaces, or spaces with the first space of an image added.      *)
LinksTo(sp, s, p) ==
  /\ p = Len(processes)
  /\ sp \in Seq(SpaceRec)
  /\ s \in DOMAIN sp
  /\ Len(spaces) <= Len(sp)
  /\ \A t \in DOMAIN spaces : sp[t] = spaces[t]
  /\ \A t \in DOMAIN sp \ DOMAIN spaces :
       /\ t = s
       /\ sp[t].src = 0
       /\ sp[t].dst = << >>
       /\ \A u \in DOMAIN sp : u < t => sp[u].image # sp[t].image
  /\ sp[s].image = Reads(p, link)
  /\ Reads(p, link) # Writes(p) =>
       IsLastWriter(sp[s].src, Reads(p, link), p - 1)

(* What a link step does, in the terms the invariant speaks of.            *)
LEMMA LinkStep ==
  ASSUME IInv, link # 0, NEW sp, NEW s, NEW p, LinksTo(sp, s, p), Connect(sp, s)
  PROVE  /\ TypeOK'
         /\ UNCHANGED declVars
         /\ p \in DOMAIN processes
         /\ p \in Nat /\ p # 0
         /\ Len(processes) = p
         /\ DOMAIN processes = 1..p
         /\ DOMAIN processes' = DOMAIN processes
         /\ Len(processes') = p
         /\ DOMAIN spaces' = DOMAIN sp
         /\ DOMAIN spaces \subseteq DOMAIN sp
         /\ Len(spaces) <= Len(spaces')
         /\ \A t \in DOMAIN sp : /\ spaces'[t].image = sp[t].image
                                 /\ spaces'[t].src = sp[t].src
         /\ \A q \in DOMAIN processes :
              /\ q # p => processes'[q] = processes[q]
              /\ processes'[q].kernel = processes[q].kernel
              /\ processes'[q].out = processes[q].out
         /\ processes[p].ins \in Seq(Nat)
         /\ s \in Nat
         /\ processes'[p].ins = Append(processes[p].ins, s)
         /\ link = Len(processes[p].ins) + 1
         /\ link <= Len(AccsOf(p))
  <1>1. TypeOK /\ LinkOK
    BY DEF IInv
  <1>2. /\ p = Len(processes) /\ p # 0
        /\ link = Len(processes[p].ins) + 1
        /\ link <= Len(AccsOf(p))
    BY <1>1 DEF LinkOK, LinksTo
  <1>3. /\ p \in Nat /\ DOMAIN processes = 1..p /\ p \in DOMAIN processes
        /\ Len(spaces) \in Nat /\ DOMAIN spaces = 1..Len(spaces)
    BY <1>1, <1>2, ProcessCount
  <1>4. /\ sp \in Seq(SpaceRec) /\ s \in DOMAIN sp /\ s \in Nat
        /\ Len(sp) \in Nat /\ DOMAIN sp = 1..Len(sp)
        /\ Len(spaces) <= Len(sp)
    BY DEF LinksTo
  <1>5. /\ TypeOK'
        /\ UNCHANGED declVars
        /\ Len(processes') = p
        /\ Len(spaces') = Len(sp)
        /\ \A t \in DOMAIN sp : /\ spaces'[t].image = sp[t].image
                                /\ spaces'[t].src = sp[t].src
        /\ \A q \in DOMAIN processes : q # p => processes'[q] = processes[q]
        /\ processes'[p].kernel = processes[p].kernel
        /\ processes'[p].out = processes[p].out
        /\ processes'[p].ins = Append(processes[p].ins, s)
    BY <1>1, <1>2, <1>4, ConnectStep
  <1>6. DOMAIN processes' = 1..Len(processes') /\ DOMAIN spaces' = 1..Len(spaces')
    BY <1>5 DEF TypeOK
  <1>7. processes[p].ins \in Seq(Nat)
    BY <1>1, <1>3, ProcessType DEF ProcessRec
  <1> QED
    BY <1>2, <1>3, <1>4, <1>5, <1>6, <1>7

LEMMA LinkGrows ==
  ASSUME IInv, link # 0, NEW sp, NEW s, NEW p, LinksTo(sp, s, p), Connect(sp, s)
  PROVE  GraphGrows
  <1>1. ASSUME NEW q \in DOMAIN processes
        PROVE  SameProcess(q)
    <2>1. /\ processes'[q].kernel = processes[q].kernel
          /\ processes'[q].out = processes[q].out
          /\ UNCHANGED declVars
      BY LinkStep
    <2>2. /\ Writes(q)' = Writes(q)
          /\ AccsOf(q)' = AccsOf(q)
          /\ \A n \in DOMAIN processes[q].ins : Reads(q, n)' = Reads(q, n)
      BY <2>1 DEF Writes, Reads, AccsOf, declVars
    <2>3. processes[q].ins \in Seq(Nat)
      BY ProcessType DEF ProcessRec, IInv
    <2>4. /\ Len(processes[q].ins) <= Len(processes'[q].ins)
          /\ \A n \in DOMAIN processes[q].ins :
               processes'[q].ins[n] = processes[q].ins[n]
      <3>1. CASE q = p
        <4>1. s \in Nat /\ processes'[q].ins = Append(processes[q].ins, s)
          BY <3>1, LinkStep
        <4> QED
          BY <2>3, <4>1
      <3>2. CASE q # p
        BY <2>3, <3>2, LinkStep
      <3> QED
        BY <3>1, <3>2
    <2> QED
      BY <2>1, <2>2, <2>4 DEF SameProcess
  <1>2. ASSUME NEW t \in DOMAIN spaces
        PROVE  SameSpace(t)
    <2>1. sp[t] = spaces[t]
      BY DEF LinksTo
    <2>2. t \in DOMAIN sp
      BY LinkStep
    <2>3. spaces'[t].image = sp[t].image /\ spaces'[t].src = sp[t].src
      BY <2>2, LinkStep
    <2> QED
      BY <2>1, <2>3 DEF SameSpace
  <1> QED
    BY <1>1, <1>2, LinkStep DEF GraphGrows

LEMMA LinkKeeps ==
  ASSUME IInv, link # 0, NEW sp, NEW s, NEW p, LinksTo(sp, s, p), Connect(sp, s)
  PROVE  IInv'
  <1>1. /\ TypeOK'
        /\ GraphGrows
        /\ UNCHANGED declVars
    BY LinkStep, LinkGrows
  <1>2. /\ p \in DOMAIN processes /\ p \in Nat /\ p # 0
        /\ DOMAIN processes = 1..p
        /\ DOMAIN processes' = DOMAIN processes
        /\ Len(processes) = p /\ Len(processes') = p
        /\ DOMAIN spaces' = DOMAIN sp
        /\ DOMAIN spaces \subseteq DOMAIN sp
    BY LinkStep
  <1>3. \A t \in DOMAIN spaces : /\ spaces'[t].image = spaces[t].image
                                /\ spaces'[t].src = spaces[t].src
    BY <1>1 DEF GraphGrows, SameSpace
  <1>4. \A t \in DOMAIN spaces' : /\ spaces'[t].image = sp[t].image
                                 /\ spaces'[t].src = sp[t].src
    BY <1>2, LinkStep
  <1>5. \A q \in DOMAIN processes : /\ processes'[q].kernel = processes[q].kernel
                                   /\ processes'[q].out = processes[q].out
                                   /\ Writes(q)' = Writes(q)
                                   /\ AccsOf(q)' = AccsOf(q)
    BY <1>1 DEF GraphGrows, SameProcess
  <1>6. /\ processes[p].ins \in Seq(Nat) /\ s \in Nat
        /\ processes'[p].ins = Append(processes[p].ins, s)
        /\ link = Len(processes[p].ins) + 1
        /\ link <= Len(AccsOf(p))
    BY LinkStep
  <1>7. /\ Len(processes'[p].ins) = link
        /\ DOMAIN processes'[p].ins = DOMAIN processes[p].ins \cup {link}
        /\ processes'[p].ins[link] = s
        /\ \A n \in DOMAIN processes[p].ins :
             processes'[p].ins[n] = processes[p].ins[n]
    <2> DEFINE old == processes[p].ins
    <2>1. /\ Len(Append(old, s)) = Len(old) + 1
          /\ DOMAIN Append(old, s) = DOMAIN old \cup {Len(old) + 1}
          /\ Append(old, s)[Len(old) + 1] = s
          /\ \A n \in DOMAIN old : Append(old, s)[n] = old[n]
      <3> HIDE DEF old
      <3>1. old \in Seq(Nat) /\ s \in Nat
        BY <1>6 DEF old
      <3> QED
        BY <3>1, AppendOne
    <2> QED
      BY <1>6, <2>1, Zenon
  <1>8. DeclOK'
    BY <1>1 DEF IInv, DeclOK, declVars
  <1>9. ProcOK'
    <2>1. ASSUME NEW q \in DOMAIN processes
          PROVE  /\ processes'[q].kernel \in DOMAIN kernelMap'
                 /\ processes'[q].out \in DOMAIN spaces'
                 /\ spaces'[processes'[q].out].src = q
                 /\ spaces'[processes'[q].out].image = Writes(q)'
      BY <1>1, <1>2, <1>3, <1>5 DEF IInv, ProcOK, declVars
    <2>2. ASSUME NEW q \in DOMAIN processes
          PROVE  /\ Len(processes'[q].ins) <= Len(AccsOf(q)')
                 /\ \A n \in DOMAIN processes'[q].ins :
                      processes'[q].ins[n] \in DOMAIN spaces'
      <3>1. CASE q = p
        <4>1. s \in DOMAIN sp
          BY DEF LinksTo
        <4> QED
          BY <1>2, <1>5, <1>6, <1>7, <3>1, <4>1 DEF IInv, ProcOK
      <3>2. CASE q # p
        <4>1. processes'[q] = processes[q]
          BY <3>2, LinkStep
        <4> QED
          BY <1>2, <1>5, <4>1 DEF IInv, ProcOK
      <3> QED
        BY <3>1, <3>2
    <2> QED
      BY <1>2, <2>1, <2>2 DEF ProcOK
  <1>10. SrcOK'
    <2>1. ASSUME NEW t \in DOMAIN spaces', spaces'[t].src # 0
          PROVE  t \in DOMAIN spaces
      BY <1>2, <1>4, <2>1 DEF LinksTo
    <2> QED
      BY <1>2, <1>3, <1>5, <2>1 DEF IInv, SrcOK
  <1>11. OutputsOrdered'
    BY <1>2, <1>5 DEF IInv, OutputsOrdered
  <1>12. InputIsFirst'
    <2>1. ASSUME NEW t \in DOMAIN spaces', NEW u \in DOMAIN spaces',
                 spaces'[t].src = 0, u < t
          PROVE  spaces'[u].image # spaces'[t].image
      <3>1. CASE t \in DOMAIN spaces
        <4>1. u \in DOMAIN spaces
          BY <1>2, <2>1, <3>1, ProcessCount DEF LinksTo, IInv
        <4> QED
          BY <1>3, <2>1, <3>1, <4>1 DEF IInv, InputIsFirst
      <3>2. CASE t \notin DOMAIN spaces
        BY <1>2, <1>4, <2>1, <3>2 DEF LinksTo
      <3> QED
        BY <3>1, <3>2
    <2> QED
      BY <2>1 DEF InputIsFirst
  <1>13. LinkOK'
    <2>1. link' # 0 => link' = link + 1 /\ link < Len(AccsOf(p))
      BY <1>2 DEF Connect
    <2>2. AccsOf(p)' = AccsOf(p)
      BY <1>2, <1>5
    <2>3. Len(AccsOf(p)) \in Nat /\ link \in Nat
      <3>1. kernelMap[processes[p].kernel] \in Ctor
        BY <1>2, PartialFcnApply DEF IInv, TypeOK, ProcOK
      <3> QED
        BY <3>1, CtorType DEF AccsOf, IInv, TypeOK
    <2> QED
      BY <1>2, <1>7, <2>1, <2>2, <2>3 DEF LinkOK
  <1>14. ReadsLatestWrite'
    <2>1. ASSUME NEW q \in DOMAIN processes, NEW n \in DOMAIN processes[q].ins,
                 (Reads(q, n) # Writes(q))'
          PROVE  FedByLastWriter(q, n)'
      BY <1>1, <2>1, ReadsKept DEF IInv
    <2>2. \A q \in DOMAIN processes :
            q # p => DOMAIN processes'[q].ins = DOMAIN processes[q].ins
      BY LinkStep
    <2>3. PICK m, i, w : m = link /\ i = Reads(p, link) /\ w = sp[s].src
      OBVIOUS
    <2>4. ASSUME (Reads(p, m) # Writes(p))'
          PROVE  FedByLastWriter(p, m)'
      <3>1. Reads(p, m)' = i
        BY <1>1, <1>2, <1>5, <2>3 DEF Reads, declVars
      <3>2. i # Writes(p)
        BY <1>2, <1>5, <2>4, <3>1
      <3>3. IsLastWriter(w, i, p - 1)
        BY <2>3, <3>2 DEF LinksTo
      <3>4. IsLastWriter(w, i, p - 1)'
        BY <1>1, <1>2, <3>3, LastWriterKept DEF IInv
      <3>5. /\ processes'[p].ins[m] = s
            /\ spaces'[s].src = w
            /\ spaces'[s].image = i
        BY <1>2, <1>4, <1>6, <1>7, <2>3 DEF LinksTo
      <3>6. IsLastWriter(spaces[processes[p].ins[m]].src, Reads(p, m), p - 1)'
        BY <3>1, <3>4, <3>5 DEF IsLastWriter
      <3> QED
        BY <3>1, <3>5, <3>6 DEF FedByLastWriter
    <2> QED
      BY <1>2, <1>7, <2>1, <2>2, <2>3, <2>4 DEF ReadsLatestWrite
  <1> QED
    BY <1>1, <1>8, <1>9, <1>10, <1>11, <1>12, <1>13, <1>14 DEF IInv

(* The two outcomes of the search are link steps.                          *)
LEMMA YoungestLinks ==
  ASSUME IInv, LinkYoungestSpace
  PROVE  \E s, p : LinksTo(spaces, s, p) /\ Connect(spaces, s)
  <1>1. PICK p, i : p = Len(processes) /\ i = Reads(p, link)
    OBVIOUS
  <1>2. PICK s \in Holding(i) : /\ \A t \in Holding(i) : t <= s
                              /\ Connect(spaces, s)
    BY <1>1 DEF LinkYoungestSpace
  <1>3. /\ p # 0 /\ spaces \in Seq(SpaceRec) /\ Len(spaces) \in Nat
        /\ s \in DOMAIN spaces /\ spaces[s].image = i
    BY <1>1, <1>2 DEF IInv, TypeOK, LinkOK, LinkYoungestSpace, Holding
  <1>4. Writes(p) # i => IsLastWriter(spaces[s].src, i, p - 1)
    BY <1>1, <1>2, <1>3, YoungestIsCurrent DEF IInv
  <1>5. LinksTo(spaces, s, p)
    BY <1>1, <1>3, <1>4 DEF LinksTo
  <1> QED
    BY <1>2, <1>5

LEMMA NewInputLinks ==
  ASSUME IInv, LinkNewInput
  PROVE  \E sp, s, p : LinksTo(sp, s, p) /\ Connect(sp, s)
  <1>1. PICK p, i : p = Len(processes) /\ i = Reads(p, link)
    OBVIOUS
  <1>2. PICK r : r = [image |-> i, src |-> 0, dst |-> << >>]
    OBVIOUS
  <1>3. PICK s, sp : s = Len(spaces) + 1 /\ sp = Append(spaces, r)
    OBVIOUS
  <1>4. Connect(sp, s) /\ Holding(i) = {} /\ link # 0
    BY <1>1, <1>2, <1>3 DEF LinkNewInput
  <1>5. /\ p # 0 /\ p \in DOMAIN processes /\ p \in Nat
        /\ link \in DOMAIN AccsOf(p)
        /\ processes[p].kernel \in DOMAIN kernelMap
    <2>1. /\ p \in Nat /\ p # 0 /\ p \in DOMAIN processes
          /\ link \in Nat /\ link # 0 /\ link <= Len(AccsOf(p))
      BY <1>1, <1>4, ProcessCount DEF IInv, LinkOK, TypeOK
    <2>2. processes[p].kernel \in DOMAIN kernelMap
      BY <2>1 DEF IInv, ProcOK
    <2>3. kernelMap[processes[p].kernel] \in Ctor
      BY <2>2, PartialFcnApply DEF IInv, TypeOK
    <2>4. AccsOf(p) \in Seq(Accessor)
      BY <2>3, CtorType DEF AccsOf
    <2> QED
      BY <2>1, <2>2, <2>4
  <1>6. i \in Image
    <2>1. AccsOf(p)[link] \in DOMAIN accMap
      BY <1>5 DEF IInv, DeclOK, AccsOf
    <2>2. accMap[AccsOf(p)[link]] \in imgMap
      BY <2>1, PartialFcnApply DEF IInv, TypeOK
    <2> QED
      BY <1>1, <2>2 DEF IInv, TypeOK, Reads
  <1>7. r \in SpaceRec
    BY <1>2, <1>6 DEF SpaceRec
  <1>8. /\ spaces \in Seq(SpaceRec) /\ Len(spaces) \in Nat
        /\ DOMAIN spaces = 1..Len(spaces)
    BY ProcessCount DEF IInv, TypeOK
  <1>9. /\ sp \in Seq(SpaceRec)
        /\ Len(sp) = s
        /\ DOMAIN sp = DOMAIN spaces \cup {s}
        /\ sp[s] = r
        /\ \A t \in DOMAIN spaces : sp[t] = spaces[t]
    BY <1>3, <1>7, <1>8, AppendOne
  <1>10. sp[s].image = i /\ sp[s].src = 0 /\ sp[s].dst = << >>
    BY <1>2, <1>9
  <1>11. \A t \in DOMAIN spaces : spaces[t].image # i
    BY <1>4 DEF Holding
  <1>12. IsLastWriter(0, i, p - 1)
    BY <1>1, <1>4, <1>5, NoSpaceNoWriter DEF IInv
  <1>13. \A t \in DOMAIN sp \ DOMAIN spaces :
           /\ t = s
           /\ sp[t].src = 0
           /\ sp[t].dst = << >>
           /\ \A u \in DOMAIN sp : u < t => sp[u].image # sp[t].image
    BY <1>3, <1>8, <1>9, <1>10, <1>11
  <1>14. LinksTo(sp, s, p)
    BY <1>1, <1>3, <1>8, <1>9, <1>10, <1>12, <1>13 DEF LinksTo
  <1> QED
    BY <1>4, <1>14

LEMMA InitHolds ==
  ASSUME Init
  PROVE  IInv
  <1>1. TypeOK
    <2>1. /\ << >> \in PartialFcn(BoundaryCondition, imgMap)
          /\ << >> \in PartialFcn(Accessor, imgMap)
          /\ << >> \in PartialFcn(IterationSpace, imgMap)
          /\ << >> \in PartialFcn(Kernel, Ctor)
      BY EmptyPartialFcn
    <2> QED
      BY <2>1 DEF Init, TypeOK
  <1> QED
    BY <1>1 DEF Init, IInv, DeclOK, ProcOK, SrcOK, OutputsOrdered,
       InputIsFirst, LinkOK, ReadsLatestWrite

LEMMA NextKeeps ==
  ASSUME IInv, Next
  PROVE  IInv' /\ GraphGrows
  <1>1. CASE Declare
    BY <1>1, DeclareKeeps
  <1>2. ASSUME NEW k \in Kernel, RunKernel(k)
        PROVE  IInv' /\ GraphGrows
    BY <1>2, RunKernelKeeps, RunKernelGrows
  <1>3. CASE LinkYoungestSpace
    <2>1. link # 0
      BY <1>3 DEF LinkYoungestSpace
    <2> QED
      BY <1>3, <2>1, YoungestLinks, LinkKeeps, LinkGrows
  <1>4. CASE LinkNewInput
    <2>1. link # 0
      BY <1>4 DEF LinkNewInput
    <2> QED
      BY <1>4, <2>1, NewInputLinks, LinkKeeps, LinkGrows
  <1> QED
    BY <1>1, <1>2, <1>3, <1>4 DEF Next, Execute

LEMMA StutterKeeps ==
  ASSUME IInv, UNCHANGED hostVars
  PROVE  IInv'
  <1>1. UNCHANGED <<imgMap, bcMap, accMap, iterMap, kernelMap>>
    BY DEF hostVars, declVars
  <1>2. UNCHANGED <<spaces, processes, link>>
    BY DEF hostVars, graphVars
  <1>3. TypeOK'
    BY <1>1, <1>2 DEF IInv, TypeOK
  <1>4. DeclOK'
    BY <1>1 DEF IInv, DeclOK
  <1>5. ProcOK' /\ SrcOK' /\ OutputsOrdered' /\ InputIsFirst'
    BY <1>1, <1>2 DEF IInv, ProcOK, SrcOK, OutputsOrdered, InputIsFirst,
       Writes, AccsOf
  <1>6. LinkOK'
    BY <1>1, <1>2 DEF IInv, LinkOK, AccsOf
  <1>7. ReadsLatestWrite'
    <2>1. Len(processes) \in Nat /\ Len(spaces) \in Nat
      BY ProcessCount DEF IInv
    <2>2. ASSUME NEW p \in DOMAIN processes
          PROVE  SameProcess(p)
      <3>1. processes[p].ins \in Seq(Nat)
        BY ProcessType DEF IInv, ProcessRec
      <3> QED
        BY <1>1, <1>2, <3>1 DEF SameProcess, Reads, Writes, AccsOf
    <2>3. GraphGrows
      BY <1>2, <2>1, <2>2 DEF GraphGrows, SameSpace
    <2> QED
      BY <1>2, <2>3, ReadsKept DEF IInv, ReadsLatestWrite
  <1> QED
    BY <1>3, <1>4, <1>5, <1>6, <1>7 DEF IInv

(* No step touches an execution already recorded.                          *)
LEMMA RecordedKept ==
  ASSUME IInv, Next
  PROVE  \A p \in 1..Recorded : processes'[p] = processes[p]
  <1> DEFINE KeepsRecorded == \A p \in 1..Recorded : processes'[p] = processes[p]
  <1>1. CASE Declare
    BY <1>1, DeclareGrowsMaps DEF IInv, graphVars
  <1>2. ASSUME NEW k \in Kernel, RunKernel(k)
        PROVE  KeepsRecorded
    <2>1. Recorded = Len(processes)
      BY <1>2 DEF RunKernel, Recorded
    <2>2. \A p \in DOMAIN processes : processes'[p] = processes[p]
      BY <1>2, RunKernelStep DEF IInv
    <2>3. 1..Recorded = DOMAIN processes
      BY <2>1, ProcessCount DEF IInv
    <2> QED
      BY <2>2, <2>3
  <1>3. CASE LinkYoungestSpace \/ LinkNewInput
    <2>1. link # 0
      BY <1>3 DEF LinkYoungestSpace, LinkNewInput
    <2>2. PICK sp, s, p : LinksTo(sp, s, p) /\ Connect(sp, s)
      BY <1>3, YoungestLinks, NewInputLinks
    <2>3. /\ p \in Nat /\ Len(processes) = p /\ DOMAIN processes = 1..p
          /\ \A q \in DOMAIN processes : q # p => processes'[q] = processes[q]
      BY <2>1, <2>2, LinkStep
    <2>4. Recorded = p - 1
      BY <2>1, <2>3 DEF Recorded
    <2> QED
      BY <2>3, <2>4
  <1> QED
    BY <1>1, <1>2, <1>3 DEF Next, Execute

-----------------------------------------------------------------------------
(* The graph invariant holds of every host program.                        *)
THEOREM Invariant == Spec => []IInv
  <1>1. Init => IInv
    BY InitHolds
  <1>2. IInv /\ [Next]_hostVars => IInv'
    BY NextKeeps, StutterKeeps
  <1> QED
    BY <1>1, <1>2, PTL DEF Spec

(* The maps of the analysis bind declared names to declared names, and the *)
(* graph is made of spaces and processes.                                  *)
THEOREM TypeCorrect == Spec => []TypeOK
  <1>1. IInv => TypeOK
    BY DEF IInv
  <1> QED
    BY <1>1, Invariant, PTL

(* Whatever the program, each accessor that does not read the image its    *)
(* kernel writes is wired to the last earlier execution that wrote the     *)
(* accessor's image, or to the host's input if there is none: the search   *)
(* of runKernel over spaces_ is right.                                     *)
THEOREM WiringIsSequential == Spec => []ReadsLatestWrite
  <1>1. IInv => ReadsLatestWrite
    BY DEF IInv
  <1> QED
    BY <1>1, Invariant, PTL

(* The lookup of an input stream by image (getInputStream) is unambiguous. *)
THEOREM OneInput == Spec => []OneInputPerImage
  <1>1. ASSUME IInv, NEW s \in DOMAIN spaces, NEW t \in DOMAIN spaces,
               IsInput(s), IsInput(t), spaces[s].image = spaces[t].image
        PROVE  s = t
    <2>1. s \in Nat /\ t \in Nat
      BY <1>1, ProcessCount DEF IInv
    <2>2. ~(s < t) /\ ~(t < s)
      BY <1>1 DEF IInv, InputIsFirst, IsInput
    <2> QED
      BY <2>1, <2>2
  <1>2. IInv => OneInputPerImage
    BY <1>1 DEF OneInputPerImage
  <1> QED
    BY <1>2, Invariant, PTL

(* Once a statement is recorded, no later statement rewires it.            *)
THEOREM RecordedStays == Spec => NeverRewired
  <1> DEFINE KeepsSpaces == \A s \in DOMAIN spaces :
                              /\ s \in DOMAIN spaces'
                              /\ spaces'[s].image = spaces[s].image
                              /\ spaces'[s].src = spaces[s].src
             KeepsRecorded == \A p \in 1..Recorded : processes'[p] = processes[p]
  <1>1. ASSUME IInv, Next
        PROVE  KeepsSpaces
    <2>1. GraphGrows /\ TypeOK /\ TypeOK'
      BY <1>1, NextKeeps DEF IInv
    <2>2. \A s \in DOMAIN spaces : s \in DOMAIN spaces'
      BY <2>1 DEF GraphGrows, TypeOK
    <2> QED
      BY <2>1, <2>2 DEF GraphGrows, SameSpace
  <1>2. ASSUME IInv, Next
        PROVE  KeepsRecorded
    BY <1>2, RecordedKept
  <1>3. ASSUME UNCHANGED hostVars
        PROVE  KeepsSpaces /\ KeepsRecorded
    BY <1>3 DEF hostVars, graphVars
  <1>4. IInv /\ [Next]_hostVars => [KeepsSpaces /\ KeepsRecorded]_hostVars
    BY <1>1, <1>2, <1>3
  <1> QED
    BY <1>4, Invariant, PTL DEF Spec, NeverRewired

-----------------------------------------------------------------------------
(* The refinement: every step of HostDataDeps is a step of HostProgram or  *)
(* leaves its variables alone.                                             *)

(* Every image has a last writer, at any point of the program.  There is   *)
(* no induction over the executions: the program is followed step by step. *)
WriterExists ==
  \A n \in 0..Len(processes) : \A i \in Image :
    \E w \in 0..n : IsLastWriter(w, i, n)

(* The variables of HostProgram, as HostDataDeps substitutes them.         *)
Execution(p) ==
  [image |-> Writes(p),
   reads |-> [n \in DOMAIN processes[p].ins |-> ValueRead(p, n)]]
ContentsSoFar  == [i \in Image |-> LastWriter(i, Recorded)]
RunsSoFar == [p \in 1..Recorded |-> Execution(p)]

-----------------------------------------------------------------------------
(* There is one last writer only, now and after a step.                    *)
LEMMA LastWriterIs ==
  ASSUME NEW n \in Nat, NEW i, NEW w, IsLastWriter(w, i, n)
  PROVE  LastWriter(i, n) = w
  <1>1. \E v \in 0..n : IsLastWriter(v, i, n)
    BY DEF IsLastWriter
  <1>2. PICK v : v = LastWriter(i, n)
    OBVIOUS
  <1>3. v \in 0..n /\ IsLastWriter(v, i, n)
    BY <1>1, <1>2 DEF LastWriter
  <1> QED
    BY <1>2, <1>3 DEF IsLastWriter

LEMMA NextLastWriterIs ==
  ASSUME NEW n \in Nat, NEW i, NEW w, IsLastWriter(w, i, n)'
  PROVE  LastWriter(i, n)' = w
  <1>1. \E v \in 0..n : IsLastWriter(v, i, n)'
    BY DEF IsLastWriter
  <1>2. PICK v : v = LastWriter(i, n)'
    OBVIOUS
  <1>3. v \in 0..n /\ IsLastWriter(v, i, n)'
    BY <1>1, <1>2 DEF LastWriter
  <1> QED
    BY <1>2, <1>3 DEF IsLastWriter

LEMMA LastWriterStays ==
  ASSUME IInv, WriterExists, GraphGrows, NEW n \in 0..Len(processes),
         NEW i \in Image
  PROVE  LastWriter(i, n)' = LastWriter(i, n)
  <1>1. PICK w \in 0..n : IsLastWriter(w, i, n)
    BY DEF WriterExists
  <1>2. n \in Nat /\ n <= Len(processes)
    BY ProcessCount DEF IInv
  <1>3. LastWriter(i, n) = w
    BY <1>1, <1>2, LastWriterIs
  <1>4. IsLastWriter(w, i, n)'
    BY <1>1, <1>2, LastWriterKept DEF IInv
  <1> QED
    BY <1>2, <1>3, <1>4, NextLastWriterIs

-----------------------------------------------------------------------------
(* Steps record at most one execution.                                     *)
LEMMA StepRecords ==
  ASSUME IInv, Next
  PROVE  /\ Recorded \in 0..Len(processes)
         /\ Recorded' \in {Recorded, Recorded + 1}
         /\ Recorded' \in 0..Len(processes')
         /\ Len(processes') \in {Len(processes), Len(processes) + 1}
  <1>1. /\ Len(processes) \in Nat
        /\ link # 0 => Len(processes) # 0
    BY ProcessCount DEF IInv, LinkOK
  <1>2. Recorded \in 0..Len(processes)
    BY <1>1 DEF Recorded
  <1>3. CASE Declare
    <2>1. UNCHANGED <<processes, link>>
      BY <1>3, DeclareGrowsMaps DEF IInv, graphVars
    <2> QED
      BY <1>1, <1>2, <2>1 DEF Recorded
  <1>4. ASSUME NEW k \in Kernel, RunKernel(k)
        PROVE  /\ Recorded' \in {Recorded, Recorded + 1}
               /\ Recorded' \in 0..Len(processes')
               /\ Len(processes') = Len(processes) + 1
    <2>1. Len(processes') = Len(processes) + 1
      BY <1>4, RunKernelStep DEF IInv
    <2>2. link = 0 /\ link' \in {0, 1}
      BY <1>4 DEF RunKernel
    <2> QED
      BY <1>1, <2>1, <2>2 DEF Recorded
  <1>5. CASE LinkYoungestSpace \/ LinkNewInput
    <2>1. link # 0
      BY <1>5 DEF LinkYoungestSpace, LinkNewInput
    <2>2. PICK sp, s, p : LinksTo(sp, s, p) /\ Connect(sp, s)
      BY <1>5, YoungestLinks, NewInputLinks
    <2>3. Len(processes) = p /\ Len(processes') = p /\ p \in Nat /\ p # 0
      BY <2>1, <2>2, LinkStep
    <2> QED
      BY <1>2, <2>1, <2>3 DEF Recorded
  <1> QED
    BY <1>1, <1>2, <1>3, <1>4, <1>5 DEF Next, Execute

LEMMA WriterExistsKept ==
  ASSUME IInv, WriterExists, Next
  PROVE  WriterExists'
  <1>1. PICK m : m = Len(processes)
    OBVIOUS
  <1>2. /\ GraphGrows /\ TypeOK
        /\ m \in Nat
        /\ Len(processes') \in {m, m + 1}
    BY <1>1, NextKeeps, StepRecords, ProcessCount DEF IInv
  <1>3. ASSUME NEW n \in 0..m, NEW i \in Image
        PROVE  \E w \in 0..n : IsLastWriter(w, i, n)'
    <2>1. PICK w \in 0..n : IsLastWriter(w, i, n)
      BY <1>1 DEF WriterExists
    <2>2. n \in Nat /\ n <= Len(processes)
      BY <1>1, <1>2
    <2>3. IsLastWriter(w, i, n)'
      BY <1>2, <2>1, <2>2, LastWriterKept
    <2> QED
      BY <2>3
  <1>4. ASSUME NEW i \in Image
        PROVE  \E w \in 0..(m + 1) : IsLastWriter(w, i, m + 1)'
    <2>1. PICK w \in 0..m : IsLastWriter(w, i, m)'
      BY <1>2, <1>3
    <2>2. CASE Writes(m + 1)' = i
      <3>1. IsLastWriter(m + 1, i, m + 1)'
        BY <1>2, <2>2 DEF IsLastWriter
      <3> QED
        BY <1>2, <3>1
    <2>3. CASE Writes(m + 1)' # i
      <3>1. IsLastWriter(w, i, m + 1)'
        <4>1. /\ w # 0 => Writes(w)' = i
              /\ \A q \in (w + 1)..m : Writes(q)' # i
          BY <2>1 DEF IsLastWriter
        <4>2. ASSUME NEW q \in (w + 1)..(m + 1)
              PROVE  Writes(q)' # i
          BY <1>2, <2>3, <4>1
        <4> QED
          BY <1>2, <4>1, <4>2 DEF IsLastWriter
      <3> QED
        BY <1>2, <3>1
    <2> QED
      BY <2>2, <2>3
  <1>5. ASSUME NEW n \in 0..Len(processes'), NEW i \in Image
        PROVE  \E w \in 0..n : IsLastWriter(w, i, n)'
    BY <1>2, <1>3, <1>4
  <1> QED
    BY <1>5 DEF WriterExists

-----------------------------------------------------------------------------
(* A process writes an image and has the accessors of a constructor.       *)
LEMMA WrittenIsImage ==
  ASSUME TypeOK, DeclOK, ProcOK, NEW p \in DOMAIN processes
  PROVE  Writes(p) \in Image
  <1> DEFINE k == processes[p].kernel
  <1>1. k \in DOMAIN kernelMap
    BY DEF ProcOK
  <1>2. kernelMap[k].iter \in DOMAIN iterMap
    BY <1>1 DEF DeclOK
  <1>3. iterMap \in [DOMAIN iterMap -> imgMap] /\ imgMap \subseteq Image
    BY PartialFcnApply DEF TypeOK
  <1> QED
    BY <1>2, <1>3 DEF Writes

(* What the graph says of a recorded execution stays.                      *)
LEMMA ExecutionStays ==
  ASSUME IInv, WriterExists, Next, NEW p \in 1..Recorded
  PROVE  Execution(p)' = Execution(p)
  <1>1. /\ GraphGrows /\ TypeOK /\ ProcOK
        /\ Len(processes) \in Nat
        /\ DOMAIN processes = 1..Len(processes)
        /\ Recorded \in 0..Len(processes)
    BY NextKeeps, StepRecords, ProcessCount DEF IInv
  <1>2. p \in DOMAIN processes /\ p \in Nat /\ p - 1 \in 0..Len(processes)
    BY <1>1
  <1>3. processes'[p] = processes[p]
    BY RecordedKept
  <1>4. SameProcess(p)
    BY <1>1, <1>2 DEF GraphGrows
  <1>5. Writes(p)' = Writes(p)
    BY <1>4 DEF SameProcess
  <1>6. ASSUME NEW n \in DOMAIN processes[p].ins
        PROVE  ValueRead(p, n)' = ValueRead(p, n)
    <2>1. Reads(p, n)' = Reads(p, n)
      BY <1>4 DEF SameProcess
    <2>2. processes[p].ins[n] \in DOMAIN spaces
      BY <1>1, <1>2 DEF ProcOK
    <2>3. spaces'[processes[p].ins[n]].src = spaces[processes[p].ins[n]].src
      BY <1>1, <2>2 DEF GraphGrows, SameSpace
    <2>4. PICK i, m : i = Reads(p, n) /\ m = p - 1
      OBVIOUS
    <2>5. CASE Reads(p, n) = Writes(p)
      <3>1. i \in Image
        BY <1>1, <1>2, <2>4, <2>5, WrittenIsImage DEF IInv
      <3>2. LastWriter(i, m)' = LastWriter(i, m)
        BY <1>1, <1>2, <2>4, <3>1, LastWriterStays
      <3>3. ValueRead(p, n) = LastWriter(i, m)
        BY <2>4, <2>5 DEF ValueRead
      <3>4. ValueRead(p, n)' = LastWriter(i, m)'
        BY <1>5, <2>1, <2>4, <2>5 DEF ValueRead
      <3> QED
        BY <3>2, <3>3, <3>4
    <2>6. CASE Reads(p, n) # Writes(p)
      BY <1>3, <1>5, <2>1, <2>3, <2>6 DEF ValueRead
    <2> QED
      BY <2>5, <2>6
  <1> QED
    BY <1>3, <1>5, <1>6 DEF Execution

(* A step that completes no execution leaves the host program alone.       *)
LEMMA NothingRecorded ==
  ASSUME IInv, WriterExists, Next, Recorded' = Recorded
  PROVE  ContentsSoFar' = ContentsSoFar /\ RunsSoFar' = RunsSoFar
  <1>1. PICK m : m = Recorded
    OBVIOUS
  <1>2. GraphGrows /\ m \in 0..Len(processes)
    BY <1>1, NextKeeps, StepRecords
  <1>3. \A i \in Image : LastWriter(i, m)' = LastWriter(i, m)
    BY <1>2, LastWriterStays
  <1>4. Recorded = m /\ Recorded' = m
    BY <1>1
  <1>5. ContentsSoFar' = ContentsSoFar
    BY <1>3, <1>4 DEF ContentsSoFar
  <1>6. \A p \in 1..m : Execution(p)' = Execution(p)
    BY <1>4, ExecutionStays
  <1>7. RunsSoFar' = RunsSoFar
    BY <1>4, <1>6 DEF RunsSoFar
  <1> QED
    BY <1>5, <1>7

-----------------------------------------------------------------------------
(* What a process is made of after a step.                                 *)
LEMMA NextProcess ==
  ASSUME IInv', NEW p \in DOMAIN processes'
  PROVE  /\ p \in Nat
         /\ Writes(p)' \in Image
         /\ Len(processes'[p].ins) \in 0..MaxAccs
         /\ DOMAIN processes'[p].ins = 1..Len(processes'[p].ins)
         /\ \A n \in DOMAIN processes'[p].ins : Reads(p, n)' \in Image
  <1> DEFINE k == processes'[p].kernel
  <1>1. /\ processes' \in Seq(ProcessRec)
        /\ imgMap' \subseteq Image
        /\ accMap' \in PartialFcn(Accessor, imgMap')
        /\ iterMap' \in PartialFcn(IterationSpace, imgMap')
        /\ kernelMap' \in PartialFcn(Kernel, Ctor)
    BY DEF IInv, TypeOK
  <1>2. p \in Nat /\ processes'[p] \in ProcessRec
    BY <1>1, ElementType
  <1>3. processes'[p].ins \in Seq(Nat)
    BY <1>2 DEF ProcessRec
  <1>4. /\ k \in DOMAIN kernelMap'
        /\ Len(processes'[p].ins) <= Len(kernelMap'[k].accs)
    BY DEF IInv, ProcOK, AccsOf
  <1>5. /\ kernelMap'[k].iter \in DOMAIN iterMap'
        /\ \A n \in DOMAIN kernelMap'[k].accs :
             kernelMap'[k].accs[n] \in DOMAIN accMap'
    BY <1>4 DEF IInv, DeclOK
  <1>6. kernelMap'[k] \in Ctor
    BY <1>1, <1>4, PartialFcnApply
  <1>7. /\ kernelMap'[k].accs \in Seq(Accessor)
        /\ Len(kernelMap'[k].accs) <= MaxAccs
    BY <1>6, CtorType
  <1>8. accMap' \in [DOMAIN accMap' -> imgMap']
        /\ iterMap' \in [DOMAIN iterMap' -> imgMap']
    BY <1>1, PartialFcnApply
  <1>9. Writes(p)' \in Image
    BY <1>1, <1>5, <1>8 DEF Writes
  <1>10. /\ Len(processes'[p].ins) \in 0..MaxAccs
         /\ DOMAIN processes'[p].ins = 1..Len(processes'[p].ins)
         /\ DOMAIN processes'[p].ins \subseteq DOMAIN kernelMap'[k].accs
    BY <1>3, <1>4, <1>7, BoundsAreNat
  <1>11. \A n \in DOMAIN processes'[p].ins : Reads(p, n)' \in Image
    BY <1>1, <1>5, <1>8, <1>10 DEF Reads, AccsOf
  <1> QED
    BY <1>2, <1>9, <1>10, <1>11

(* The values an execution reads are those of a sequential run.            *)
LEMMA NextValueRead ==
  ASSUME IInv', NEW p \in DOMAIN processes', NEW n \in DOMAIN processes'[p].ins,
         NEW i, i = Reads(p, n)', NEW m \in Nat, m = p - 1
  PROVE  ValueRead(p, n)' = LastWriter(i, m)'
  <1>1. p \in Nat
    BY NextProcess
  <1>2. CASE Reads(p, n)' = Writes(p)'
    BY <1>2 DEF ValueRead
  <1>3. CASE Reads(p, n)' # Writes(p)'
    <2>1. PICK w : w = spaces'[processes'[p].ins[n]].src
      OBVIOUS
    <2>2. FedByLastWriter(p, n)'
      BY <1>3 DEF IInv, ReadsLatestWrite
    <2>3. IsLastWriter(w, i, m)'
      BY <2>1, <2>2 DEF FedByLastWriter, IsLastWriter
    <2>4. LastWriter(i, m)' = w
      BY <2>3, NextLastWriterIs
    <2> QED
      BY <1>3, <2>1, <2>4 DEF ValueRead
  <1> QED
    BY <1>2, <1>3

(* One more element makes a longer sequence.                               *)
LEMMA FunctionAppend ==
  ASSUME NEW m \in Nat, NEW f, DOMAIN f = 1..m, NEW e
  PROVE  Append([q \in 1..m |-> f[q]], e) =
           [q \in 1..(m + 1) |-> IF q = m + 1 THEN e ELSE f[q]]
  <1> DEFINE S == {f[q] : q \in 1..m} \cup {e}
             g == [q \in 1..m |-> f[q]]
  <1>1. g \in [1..m -> S]
    OBVIOUS
  <1>2. g \in Seq(S) /\ Len(g) = m /\ e \in S
    BY <1>1
  <1> HIDE DEF g, S
  <1>3. /\ Append(g, e) \in Seq(S)
        /\ Len(Append(g, e)) = m + 1
        /\ Append(g, e)[m + 1] = e
        /\ \A q \in 1..m : Append(g, e)[q] = g[q]
    BY <1>2
  <1>4. Append(g, e) = [q \in 1..(m + 1) |-> Append(g, e)[q]]
    <2>1. PICK a : a = Append(g, e)
      OBVIOUS
    <2>2. a \in [1..(m + 1) -> S]
      BY <1>3, <2>1, LenProperties
    <2>3. a = [q \in 1..(m + 1) |-> a[q]]
      BY <2>2
    <2> QED
      BY <2>1, <2>3
  <1>5. \A q \in 1..(m + 1) :
          Append(g, e)[q] = IF q = m + 1 THEN e ELSE f[q]
    BY <1>3 DEF g
  <1> QED
    BY <1>4, <1>5 DEF g

-----------------------------------------------------------------------------
(* A step that completes the record of an execution is an execution of the *)
(* host program.                                                           *)
LEMMA ExecutionRecorded ==
  ASSUME IInv, IInv', WriterExists, Next, Recorded' = Recorded + 1
  PROVE  Host!Next
  <1>1. PICK m, p : m = Recorded /\ p = m + 1
    OBVIOUS
  <1>2. /\ m \in Nat /\ m \in 0..Len(processes)
        /\ p \in Nat /\ p \in DOMAIN processes'
        /\ Recorded = m /\ Recorded' = p
    <2>1. DOMAIN processes' = 1..Len(processes') /\ Len(processes') \in Nat
      BY DEF IInv, TypeOK
    <2>2. m \in 0..Len(processes) /\ p \in 0..Len(processes')
      BY <1>1, StepRecords
    <2>3. Len(processes) \in Nat
      BY ProcessCount DEF IInv
    <2> QED
      BY <1>1, <2>1, <2>2, <2>3
  <1>3. PICK i, c : i = Writes(p)' /\ c = Len(processes'[p].ins)
    OBVIOUS
  <1>4. PICK rd : rd = [n \in 1..c |-> Reads(p, n)']
    OBVIOUS
  <1>5. /\ i \in Image
        /\ c \in 0..MaxAccs
        /\ DOMAIN processes'[p].ins = 1..c
        /\ rd \in [1..c -> Image]
        /\ DOMAIN rd = 1..c
    BY <1>2, <1>3, <1>4, NextProcess
  <1>6. GraphGrows
    BY NextKeeps
  <1>7. \A j \in Image : LastWriter(j, m)' = LastWriter(j, m)
    BY <1>2, <1>6, LastWriterStays
  (* What it read. *)
  <1>8. ASSUME NEW n \in 1..c
        PROVE  ValueRead(p, n)' = ContentsSoFar[rd[n]]
    <2>1. PICK j : j = rd[n]
      OBVIOUS
    <2>2. j \in Image /\ j = Reads(p, n)'
      BY <1>4, <1>5, <2>1
    <2>3. m = p - 1
      BY <1>1, <1>2
    <2>4. ValueRead(p, n)' = LastWriter(j, m)'
      BY <1>2, <1>5, <2>2, <2>3, NextValueRead
    <2>5. ContentsSoFar[j] = LastWriter(j, m)
      BY <1>2, <2>2 DEF ContentsSoFar
    <2> QED
      BY <1>7, <2>1, <2>2, <2>4, <2>5
  <1>9. Execution(p)' =
          [image |-> i, reads |-> [a \in DOMAIN rd |-> ContentsSoFar[rd[a]]]]
    BY <1>3, <1>5, <1>8 DEF Execution
  (* It is the next execution. *)
  <1>10. RunsSoFar' = Append(RunsSoFar, Execution(p)')
    <2>1. PICK f : f = RunsSoFar
      OBVIOUS
    <2>2. PICK e : e = Execution(p)'
      OBVIOUS
    <2>3. /\ DOMAIN f = 1..m
          /\ f = [q \in 1..m |-> f[q]]
          /\ \A q \in 1..m : f[q] = Execution(q)
      BY <1>2, <2>1 DEF RunsSoFar
    <2>4. Append(f, e) = [q \in 1..p |-> IF q = p THEN e ELSE f[q]]
      BY <1>1, <1>2, <2>3, FunctionAppend
    <2>5. \A q \in 1..m : Execution(q)' = f[q]
      BY <1>2, <2>3, ExecutionStays
    <2>6. \A q \in 1..p : Execution(q)' = IF q = p THEN e ELSE f[q]
      BY <1>1, <1>2, <2>2, <2>5
    <2>7. RunsSoFar' = [q \in 1..p |-> Execution(q)']
      BY <1>2 DEF RunsSoFar
    <2> QED
      BY <2>1, <2>2, <2>4, <2>6, <2>7
  <1>11. Len(RunsSoFar) = m
    BY <1>2 DEF RunsSoFar
  (* What the images hold after it. *)
  <1>12. ASSUME NEW j \in Image
         PROVE  LastWriter(j, p)' = IF j = i THEN p ELSE LastWriter(j, m)
    <2>1. CASE j = i
      <3>1. IsLastWriter(p, j, p)'
        BY <1>2, <1>3, <2>1 DEF IsLastWriter
      <3> QED
        BY <1>2, <2>1, <3>1, NextLastWriterIs
    <2>2. CASE j # i
      <3>1. PICK w \in 0..m : IsLastWriter(w, j, m)
        BY <1>2 DEF WriterExists
      <3>2. LastWriter(j, m) = w
        BY <1>2, <3>1, LastWriterIs
      <3>3. m <= Len(processes) /\ TypeOK
        BY <1>2, ProcessCount DEF IInv
      <3>4. IsLastWriter(w, j, m)'
        BY <1>2, <1>6, <3>1, <3>3, LastWriterKept
      <3>5. IsLastWriter(w, j, p)'
        <4>1. /\ w # 0 => Writes(w)' = j
              /\ \A q \in (w + 1)..m : Writes(q)' # j
          BY <3>4 DEF IsLastWriter
        <4>2. \A q \in (w + 1)..p : Writes(q)' # j
          BY <1>1, <1>2, <1>3, <2>2, <4>1
        <4> QED
          BY <1>1, <1>2, <4>1, <4>2 DEF IsLastWriter
      <3>6. LastWriter(j, p)' = w
        BY <1>2, <3>5, NextLastWriterIs
      <3> QED
        BY <2>2, <3>2, <3>6
    <2> QED
      BY <2>1, <2>2
  <1>13. ContentsSoFar' = [ContentsSoFar EXCEPT ![i] = Len(RunsSoFar) + 1]
    <2>1. ContentsSoFar' = [j \in Image |-> LastWriter(j, p)']
      BY <1>2 DEF ContentsSoFar
    <2>2. ContentsSoFar = [j \in Image |-> LastWriter(j, m)]
      BY <1>2 DEF ContentsSoFar
    <2>3. [ContentsSoFar EXCEPT ![i] = p] =
            [j \in Image |-> IF j = i THEN p ELSE LastWriter(j, m)]
      BY <1>5, <2>2
    <2> QED
      BY <1>1, <1>11, <1>12, <2>1, <2>3
  <1>14. Host!Execute(i, rd)
    BY <1>9, <1>10, <1>13 DEF Host!Execute, ContentsSoFar, RunsSoFar, Execution
  <1> QED
    BY <1>5, <1>14 DEF Host!Next

-----------------------------------------------------------------------------
(* The space graph stands for the sequential host program: every execution *)
(* is recorded once, in program order, with the values a sequential run    *)
(* would read, whatever is declared in between and whatever the images,    *)
(* accessors and kernels are.  (In-place accessors read back as their      *)
(* sequential value: see ValueRead.)                                       *)
THEOREM Refinement == Spec => HostSpec
  <1>1. Init => WriterExists
    <2>1. ASSUME Init, NEW n \in 0..Len(processes), NEW i \in Image
          PROVE  IsLastWriter(0, i, n)
      BY <2>1 DEF Init, IsLastWriter
    <2>2. ASSUME Init, NEW n \in 0..Len(processes)
          PROVE  0 \in 0..n
      BY <2>2 DEF Init
    <2> QED
      BY <2>1, <2>2 DEF WriterExists
  <1>2. ASSUME UNCHANGED hostVars, WriterExists
        PROVE  WriterExists'
    BY <1>2 DEF WriterExists, IsLastWriter, Writes, hostVars, declVars,
                graphVars
  <1>3. IInv /\ WriterExists /\ [Next]_hostVars => WriterExists'
    BY <1>2, WriterExistsKept
  <1>4. Spec => []WriterExists
    BY <1>1, <1>3, Invariant, PTL DEF Spec
  <1>5. Init => Host!Init
    <2>1. ASSUME Init
          PROVE  Recorded = 0 /\ Len(processes) = 0
      BY <2>1 DEF Init, Recorded
    <2>2. ASSUME Init, NEW i \in Image
          PROVE  LastWriter(i, 0) = 0
      <3>1. IsLastWriter(0, i, 0)
        BY DEF IsLastWriter
      <3> QED
        BY <3>1, LastWriterIs
    <2> QED
      BY <2>1, <2>2 DEF Host!Init
  <1>6. ASSUME IInv, IInv', WriterExists, Next
        PROVE  [Host!Next]_(Host!vars)
    <2>1. CASE Recorded' = Recorded
      BY <1>6, <2>1, NothingRecorded
         DEF Host!vars, ContentsSoFar, RunsSoFar, Execution
    <2>2. CASE Recorded' = Recorded + 1
      BY <1>6, <2>2, ExecutionRecorded
    <2> QED
      BY <1>6, <2>1, <2>2, StepRecords
  <1>7. ASSUME UNCHANGED hostVars
        PROVE  UNCHANGED Host!vars
    BY <1>7 DEF Host!vars, hostVars, declVars, graphVars, Recorded,
       LastWriter, IsLastWriter, Writes, ValueRead, Reads, AccsOf
  <1>8. IInv /\ IInv' /\ WriterExists /\ [Next]_hostVars
          => [Host!Next]_(Host!vars)
    BY <1>6, <1>7
  <1> QED
    BY <1>4, <1>5, <1>8, Invariant, PTL DEF Spec, HostSpec, Host!Spec

-----------------------------------------------------------------------------
(* The entry function: StreamSchedule.                                     *)

(* Counting from above, the elements of a set of numbers have the ranks    *)
(* from 1 to the size of the set.                                          *)
Rank(T, s) == Cardinality({t \in T : t >= s})

LEMMA RanksDiffer ==
  ASSUME NEW T, T \subseteq Nat, IsFiniteSet(T), NEW s \in T
  PROVE  /\ Rank(T, s) \in 1..Cardinality(T)
         /\ \A t \in T : t # s => Rank(T, t) # Rank(T, s)
  <1> DEFINE Above(x) == {t \in T : t >= x}
  <1>1. ASSUME NEW x \in T
        PROVE  /\ IsFiniteSet(Above(x)) /\ Cardinality(Above(x)) \in Nat
               /\ Cardinality(Above(x)) <= Cardinality(T)
               /\ Cardinality(T) \in Nat
    <2>1. Above(x) \in SUBSET T
      OBVIOUS
    <2> HIDE DEF Above
    <2> QED
      BY <2>1, FS_Subset, FS_CardinalityType
  <1>2. Cardinality(Above(s)) # 0
    <2>1. s \in Above(s)
      OBVIOUS
    <2> QED
      BY <1>1, <2>1, FS_EmptySet
  <1>3. ASSUME NEW x \in T, NEW y \in T, x < y
        PROVE  Cardinality(Above(x)) # Cardinality(Above(y))
    <2>1. Above(y) \in SUBSET Above(x) /\ x \in Above(x) /\ x \notin Above(y)
      <3>1. x \in Nat /\ y \in Nat /\ \A t \in T : t \in Nat
        OBVIOUS
      <3>2. \A t \in T : t >= y => t >= x
        BY <1>3, <3>1
      <3>3. \A t \in Above(y) : t \in Above(x)
        BY <3>2
      <3>4. x \in Above(x)
        BY <3>1
      <3>5. x \notin Above(y)
        BY <1>3, <3>1
      <3> HIDE DEF Above
      <3> QED
        BY <3>3, <3>4, <3>5
    <2>2. Above(x) # Above(y)
      BY <2>1
    <2> HIDE DEF Above
    <2> QED
      BY <1>1, <2>1, <2>2, FS_Subset
  <1>4. ASSUME NEW t \in T, t # s
        PROVE  Cardinality(Above(t)) # Cardinality(Above(s))
    <2>1. t < s \/ s < t
      BY <1>4
    <2> QED
      BY <1>3, <2>1
  <1> QED
    BY <1>1, <1>2, <1>4 DEF Rank

LEMMA RanksCover ==
  ASSUME NEW T, T \subseteq Nat, IsFiniteSet(T), NEW n \in 1..Cardinality(T)
  PROVE  \E s \in T : Rank(T, s) = n
  <1> DEFINE f == [s \in T |-> Rank(T, s)]
             I == 1..Cardinality(T)
  <1>1. /\ IsFiniteSet(I) /\ Cardinality(I) = Cardinality(T)
        /\ Cardinality(T) \in Nat
    BY FS_Interval, FS_CardinalityType
  <1>2. f \in Injection(T, I)
    <2>1. f \in [T -> I]
      BY RanksDiffer
    <2>2. ASSUME NEW s \in T, NEW t \in T, f[s] = f[t]
          PROVE  s = t
      BY <2>2, RanksDiffer
    <2> QED
      BY <2>1, <2>2 DEF Injection, IsInjective
  <1>3. f \in Surjection(T, I)
    <2> HIDE DEF f, I
    <2> QED
      BY <1>1, <1>2, FS_Injection
  <1> QED
    BY <1>3 DEF Surjection

(* So a set of numbers up to N has a greatest element.                     *)
LEMMA Greatest ==
  ASSUME NEW N \in Nat, NEW T, T \subseteq 1..N, T # {}
  PROVE  \E m \in T : \A k \in T : k <= m
  <1>1. T \subseteq Nat /\ IsFiniteSet(T)
    <2>1. T \in SUBSET Nat
      OBVIOUS
    <2>2. \A x \in T : x <= N
      OBVIOUS
    <2> QED
      BY <2>1, <2>2, FS_BoundedSetOfNaturals
  <1>2. Cardinality(T) \in Nat /\ Cardinality(T) # 0
    BY <1>1, FS_EmptySet, FS_CardinalityType
  <1>3. PICK m \in T : Rank(T, m) = 1
    <2>1. 1 \in 1..Cardinality(T)
      BY <1>2
    <2> QED
      BY <1>1, <2>1, RanksCover
  <1>4. ASSUME NEW k \in T, k > m
        PROVE  FALSE
    <2> DEFINE A == {t \in T : t >= m}
    <2>1. k \in A /\ m \in A /\ k # m
      BY <1>1, <1>4
    <2>2. IsFiniteSet(A) /\ Cardinality(A) = 1
      BY <1>1, <1>3, FS_Subset DEF Rank
    <2> HIDE DEF A
    <2>3. PICK e : A = {e}
      BY <2>2, FS_Singleton
    <2> QED
      BY <2>1, <2>3
  <1> QED
    BY <1>1, <1>4

-----------------------------------------------------------------------------
(* What the analysis leaves behind, beyond IInv.                           *)

(* The accessors that read space s: process and number of the accessor.    *)
Consumers(s) ==
  {c \in (DOMAIN processes) \X Nat :
     /\ c[2] \in DOMAIN processes[c[1]].ins
     /\ processes[c[1]].ins[c[2]] = s}

ConsumersCounted ==
  \A s \in DOMAIN spaces :
    /\ IsFiniteSet(Consumers(s))
    /\ Cardinality(Consumers(s)) = Len(spaces[s].dst)

InputsAreRead ==
  \A s \in DOMAIN spaces : spaces[s].src = 0 => spaces[s].dst # << >>

AllLinked ==
  \A p \in DOMAIN processes :
    link = 0 \/ p # Len(processes) =>
      Len(processes[p].ins) = Len(AccsOf(p))

TrackOK == ConsumersCounted /\ InputsAreRead /\ AllLinked

LEMMA InitTrackOK == Init => TrackOK
  <1> SUFFICES ASSUME Init PROVE TrackOK
    OBVIOUS
  <1>1. DOMAIN spaces = {} /\ DOMAIN processes = {}
    BY DEF Init
  <1> QED
    BY <1>1 DEF TrackOK, ConsumersCounted, InputsAreRead, AllLinked

LEMMA DeclareKeepsTrackOK ==
  ASSUME IInv, TrackOK, Declare
  PROVE  TrackOK'
  <1>1. MapsGrow /\ UNCHANGED graphVars
    BY DeclareGrowsMaps DEF IInv
  <1>2. processes' = processes /\ spaces' = spaces /\ link' = link
    BY <1>1 DEF graphVars
  <1>3. ConsumersCounted' /\ InputsAreRead'
    BY <1>2 DEF TrackOK, ConsumersCounted, InputsAreRead, Consumers
  <1>4. ASSUME NEW p \in DOMAIN processes
        PROVE  AccsOf(p)' = AccsOf(p)
    BY <1>1, <1>2 DEF AccsOf, MapsGrow, Grows, IInv, ProcOK
  <1>5. AllLinked'
    BY <1>2, <1>4 DEF TrackOK, AllLinked
  <1> QED
    BY <1>3, <1>5 DEF TrackOK

LEMMA RunKernelKeepsTrackOK ==
  ASSUME IInv, TrackOK, NEW k \in Kernel, RunKernel(k)
  PROVE  TrackOK'
  <1>0. PICK P, S : P = Len(processes) + 1 /\ S = Len(spaces) + 1
    OBVIOUS
  <1>1. /\ UNCHANGED declVars
        /\ Len(processes') = P /\ Len(spaces') = S
        /\ \A p \in DOMAIN processes : processes'[p] = processes[p]
        /\ \A s \in DOMAIN spaces : spaces'[s] = spaces[s]
        /\ processes'[P] = [kernel |-> k, out |-> S, ins |-> << >>]
        /\ spaces'[S] = [image |-> iterMap[kernelMap[k].iter],
                         src |-> P, dst |-> << >>]
        /\ TypeOK'
    BY <1>0, RunKernelStep DEF IInv
  <1>2. /\ Len(processes) \in Nat /\ DOMAIN processes = 1..Len(processes)
        /\ Len(spaces) \in Nat /\ DOMAIN spaces = 1..Len(spaces)
        /\ DOMAIN processes' = 1..P /\ DOMAIN spaces' = 1..S
    BY <1>0, <1>1, ProcessCount DEF IInv, TypeOK
  <1>3. /\ processes'[P].ins = << >> /\ processes'[P].kernel = k
        /\ spaces'[S].src = P /\ spaces'[S].dst = << >>
    BY <1>1
  <1>4. ASSUME NEW s
        PROVE  Consumers(s)' = Consumers(s)
    BY <1>0, <1>1, <1>2, <1>3 DEF Consumers
  <1>5. Consumers(S) = {}
    <2>1. ASSUME NEW p \in DOMAIN processes, NEW n \in DOMAIN processes[p].ins
          PROVE  processes[p].ins[n] # S
      BY <1>0, <1>2 DEF IInv, ProcOK
    <2> QED
      BY <2>1 DEF Consumers
  <1>6. ConsumersCounted'
    <2>1. ASSUME NEW s \in DOMAIN spaces'
          PROVE  /\ IsFiniteSet(Consumers(s)')
                 /\ Cardinality(Consumers(s)') = Len(spaces'[s].dst)
      <3>1. CASE s \in DOMAIN spaces
        BY <1>1, <1>4, <3>1 DEF TrackOK, ConsumersCounted
      <3>2. CASE s = S
        BY <1>3, <1>4, <1>5, <3>2, FS_EmptySet
      <3> QED
        BY <1>0, <1>2, <3>1, <3>2
    <2> QED
      BY <2>1 DEF ConsumersCounted
  <1>7. InputsAreRead'
    BY <1>0, <1>1, <1>2, <1>3 DEF TrackOK, InputsAreRead
  <1>8. AllLinked'
    <2>1. link = 0 /\ link' = IF kernelMap[k].accs = << >> THEN 0 ELSE 1
      BY DEF RunKernel
    <2>2. ASSUME NEW p \in DOMAIN processes
          PROVE  /\ AccsOf(p)' = AccsOf(p)
                 /\ Len(processes'[p].ins) = Len(AccsOf(p)')
      BY <1>1, <2>1 DEF AccsOf, declVars, TrackOK, AllLinked
    <2>3. ASSUME link' = 0
          PROVE  Len(processes'[P].ins) = Len(AccsOf(P)')
      <3>1. kernelMap'[k].accs = << >>
        BY <1>1, <2>1, <2>3 DEF declVars
      <3> QED
        BY <1>3, <3>1 DEF AccsOf
    <2> QED
      BY <1>0, <1>1, <1>2, <2>2, <2>3 DEF AllLinked
  <1> QED
    BY <1>6, <1>7, <1>8 DEF TrackOK

LEMMA LinkKeepsTrackOK ==
  ASSUME IInv, TrackOK, link # 0, NEW sp, NEW s, NEW p,
         LinksTo(sp, s, p), Connect(sp, s)
  PROVE  TrackOK'
  <1>1. /\ UNCHANGED declVars
        /\ p \in DOMAIN processes /\ p \in Nat /\ p # 0
        /\ Len(processes) = p /\ Len(processes') = p
        /\ DOMAIN processes' = DOMAIN processes
        /\ DOMAIN spaces' = DOMAIN sp
        /\ DOMAIN spaces \subseteq DOMAIN sp
        /\ \A q \in DOMAIN processes : q # p => processes'[q] = processes[q]
        /\ \A q \in DOMAIN processes : processes'[q].kernel = processes[q].kernel
        /\ processes[p].ins \in Seq(Nat) /\ s \in Nat
        /\ processes'[p].ins = Append(processes[p].ins, s)
        /\ link = Len(processes[p].ins) + 1
        /\ link <= Len(AccsOf(p))
    BY LinkStep
  <1>2. /\ DOMAIN processes'[p].ins = DOMAIN processes[p].ins \cup {link}
        /\ link \notin DOMAIN processes[p].ins /\ link \in Nat
        /\ processes'[p].ins[link] = s
        /\ Len(processes'[p].ins) = link
        /\ \A n \in DOMAIN processes[p].ins :
             processes'[p].ins[n] = processes[p].ins[n]
    <2>1. PICK ins : ins = processes[p].ins
      OBVIOUS
    <2>2. ins \in Seq(Nat) /\ s \in Nat
      BY <1>1, <2>1
    <2>3. link = Len(ins) + 1 /\ processes'[p].ins = Append(ins, s)
      BY <1>1, <2>1
    <2>4. PICK more : more = Append(ins, s)
      OBVIOUS
    <2>5. /\ DOMAIN more = DOMAIN ins \cup {link}
          /\ link \notin DOMAIN ins /\ link \in Nat
          /\ more[link] = s
          /\ Len(more) = link
          /\ \A n \in DOMAIN ins : more[n] = ins[n]
      BY <2>2, <2>3, <2>4
    <2> QED
      BY <2>1, <2>3, <2>4, <2>5
  <1>3. /\ s \in DOMAIN sp
        /\ \A t \in DOMAIN spaces : sp[t] = spaces[t]
        /\ \A t \in DOMAIN sp \ DOMAIN spaces : t = s /\ sp[t].dst = << >>
        /\ sp \in Seq(SpaceRec)
    BY DEF LinksTo
  <1>4. PICK c, lk : c = <<p, link>> /\ lk = link
    OBVIOUS
  <1>5. ASSUME NEW t
        PROVE  Consumers(t)' = IF t = s THEN Consumers(t) \cup {c}
                               ELSE Consumers(t)
    <2>1. \A q \in DOMAIN processes : \A n \in Nat :
            n \in DOMAIN processes'[q].ins /\ processes'[q].ins[n] = t
              <=> \/ n \in DOMAIN processes[q].ins /\ processes[q].ins[n] = t
                  \/ q = p /\ n = lk /\ t = s
      BY <1>1, <1>2, <1>4
    <2>2. lk \in Nat /\ c = <<p, lk>> /\ DOMAIN processes' = DOMAIN processes
      BY <1>1, <1>2, <1>4
    <2>3. \A q \in DOMAIN processes : \A n \in Nat :
            <<q, n>> \in Consumers(t)'
              <=> \/ <<q, n>> \in Consumers(t)
                  \/ t = s /\ <<q, n>> = c
      BY <2>1, <2>2 DEF Consumers
    <2>4. /\ Consumers(t) \subseteq (DOMAIN processes) \X Nat
          /\ Consumers(t)' \subseteq (DOMAIN processes) \X Nat
          /\ c \in (DOMAIN processes) \X Nat
      BY <1>1, <2>2 DEF Consumers
    <2>5. \A d : d \in Consumers(t)'
                  <=> d \in Consumers(t) \/ (t = s /\ d = c)
      BY <2>3, <2>4
    <2> QED
      BY <2>5
  <1>6. c \notin Consumers(s)
    BY <1>2, <1>4 DEF Consumers
  <1>7. ASSUME NEW t \in DOMAIN sp
        PROVE  /\ IsFiniteSet(Consumers(t))
               /\ Cardinality(Consumers(t)) = Len(sp[t].dst)
    <2>1. CASE t \in DOMAIN spaces
      BY <1>3, <2>1 DEF TrackOK, ConsumersCounted
    <2>2. CASE t \notin DOMAIN spaces
      <3>1. Consumers(t) = {}
        BY <2>2 DEF IInv, ProcOK, Consumers
      <3>2. Len(sp[t].dst) = 0
        BY <1>3, <2>2
      <3> QED
        BY <3>1, <3>2, FS_EmptySet
    <2> QED
      BY <2>1, <2>2
  <1>8. /\ \A t \in DOMAIN sp : t # s => spaces'[t] = sp[t]
        /\ spaces'[s].dst = Append(sp[s].dst, p)
        /\ \A t \in DOMAIN sp : spaces'[t].src = sp[t].src
        /\ \A t \in DOMAIN sp : sp[t].dst \in Seq(Nat)
    <2>1. spaces' = [sp EXCEPT ![s] = [sp[s] EXCEPT !.dst = Append(@, p)]]
      BY <1>1 DEF Connect
    <2>2. \A t \in DOMAIN sp : sp[t] \in SpaceRec
      BY <1>3, ElementType
    <2> QED
      BY <1>3, <2>1, <2>2 DEF SpaceRec
  <1>9. ConsumersCounted'
    <2>1. ASSUME NEW t \in DOMAIN sp
          PROVE  /\ IsFiniteSet(Consumers(t)')
                 /\ Cardinality(Consumers(t)') = Len(spaces'[t].dst)
      <3>1. CASE t # s
        BY <1>5, <1>7, <1>8, <3>1
      <3>2. CASE t = s
        <4>1. /\ IsFiniteSet(Consumers(s) \cup {c})
              /\ Cardinality(Consumers(s) \cup {c})
                   = Cardinality(Consumers(s)) + 1
          BY <1>3, <1>6, <1>7, FS_AddElement
        <4>2. Len(spaces'[s].dst) = Len(sp[s].dst) + 1
          BY <1>1, <1>3, <1>8
        <4> QED
          BY <1>3, <1>5, <1>7, <3>2, <4>1, <4>2
      <3> QED
        BY <3>1, <3>2
    <2> QED
      BY <1>1, <2>1 DEF ConsumersCounted
  <1>10. InputsAreRead'
    <2>1. spaces'[s].dst # << >>
      <3>1. sp[s].dst \in Seq(Nat) /\ spaces'[s].dst = Append(sp[s].dst, p)
        BY <1>3, <1>8
      <3>2. p \in Nat
        BY <1>1
      <3>3. ASSUME NEW x \in Seq(Nat), NEW y \in Nat PROVE Append(x, y) # << >>
        OBVIOUS
      <3> QED
        BY <3>1, <3>2, <3>3
    <2>2. ASSUME NEW t \in DOMAIN sp, t # s, sp[t].src = 0
          PROVE  sp[t].dst # << >>
      BY <1>3, <2>2 DEF TrackOK, InputsAreRead
    <2>3. ASSUME NEW t \in DOMAIN sp, spaces'[t].src = 0
          PROVE  spaces'[t].dst # << >>
      BY <1>8, <2>1, <2>2, <2>3
    <2> QED
      BY <1>1, <2>3 DEF InputsAreRead
  <1>11. AllLinked'
    <2>1. \A q \in DOMAIN processes : AccsOf(q)' = AccsOf(q)
      BY <1>1 DEF AccsOf, declVars
    <2>2. link' = IF link < Len(AccsOf(p)) THEN link + 1 ELSE 0
      BY <1>1 DEF Connect
    <2>3. Len(AccsOf(p)) \in Nat
      <3>1. kernelMap[processes[p].kernel] \in Ctor
        BY <1>1, PartialFcnApply DEF IInv, TypeOK, ProcOK
      <3> QED
        BY <3>1, CtorType DEF AccsOf
    <2>4. ASSUME NEW q \in DOMAIN processes, q # p
          PROVE  Len(processes'[q].ins) = Len(AccsOf(q)')
      BY <1>1, <2>1, <2>4 DEF TrackOK, AllLinked
    <2>5. link' = 0 => Len(processes'[p].ins) = Len(AccsOf(p)')
      BY <1>1, <1>2, <2>1, <2>2, <2>3
    <2> QED
      BY <1>1, <2>4, <2>5 DEF AllLinked
  <1> QED
    BY <1>9, <1>10, <1>11 DEF TrackOK

LEMMA NextKeepsTrackOK ==
  ASSUME IInv, TrackOK, Next
  PROVE  TrackOK'
  <1>1. CASE Declare
    BY <1>1, DeclareKeepsTrackOK
  <1>2. ASSUME NEW k \in Kernel, RunKernel(k)
        PROVE  TrackOK'
    BY <1>2, RunKernelKeepsTrackOK
  <1>3. CASE LinkYoungestSpace
    <2>1. link # 0
      BY <1>3 DEF LinkYoungestSpace
    <2> QED
      BY <1>3, <2>1, YoungestLinks, LinkKeepsTrackOK
  <1>4. CASE LinkNewInput
    <2>1. link # 0
      BY <1>4 DEF LinkNewInput
    <2> QED
      BY <1>4, <2>1, NewInputLinks, LinkKeepsTrackOK
  <1> QED
    BY <1>1, <1>2, <1>3, <1>4 DEF Next, Execute

LEMMA StutterKeepsTrackOK ==
  ASSUME TrackOK, UNCHANGED hostVars
  PROVE  TrackOK'
  <1>1. /\ kernelMap' = kernelMap /\ spaces' = spaces
        /\ processes' = processes /\ link' = link
    BY DEF hostVars, declVars, graphVars
  <1> QED
    BY <1>1 DEF TrackOK, ConsumersCounted, InputsAreRead, AllLinked, Consumers,
       AccsOf

-----------------------------------------------------------------------------
(* The graph as createSchedule finds it; it does not change any more.      *)
GraphOK ==
  /\ \A s \in DOMAIN spaces :
       /\ s \in Nat
       /\ spaces[s].image \in Image /\ spaces[s].src \in Nat
       /\ spaces[s].dst \in Seq(Nat)
       /\ spaces[s].src # 0 => /\ spaces[s].src \in DOMAIN processes
                               /\ processes[spaces[s].src].out = s
       /\ spaces[s].src = 0 => spaces[s].dst # << >>
       /\ IsFiniteSet(Consumers(s))
       /\ Cardinality(Consumers(s)) = Len(spaces[s].dst)
  /\ \A p \in DOMAIN processes :
       /\ p \in Nat /\ p # 0
       /\ processes[p].out \in DOMAIN spaces
       /\ spaces[processes[p].out].src = p
       /\ processes[p].ins \in Seq(DOMAIN spaces)
  /\ OneInputPerImage

LEMMA GraphIsOK ==
  ASSUME IInv, TrackOK
  PROVE  GraphOK
  <1>1. /\ Len(processes) \in Nat /\ DOMAIN processes = 1..Len(processes)
        /\ Len(spaces) \in Nat /\ DOMAIN spaces = 1..Len(spaces)
    BY ProcessCount DEF IInv
  <1>2. ASSUME NEW s \in DOMAIN spaces
        PROVE  spaces[s] \in SpaceRec
    BY SpaceType DEF IInv
  <1>3. ASSUME NEW p \in DOMAIN processes
        PROVE  processes[p].ins \in Seq(DOMAIN spaces)
    <2>1. processes[p].ins \in Seq(Nat)
      BY ProcessType DEF IInv, ProcessRec
    <2>2. \A n \in DOMAIN processes[p].ins :
            processes[p].ins[n] \in DOMAIN spaces
      BY DEF IInv, ProcOK
    <2> QED
      BY <2>1, <2>2
  <1>4. OneInputPerImage
    <2>1. ASSUME NEW s \in DOMAIN spaces, NEW t \in DOMAIN spaces,
                 IsInput(s), IsInput(t), spaces[s].image = spaces[t].image
          PROVE  s = t
      <3>1. s \in Nat /\ t \in Nat /\ ~(s < t) /\ ~(t < s)
        BY <1>1, <2>1 DEF IInv, InputIsFirst, IsInput
      <3> QED
        BY <3>1
    <2> QED
      BY <2>1 DEF OneInputPerImage
  <1> QED
    BY <1>1, <1>2, <1>3, <1>4 DEF GraphOK, SpaceRec, IInv, ProcOK, SrcOK, TrackOK,
       ConsumersCounted, InputsAreRead

-----------------------------------------------------------------------------
(* Sequences without repetition.                                           *)
Holds(q, x)       == \E i \in DOMAIN q : q[i] = x
Distinct(q)       == \A i, j \in DOMAIN q : q[i] = q[j] => i = j
Precedes(q, x, i) == \E j \in DOMAIN q : j < i /\ q[j] = x

LEMMA AppendNew ==
  ASSUME NEW T, NEW q \in Seq(T), NEW e \in T
  PROVE  /\ Append(q, e) \in Seq(T)
         /\ \A x : Holds(Append(q, e), x) <=> Holds(q, x) \/ x = e
         /\ Distinct(q) /\ ~Holds(q, e) => Distinct(Append(q, e))
         /\ Len(q) \in Nat
         /\ DOMAIN Append(q, e) = DOMAIN q \cup {Len(q) + 1}
         /\ Append(q, e)[Len(q) + 1] = e
         /\ \A i \in DOMAIN q :
              /\ Append(q, e)[i] = q[i] /\ i \in Nat /\ i < Len(q) + 1
              /\ \A x : Precedes(q, x, i) => Precedes(Append(q, e), x, i)
         /\ \A x : Holds(q, x) => Precedes(Append(q, e), x, Len(q) + 1)
  <1>1. PICK r, n : r = Append(q, e) /\ n = Len(q) + 1
    OBVIOUS
  <1>2. /\ r \in Seq(T) /\ DOMAIN r = DOMAIN q \cup {n} /\ r[n] = e
        /\ \A i \in DOMAIN q : r[i] = q[i] /\ i \in Nat /\ i < n
        /\ Len(q) \in Nat
    BY <1>1
  <1>3. \A x : Holds(r, x) <=> Holds(q, x) \/ x = e
    BY <1>2 DEF Holds
  <1>4. Distinct(q) /\ ~Holds(q, e) => Distinct(r)
    BY <1>2 DEF Holds, Distinct
  <1>5. \A i \in DOMAIN q : \A x : Precedes(q, x, i) => Precedes(r, x, i)
    BY <1>2 DEF Precedes
  <1>6. \A x : Holds(q, x) => Precedes(r, x, n)
    BY <1>2 DEF Holds, Precedes
  <1> QED
    BY <1>1, <1>2, <1>3, <1>4, <1>5, <1>6

LEMMA DropFirst ==
  ASSUME NEW T, NEW q \in Seq(T), q # << >>, Distinct(q)
  PROVE  /\ Head(q) \in T /\ Holds(q, Head(q))
         /\ Tail(q) \in Seq(T)
         /\ Distinct(Tail(q))
         /\ \A x : Holds(Tail(q), x) <=> Holds(q, x) /\ x # Head(q)
  <1>1. PICK r, h : r = Tail(q) /\ h = Head(q)
    OBVIOUS
  <1>2. /\ h \in T /\ r \in Seq(T) /\ h = q[1] /\ 1 \in DOMAIN q
        /\ DOMAIN q = 1..Len(q) /\ Len(q) \in Nat
        /\ DOMAIN r = 1..(Len(q) - 1)
        /\ \A i \in DOMAIN r : r[i] = q[i + 1]
    BY <1>1
  <1>3. \A i \in DOMAIN r : i \in Nat /\ i # 0 /\ i + 1 \in DOMAIN q
    BY <1>2
  <1>4. Distinct(r)
    <2>1. ASSUME NEW i \in DOMAIN r, NEW j \in DOMAIN r, r[i] = r[j]
          PROVE  i = j
      <3>1. i + 1 = j + 1
        BY <1>2, <1>3, <2>1 DEF Distinct
      <3> QED
        BY <1>3, <3>1
    <2> QED
      BY <2>1 DEF Distinct
  <1>5. ASSUME NEW x
        PROVE  Holds(r, x) <=> Holds(q, x) /\ x # h
    <2>1. ASSUME Holds(r, x)
          PROVE  Holds(q, x) /\ x # h
      <3>1. PICK i \in DOMAIN r : r[i] = x
        BY <2>1 DEF Holds
      <3>2. i + 1 \in DOMAIN q /\ q[i + 1] = x /\ i + 1 # 1
        BY <1>2, <1>3, <3>1
      <3> QED
        BY <1>2, <3>2 DEF Holds, Distinct
    <2>2. ASSUME Holds(q, x), x # h
          PROVE  Holds(r, x)
      <3>1. PICK i \in DOMAIN q : q[i] = x
        BY <2>2 DEF Holds
      <3>2. i - 1 \in DOMAIN r /\ (i - 1) + 1 = i
        BY <1>2, <2>2, <3>1
      <3> QED
        BY <1>2, <3>1, <3>2 DEF Holds
    <2> QED
      BY <2>1, <2>2
  <1> QED
    BY <1>1, <1>2, <1>4, <1>5 DEF Holds

(* Nodes of the schedule.                                                  *)
Node == [kind : {"space"}, at : DOMAIN spaces] \cup
        [kind : {"process"}, at : DOMAIN processes]

LEMMA NodeTypes ==
  /\ \A s \in DOMAIN spaces : SpaceNode(s) \in Node
  /\ \A p \in DOMAIN processes : ProcessNode(p) \in Node
  /\ \A x \in Node : \/ \E s \in DOMAIN spaces : x = SpaceNode(s)
                     \/ \E p \in DOMAIN processes : x = ProcessNode(p)
  BY DEF Node, SpaceNode, ProcessNode

LEMMA NodesDiffer ==
  /\ \A s, p : SpaceNode(s) # ProcessNode(p)
  /\ \A s, t : SpaceNode(s) = SpaceNode(t) => s = t
  /\ \A p, q : ProcessNode(p) = ProcessNode(q) => p = q
  BY DEF SpaceNode, ProcessNode

(* Names of streams.                                                       *)
InName(i)  == <<"_strm", i>>
OutName(n) == <<"_strmOut", n>>
TmpName(n) == <<"_strmTmp", n>>

LEMMA NameTypes ==
  /\ NoName \in Name
  /\ \A i \in Image : InName(i) \in Name
  /\ \A n \in Nat : OutName(n) \in Name /\ TmpName(n) \in Name
  BY DEF Name, NoName, InName, OutName, TmpName

LEMMA NamesDiffer ==
  /\ \A i, j : InName(i) = InName(j) => i = j
  /\ \A m, n : OutName(m) = OutName(n) => m = n
  /\ \A m, n : TmpName(m) = TmpName(n) => m = n
  /\ \A i, n : InName(i) # OutName(n) /\ InName(i) # TmpName(n)
  /\ \A m, n : OutName(m) # TmpName(n)
  /\ \A n : InName(n) # NoName /\ OutName(n) # NoName /\ TmpName(n) # NoName
  BY DEF NoName, InName, OutName, TmpName

LEMMA StreamNames ==
  ASSUME NEW s, NEW out, NEW tmp
  PROVE  /\ IsInput(s) => CreateStream(s, FALSE, out, tmp) = InName(spaces[s].image)
         /\ \A named \in BOOLEAN : ~IsInput(s) /\ IsOutput(s) =>
              CreateStream(s, named, out, tmp) = OutName(out)
         /\ \A named \in BOOLEAN : ~IsInput(s) /\ ~IsOutput(s) =>
              CreateStream(s, named, out, tmp) = TmpName(tmp)
         /\ ~IsOutput(s) => CreateStream(s, TRUE, out, tmp) = TmpName(tmp)
  BY DEF CreateStream, InName, OutName, TmpName

-----------------------------------------------------------------------------
(* Control.  An activation is of a scheduled process, is the only one of   *)
(* it and has pushed the inputs before next; a scheduled process without   *)
(* one has pushed all its inputs.                                          *)
StackOK(st, sch, inS) ==
  /\ \A i \in DOMAIN st :
       /\ st[i].proc \in DOMAIN processes
       /\ Holds(sch, ProcessNode(st[i].proc))
       /\ st[i].next = Len(inS[st[i].proc]) + 1
       /\ st[i].call => st[i].next <= Len(processes[st[i].proc].ins)
  /\ \A i, j \in DOMAIN st : st[i].proc = st[j].proc => i = j
  /\ \A p \in DOMAIN processes :
       /\ Len(inS[p]) <= Len(processes[p].ins)
       /\ Holds(sch, ProcessNode(p)) /\ (\A i \in DOMAIN st : st[i].proc # p) =>
            Len(inS[p]) = Len(processes[p].ins)
       /\ ~Holds(sch, ProcessNode(p)) => inS[p] = << >>

(* The n-th argument of process p is stream x: pushed, or to be pushed     *)
(* when the recursive call returns.                                        *)
Arg(st, inS, p, n, x) ==
  \/ n \in DOMAIN inS[p] /\ inS[p][n] = x
  \/ \E i \in DOMAIN st :
       st[i].proc = p /\ st[i].call /\ st[i].next = n /\ st[i].stream = x

NewActivation(p) == [proc |-> p, next |-> 1, call |-> FALSE, stream |-> NoName]

(* What a step of the traversal meets on top of the stack.                 *)
LEMMA TopOfStack ==
  ASSUME NEW st \in Seq(Activation), st # << >>
  PROVE  /\ Len(st) \in DOMAIN st /\ Len(st) \in Nat
         /\ st[Len(st)] \in Activation
  OBVIOUS

(* The recursive call begins.                                              *)
LEMMA CallKeepsStack ==
  ASSUME GraphOK, NEW st \in Seq(Activation), NEW k \in DOMAIN st, NEW sch,
         NEW inS \in [DOMAIN processes -> Seq(Name)], StackOK(st, sch, inS),
         ~st[k].call, st[k].next \in DOMAIN processes[st[k].proc].ins,
         NEW b \in Activation,
         b.proc = st[k].proc, b.next = st[k].next, b.call
  PROVE  /\ [st EXCEPT ![k] = b] \in Seq(Activation)
         /\ StackOK([st EXCEPT ![k] = b], sch, inS)
         /\ \A y : ~Arg(st, inS, b.proc, b.next, y)
         /\ \A q, m, y :
              Arg([st EXCEPT ![k] = b], inS, q, m, y)
                <=> \/ Arg(st, inS, q, m, y)
                    \/ q = b.proc /\ m = b.next /\ y = b.stream
  <1>1. PICK a, c, p, n, x : /\ a = st[k] /\ c = [st EXCEPT ![k] = b]
                             /\ p = b.proc /\ n = b.next /\ x = b.stream
    OBVIOUS
  <1>2. /\ a \in Activation /\ a.proc = p /\ a.next = n /\ ~a.call
        /\ b.proc = p /\ b.next = n /\ b.stream = x
        /\ n \in DOMAIN processes[p].ins
    BY <1>1, ElementType
  <1>3. /\ c \in Seq(Activation) /\ DOMAIN c = DOMAIN st
        /\ c[k] = b /\ \A i \in DOMAIN st : i # k => c[i] = st[i]
    BY <1>1
  <1>4. /\ \A i \in DOMAIN st : c[i].proc = st[i].proc /\ c[i].next = st[i].next
        /\ \A i \in DOMAIN st : c[i].call => st[i].call \/ i = k
    BY <1>1, <1>2, <1>3
  <1>5. p \in DOMAIN processes /\ n = Len(inS[p]) + 1
    BY <1>1, <1>2 DEF StackOK
  <1>6. /\ inS[p] \in Seq(Name) /\ processes[p].ins \in Seq(DOMAIN spaces)
    BY <1>5 DEF GraphOK
  <1>7. n <= Len(processes[p].ins) /\ n \notin DOMAIN inS[p]
    BY <1>2, <1>5, <1>6
  <1>8. StackOK(c, sch, inS)
    BY <1>1, <1>2, <1>3, <1>4, <1>7 DEF StackOK
  <1>9. ASSUME NEW y
        PROVE  ~Arg(st, inS, p, n, y)
    BY <1>1, <1>2, <1>7 DEF Arg, StackOK
  <1>10. ASSUME NEW q, NEW m, NEW y
         PROVE  Arg(c, inS, q, m, y)
                  <=> Arg(st, inS, q, m, y) \/ (q = p /\ m = n /\ y = x)
    <2>1. ASSUME Arg(c, inS, q, m, y), ~Arg(st, inS, q, m, y)
          PROVE  q = p /\ m = n /\ y = x
      <3>1. PICK i \in DOMAIN c : c[i].proc = q /\ c[i].call /\ c[i].next = m
                                  /\ c[i].stream = y
        BY <2>1 DEF Arg
      <3>2. i = k
        BY <1>3, <2>1, <3>1 DEF Arg
      <3> QED
        BY <1>2, <1>3, <3>1, <3>2
    <2>2. ASSUME Arg(st, inS, q, m, y)
          PROVE  Arg(c, inS, q, m, y)
      <3>1. CASE m \in DOMAIN inS[q] /\ inS[q][m] = y
        BY <3>1 DEF Arg
      <3>2. ASSUME NEW i \in DOMAIN st, st[i].proc = q, st[i].call,
                   st[i].next = m, st[i].stream = y
            PROVE  Arg(c, inS, q, m, y)
        <4>1. c[i] = st[i] /\ i \in DOMAIN c
          BY <1>1, <1>2, <1>3, <3>2
        <4> QED
          BY <3>2, <4>1 DEF Arg
      <3> QED
        BY <2>2, <3>1, <3>2 DEF Arg
    <2>3. ASSUME q = p, m = n, y = x
          PROVE  Arg(c, inS, q, m, y)
      BY <1>2, <1>3, <2>3 DEF Arg
    <2> QED
      BY <2>1, <2>2, <2>3
  <1> QED
    BY <1>1, <1>3, <1>8, <1>9, <1>10

(* markProcess is entered for a process that becomes scheduled.            *)
LEMMA PushKeepsStack ==
  ASSUME GraphOK, NEW st \in Seq(Activation), NEW sch \in Seq(Node),
         NEW inS \in [DOMAIN processes -> Seq(Name)], StackOK(st, sch, inS),
         NEW q \in DOMAIN processes, ~Holds(sch, ProcessNode(q))
  PROVE  /\ Append(st, NewActivation(q)) \in Seq(Activation)
         /\ StackOK(Append(st, NewActivation(q)), Append(sch, ProcessNode(q)), inS)
         /\ \A p \in DOMAIN processes : \A n, y :
              Arg(Append(st, NewActivation(q)), inS, p, n, y)
                <=> Arg(st, inS, p, n, y)
  <1>1. PICK b, c, new : /\ b = NewActivation(q)
                         /\ c = Append(st, NewActivation(q))
                         /\ new = Append(sch, ProcessNode(q))
    OBVIOUS
  <1>2. /\ b \in Activation /\ b.proc = q /\ b.next = 1 /\ ~b.call
    BY <1>1, NameTypes DEF NewActivation, Activation, GraphOK
  <1>3. PICK k : k = Len(st) + 1
    OBVIOUS
  <1>4. /\ c \in Seq(Activation) /\ DOMAIN c = DOMAIN st \cup {k}
        /\ k \notin DOMAIN st /\ c[k] = b
        /\ \A i \in DOMAIN st : c[i] = st[i]
    BY <1>1, <1>2, <1>3, AppendNew
  <1>5. ProcessNode(q) \in Node
    BY NodeTypes
  <1>6. \A x : Holds(new, x) <=> Holds(sch, x) \/ x = ProcessNode(q)
    BY <1>1, <1>5, AppendNew
  <1>7. \A i \in DOMAIN st : st[i].proc # q
    BY DEF StackOK
  <1>8. inS[q] = << >>
    BY DEF StackOK
  <1>9. StackOK(c, new, inS)
    <2>1. ASSUME NEW i \in DOMAIN c
          PROVE  /\ c[i].proc \in DOMAIN processes
                 /\ Holds(new, ProcessNode(c[i].proc))
                 /\ c[i].next = Len(inS[c[i].proc]) + 1
                 /\ c[i].call => c[i].next <= Len(processes[c[i].proc].ins)
      <3>1. CASE i \in DOMAIN st
        BY <1>4, <1>6, <3>1 DEF StackOK
      <3>2. CASE i = k
        <4>1. c[i].proc = q /\ c[i].next = 1 /\ ~c[i].call
          BY <1>2, <1>4, <3>2
        <4>2. Len(inS[q]) = 0
          BY <1>8
        <4> QED
          BY <1>6, <4>1, <4>2
      <3> QED
        BY <1>4, <3>1, <3>2
    <2>2. ASSUME NEW i \in DOMAIN c, NEW j \in DOMAIN c, c[i].proc = c[j].proc
          PROVE  i = j
      BY <1>2, <1>4, <1>7, <2>2 DEF StackOK
    <2>3. ASSUME NEW p \in DOMAIN processes
          PROVE  /\ Len(inS[p]) <= Len(processes[p].ins)
                 /\ Holds(new, ProcessNode(p)) /\ (\A i \in DOMAIN c : c[i].proc # p)
                      => Len(inS[p]) = Len(processes[p].ins)
                 /\ ~Holds(new, ProcessNode(p)) => inS[p] = << >>
      <3>1. CASE p = q
        BY <1>2, <1>4, <1>6, <3>1 DEF StackOK
      <3>2. CASE p # q
        <4>1. ProcessNode(p) # ProcessNode(q)
          BY <3>2, NodesDiffer
        <4>2. Holds(new, ProcessNode(p)) <=> Holds(sch, ProcessNode(p))
          BY <1>6, <4>1
        <4>3. (\A i \in DOMAIN c : c[i].proc # p)
                => \A i \in DOMAIN st : st[i].proc # p
          BY <1>4
        <4> QED
          BY <4>2, <4>3 DEF StackOK
      <3> QED
        BY <3>1, <3>2
    <2> QED
      BY <2>1, <2>2, <2>3 DEF StackOK
  <1>10. ASSUME NEW p \in DOMAIN processes, NEW n, NEW y
         PROVE  Arg(c, inS, p, n, y) <=> Arg(st, inS, p, n, y)
    BY <1>2, <1>4 DEF Arg
  <1> QED
    BY <1>1, <1>4, <1>9, <1>10

(* Planning a space does not concern the stack.                            *)
LEMMA PlanKeepsStack ==
  ASSUME NEW st, NEW sch \in Seq(Node), NEW inS, StackOK(st, sch, inS),
         NEW s \in DOMAIN spaces
  PROVE  StackOK(st, Append(sch, SpaceNode(s)), inS)
  <1>1. PICK new : new = Append(sch, SpaceNode(s))
    OBVIOUS
  <1>2. SpaceNode(s) \in Node
    BY NodeTypes
  <1>3. \A p : Holds(new, ProcessNode(p)) <=> Holds(sch, ProcessNode(p))
    <2>1. \A x : Holds(new, x) <=> Holds(sch, x) \/ x = SpaceNode(s)
      BY <1>1, <1>2, AppendNew
    <2> QED
      BY <2>1, NodesDiffer
  <1> QED
    BY <1>1, <1>3 DEF StackOK

(* The call returns and the stream is pushed.                              *)
LEMMA PushInKeepsStack ==
  ASSUME GraphOK, NEW st \in Seq(Activation), NEW k \in DOMAIN st, NEW sch,
         NEW inS \in [DOMAIN processes -> Seq(Name)], StackOK(st, sch, inS),
         st[k].call, NEW b \in Activation,
         b.proc = st[k].proc, b.next = st[k].next + 1, ~b.call
  PROVE  LET c == [st EXCEPT ![k] = b]
             r == [inS EXCEPT ![b.proc] = Append(inS[b.proc], st[k].stream)]
         IN  /\ c \in Seq(Activation)
             /\ r \in [DOMAIN processes -> Seq(Name)]
             /\ StackOK(c, sch, r)
             /\ \A p \in DOMAIN processes : \A n, y :
                  Arg(c, r, p, n, y) <=> Arg(st, inS, p, n, y)
  <1>1. PICK a, p, c, r :
          /\ a = st[k] /\ p = b.proc /\ c = [st EXCEPT ![k] = b]
          /\ r = [inS EXCEPT ![b.proc] = Append(inS[b.proc], st[k].stream)]
    OBVIOUS
  <1>2. /\ st[k] = a /\ a \in Activation /\ a.proc = p /\ a.call
        /\ \A i \in DOMAIN st : st[i] \in Activation
    BY <1>1
  <1>3. /\ b.proc = p /\ b.next = a.next + 1 /\ ~b.call
        /\ b \in Activation /\ a.next \in Nat /\ a.stream \in Name
    BY <1>1, <1>2 DEF Activation
  <1>4. c = [st EXCEPT ![k] = b] /\ r = [inS EXCEPT ![p] = Append(inS[p], a.stream)]
    BY <1>1
  <1>5. /\ c \in Seq(Activation) /\ DOMAIN c = DOMAIN st
        /\ c[k] = b /\ \A i \in DOMAIN st : i # k => c[i] = st[i]
    <2> HIDE DEF Activation
    <2> QED
      BY <1>2, <1>3, <1>4
  <1>6. /\ p \in DOMAIN processes /\ Holds(sch, ProcessNode(p))
        /\ a.next = Len(inS[p]) + 1 /\ a.next <= Len(processes[p].ins)
        /\ \A i \in DOMAIN st : i # k => st[i].proc # p
    BY <1>1, <1>2 DEF StackOK
  <1>7. PICK old, new : old = inS[p] /\ new = Append(old, a.stream)
    OBVIOUS
  <1>8. /\ old \in Seq(Name) /\ new \in Seq(Name)
        /\ Len(new) = Len(old) + 1 /\ Len(old) + 1 = a.next
        /\ DOMAIN new = DOMAIN old \cup {a.next} /\ new[a.next] = a.stream
        /\ a.next \notin DOMAIN old
        /\ \A n \in DOMAIN old : new[n] = old[n]
    BY <1>3, <1>6, <1>7
  <1>9. /\ r \in [DOMAIN processes -> Seq(Name)] /\ r[p] = new
        /\ \A q \in DOMAIN processes : q # p => r[q] = inS[q]
    BY <1>4, <1>6, <1>7, <1>8
  <1>10. StackOK(c, sch, r)
    <2>1. ASSUME NEW i \in DOMAIN c
          PROVE  /\ c[i].proc \in DOMAIN processes
                 /\ Holds(sch, ProcessNode(c[i].proc))
                 /\ c[i].next = Len(r[c[i].proc]) + 1
                 /\ c[i].call => c[i].next <= Len(processes[c[i].proc].ins)
      <3>1. CASE i = k
        BY <1>3, <1>5, <1>6, <1>8, <1>9, <3>1
      <3>2. CASE i # k
        <4>1. i \in DOMAIN st /\ c[i] = st[i] /\ st[i].proc # p
          BY <1>5, <1>6, <2>1, <3>2
        <4>2. /\ st[i].proc \in DOMAIN processes
              /\ Holds(sch, ProcessNode(st[i].proc))
              /\ st[i].next = Len(inS[st[i].proc]) + 1
              /\ st[i].call => st[i].next <= Len(processes[st[i].proc].ins)
          BY <4>1 DEF StackOK
        <4>3. r[st[i].proc] = inS[st[i].proc]
          BY <1>9, <4>1, <4>2
        <4> QED
          BY <4>1, <4>2, <4>3
      <3> QED
        BY <3>1, <3>2
    <2>2. \A i \in DOMAIN st : c[i].proc = st[i].proc
      BY <1>1, <1>2, <1>3, <1>5
    <2>3. ASSUME NEW q \in DOMAIN processes
          PROVE  /\ Len(r[q]) <= Len(processes[q].ins)
                 /\ Holds(sch, ProcessNode(q)) /\ (\A i \in DOMAIN c : c[i].proc # q)
                      => Len(r[q]) = Len(processes[q].ins)
                 /\ ~Holds(sch, ProcessNode(q)) => r[q] = << >>
      <3>1. CASE q = p
        <4>1. ~ \A i \in DOMAIN c : c[i].proc # q
          BY <1>2, <1>3, <1>5, <3>1
        <4>2. Len(r[q]) <= Len(processes[q].ins)
          BY <1>6, <1>8, <1>9, <3>1
        <4> QED
          BY <1>6, <3>1, <4>1, <4>2
      <3>2. CASE q # p
        <4>1. r[q] = inS[q]
          BY <1>9, <3>2
        <4>2. (\A i \in DOMAIN c : c[i].proc # q)
                => \A i \in DOMAIN st : st[i].proc # q
          BY <1>5, <2>2
        <4> QED
          BY <4>1, <4>2 DEF StackOK
      <3> QED
        BY <3>1, <3>2
    <2>4. ASSUME NEW i \in DOMAIN c, NEW j \in DOMAIN c, c[i].proc = c[j].proc
          PROVE  i = j
      BY <1>5, <2>2, <2>4 DEF StackOK
    <2> QED
      BY <2>1, <2>3, <2>4 DEF StackOK
  <1>11. ASSUME NEW q \in DOMAIN processes, NEW n, NEW y
         PROVE  Arg(c, r, q, n, y) <=> Arg(st, inS, q, n, y)
    <2>1. CASE q = p
      BY <1>1, <1>2, <1>3, <1>5, <1>6, <1>7, <1>8, <1>9, <2>1 DEF Arg
    <2>2. CASE q # p
      BY <1>1, <1>2, <1>3, <1>5, <1>9, <2>2 DEF Arg
    <2> QED
      BY <2>1, <2>2
  <1> QED
    BY <1>1, <1>5, <1>9, <1>10, <1>11

(* markProcess returns.                                                    *)
LEMMA ReturnKeepsStack ==
  ASSUME GraphOK, NEW st \in Seq(Activation), st # << >>, NEW sch,
         NEW inS \in [DOMAIN processes -> Seq(Name)], StackOK(st, sch, inS),
         NEW a, a = st[Len(st)], ~a.call, a.next > Len(processes[a.proc].ins),
         NEW c, c = SubSeq(st, 1, Len(st) - 1)
  PROVE  /\ c \in Seq(Activation)
         /\ StackOK(c, sch, inS)
         /\ \A p \in DOMAIN processes : \A n, y :
              Arg(c, inS, p, n, y) <=> Arg(st, inS, p, n, y)
  <1>1. PICK k, p : k = Len(st) /\ p = a.proc
    OBVIOUS
  <1>2. /\ k \in DOMAIN st /\ st[k] = a /\ a \in Activation
        /\ c \in Seq(Activation) /\ DOMAIN c = DOMAIN st \ {k}
        /\ \A i \in DOMAIN c : c[i] = st[i]
    <2>1. c = SubSeq(st, 1, k - 1) /\ k = Len(st) /\ k \in Nat \ {0}
      BY <1>1, TopOfStack
    <2> HIDE DEF Activation
    <2> QED
      BY <1>1, <2>1, TopOfStack
  <1>3. /\ p \in DOMAIN processes /\ a.next = Len(inS[p]) + 1
        /\ Len(inS[p]) <= Len(processes[p].ins)
    BY <1>1, <1>2 DEF StackOK
  <1>4. inS[p] \in Seq(Name) /\ processes[p].ins \in Seq(DOMAIN spaces)
    BY <1>3 DEF GraphOK
  <1>5. Len(inS[p]) = Len(processes[p].ins)
    BY <1>1, <1>3, <1>4
  <1>6. StackOK(c, sch, inS)
    <2>1. ASSUME NEW q \in DOMAIN processes, Holds(sch, ProcessNode(q)),
                 \A i \in DOMAIN c : c[i].proc # q
          PROVE  Len(inS[q]) = Len(processes[q].ins)
      <3>1. CASE q = p
        BY <1>5, <3>1
      <3>2. CASE q # p
        <4>1. \A i \in DOMAIN st : st[i].proc # q
          BY <1>1, <1>2, <2>1, <3>2
        <4> QED
          BY <2>1, <4>1 DEF StackOK
      <3> QED
        BY <3>1, <3>2
    <2> QED
      BY <1>2, <2>1 DEF StackOK
  <1>7. ASSUME NEW q \in DOMAIN processes, NEW n, NEW y
        PROVE  Arg(c, inS, q, n, y) <=> Arg(st, inS, q, n, y)
    BY <1>2 DEF Arg
  <1> QED
    BY <1>2, <1>6, <1>7

-----------------------------------------------------------------------------
(* The invariant of createSchedule.                                        *)
Scheduled(p) == Holds(schedule, ProcessNode(p))
Planned(s)   == Holds(schedule, SpaceNode(s))
Waiting(s)   == Holds(outSpaces, s)

Unread(s) == spaces[s].dst = << >>
Shared(s) == Len(spaces[s].dst) > 1

ArgIs(p, n, x) == Arg(stack, inStreams, p, n, x)

(* The consumers of s that have come by, and got a stream.                 *)
Met(s) == {c \in Consumers(s) : \E x : ArgIs(c[1], c[2], x)}

(* A space is planned when all its consumers have come by, a process when  *)
(* its output space is, or when createSchedule starts from that space.     *)
PlanOK ==
  /\ Distinct(schedule) /\ Distinct(outSpaces)
  /\ \A s \in DOMAIN spaces : Waiting(s) => Unread(s)
  /\ \A s \in DOMAIN spaces : Planned(s) <=> ~Unread(s) /\ Met(s) = Consumers(s)
  /\ \A p \in DOMAIN processes :
       LET s == processes[p].out IN
       Scheduled(p) <=> (Unread(s) /\ ~Waiting(s)) \/ Planned(s)

(* The numbers in the names in use are below the counters.                 *)
OldTmp(x) == \E n \in Nat : n < tmpId /\ x = TmpName(n)
OldOut(x) == \E n \in Nat : n < outId /\ x = OutName(n)

Named(s) == IF Unread(s) THEN ~Waiting(s) ELSE Met(s) # {}
NamesOK ==
  /\ \A s \in DOMAIN spaces :
       IF ~Named(s) THEN stream[s] = NoName
       ELSE IF IsInput(s) THEN stream[s] = InName(spaces[s].image)
       ELSE IF Unread(s) THEN OldOut(stream[s])
       ELSE OldTmp(stream[s])
  /\ \A s, t \in DOMAIN spaces :
       stream[s] = stream[t] /\ stream[s] # NoName => s = t

(* A shared space has a copy for each consumer that has come by.           *)
CopiesOK ==
  /\ \A s \in DOMAIN spaces :
       Len(cpyStreams[s]) = IF Shared(s) THEN Cardinality(Met(s)) ELSE 0
  /\ \A s \in DOMAIN spaces : \A k \in DOMAIN cpyStreams[s] :
       /\ OldTmp(cpyStreams[s][k])
       /\ \A t \in DOMAIN spaces : stream[t] # cpyStreams[s][k]
  /\ \A s, t \in DOMAIN spaces :
       \A k \in DOMAIN cpyStreams[s], m \in DOMAIN cpyStreams[t] :
         cpyStreams[s][k] = cpyStreams[t][m] => s = t /\ k = m

(* The arguments: the stream of a space read once, else a copy of its own. *)
ArgsOK ==
  /\ \A p \in DOMAIN processes : \A n, x :
       ArgIs(p, n, x) =>
         /\ n \in DOMAIN processes[p].ins
         /\ IF Shared(processes[p].ins[n])
            THEN Holds(cpyStreams[processes[p].ins[n]], x)
            ELSE x = stream[processes[p].ins[n]]
  /\ \A s \in DOMAIN spaces : \A k \in DOMAIN cpyStreams[s] :
       \E p \in DOMAIN processes : \E n \in DOMAIN processes[p].ins :
         processes[p].ins[n] = s /\ ArgIs(p, n, cpyStreams[s][k])
  /\ \A p, q \in DOMAIN processes : \A n, m, x :
       ArgIs(p, n, x) /\ ArgIs(q, m, x) => p = q /\ n = m

OutOK ==
  \A p \in DOMAIN processes :
    Scheduled(p) => /\ outStream[p] = stream[processes[p].out]
                    /\ outStream[p] # NoName

(* Backwards from the outputs: consumers, the space, its producer.         *)
Ordered(sch) ==
  \A i \in DOMAIN sch :
    /\ \A s \in DOMAIN spaces : sch[i] = SpaceNode(s) =>
         \A c \in Consumers(s) : Precedes(sch, ProcessNode(c[1]), i)
    /\ \A p \in DOMAIN processes :
         sch[i] = ProcessNode(p) /\ ~Unread(processes[p].out) =>
           Precedes(sch, SpaceNode(processes[p].out), i)
OrderOK == Ordered(schedule)

MarkTypeOK ==
  /\ outSpaces \in Seq(DOMAIN spaces)
  /\ stack \in Seq(Activation)
  /\ stream \in [DOMAIN spaces -> Name]
  /\ cpyStreams \in [DOMAIN spaces -> Seq(Name)]
  /\ inStreams \in [DOMAIN processes -> Seq(Name)]
  /\ outStream \in [DOMAIN processes -> Name]
  /\ schedule \in Seq(Node)
  /\ outId \in Nat
  /\ tmpId \in Nat

MarkInv ==
  /\ MarkTypeOK
  /\ StackOK(stack, schedule, inStreams)
  /\ PlanOK /\ NamesOK /\ CopiesOK /\ ArgsOK /\ OutOK /\ OrderOK

-----------------------------------------------------------------------------
(* The count that decides when a space is planned.                         *)
LEMMA LastConsumer ==
  ASSUME GraphOK, NEW s \in DOMAIN spaces, NEW M \in SUBSET Consumers(s),
         NEW c \in Consumers(s), c \notin M, NEW cp,
         Len(cp) = IF Shared(s) THEN Cardinality(M) + 1 ELSE 0
  PROVE  /\ PlanNow(s, cp) <=> M \cup {c} = Consumers(s)
         /\ Cardinality(M \cup {c}) = Cardinality(M) + 1
         /\ ~Unread(s)
         /\ ~Shared(s) => M = {}
  <1>1. /\ IsFiniteSet(Consumers(s)) /\ Cardinality(Consumers(s)) \in Nat
        /\ Cardinality(Consumers(s)) = Len(spaces[s].dst)
        /\ spaces[s].dst \in Seq(Nat)
    BY FS_CardinalityType DEF GraphOK
  <1>2. /\ IsFiniteSet(M) /\ Cardinality(M) \in Nat
        /\ Cardinality(M) <= Cardinality(Consumers(s))
    BY <1>1, FS_Subset, FS_CardinalityType
  <1>3. PICK N : N = M \cup {c}
    OBVIOUS
  <1>4. Cardinality(N) = Cardinality(M) + 1
    BY <1>2, <1>3, FS_AddElement
  <1>5. /\ N \in SUBSET Consumers(s)
        /\ Cardinality(N) <= Cardinality(Consumers(s))
        /\ Cardinality(Consumers(s)) = Cardinality(N) => Consumers(s) = N
    <2>1. N \in SUBSET Consumers(s)
      BY <1>3
    <2> QED
      BY <1>1, <2>1, FS_Subset
  <1>6. spaces[s].dst # << >>
    BY <1>1, <1>2, <1>4, <1>5
  <1>7. PICK l, m, k : /\ l = Len(spaces[s].dst) /\ m = Cardinality(M)
                        /\ k = Cardinality(N)
    OBVIOUS
  <1>8. /\ l \in Nat /\ m \in Nat /\ k = m + 1 /\ k <= l
         /\ Cardinality(Consumers(s)) = l
    BY <1>1, <1>2, <1>4, <1>5, <1>7
  <1>9. CASE Shared(s)
    <2>1. l > 1 /\ Len(cp) = k
      BY <1>7, <1>8, <1>9 DEF Shared
    <2>2. PlanNow(s, cp) <=> l = k
      <3>1. PlanNow(s, cp) <=> l = 1 \/ l = Len(cp)
        BY <1>7, Zenon DEF PlanNow
      <3> QED
        BY <1>8, <2>1, <3>1
    <2>3. PlanNow(s, cp) <=> Cardinality(Consumers(s)) = Cardinality(N)
      BY <1>7, <1>8, <2>2
    <2> QED
      BY <1>3, <1>4, <1>5, <1>6, <1>9, <2>3 DEF Unread
  <1>10. CASE ~Shared(s)
    <2>1. Cardinality(Consumers(s)) = 1 /\ Len(spaces[s].dst) = 1
      <3>1. ~(l > 1)
        BY <1>7, <1>10 DEF Shared
      <3>2. l = 1
        BY <1>8, <3>1
      <3> QED
        BY <1>7, <1>8, <3>2
    <2>2. PlanNow(s, cp)
      BY <2>1 DEF PlanNow
    <2>3. N = Consumers(s) /\ Cardinality(M) = 0
      BY <1>2, <1>4, <1>5, <2>1
    <2>4. M = {}
      BY <1>2, <2>3, FS_EmptySet
    <2> QED
      BY <1>3, <1>4, <1>6, <2>2, <2>3, <2>4 DEF Unread
  <1> QED
    BY <1>9, <1>10

LEMMA CreatedNames ==
  ASSUME GraphOK, NEW s \in DOMAIN spaces, NEW out \in Nat, NEW tmp \in Nat
  PROVE  \A named \in BOOLEAN : CreateStream(s, named, out, tmp) \in Name
  <1>1. spaces[s].image \in Image
    BY DEF GraphOK
  <1> QED
    BY <1>1, NameTypes DEF CreateStream, InName, OutName, TmpName

(* An iteration of markProcess, in the terms of the invariant: the n-th    *)
(* input of process p, space s, gets stream x.                             *)
InputPlanned(s) ==
  IF IsInput(s)
  THEN /\ schedule' = Append(schedule, SpaceNode(s))
       /\ outStream' = outStream
  ELSE /\ schedule' = Append(Append(schedule, SpaceNode(s)),
                             ProcessNode(spaces[s].src))
       /\ outStream' = [outStream EXCEPT ![spaces[s].src] = stream'[s]]

InputNamed(s, x, k) ==
  /\ \/ stream[s] # NoName /\ stream' = stream /\ k = tmpId
     \/ /\ stream[s] = NoName /\ IsInput(s) /\ k = tmpId
        /\ stream' = [stream EXCEPT ![s] = InName(spaces[s].image)]
     \/ /\ stream[s] = NoName /\ ~IsInput(s) /\ k = tmpId + 1
        /\ stream' = [stream EXCEPT ![s] = TmpName(tmpId)]
  /\ IF Shared(s)
     THEN /\ x = TmpName(k) /\ tmpId' = k + 1
          /\ cpyStreams' = [cpyStreams EXCEPT ![s] = Append(@, x)]
     ELSE /\ stream[s] = NoName /\ x = stream'[s] /\ tmpId' = k
          /\ cpyStreams' = cpyStreams

InputStep(p, n, s, x, k) ==
  /\ p \in DOMAIN processes /\ n \in DOMAIN processes[p].ins
  /\ s = processes[p].ins[n] /\ s \in DOMAIN spaces
  /\ ~Unread(s) /\ Scheduled(p)
  /\ \A y : ~ArgIs(p, n, y)
  /\ \A q \in DOMAIN processes : \A m, y :
       Arg(stack', inStreams', q, m, y)
         <=> ArgIs(q, m, y) \/ (q = p /\ m = n /\ y = x)
  /\ spaces' = spaces /\ processes' = processes
  /\ inStreams' = inStreams /\ outSpaces' = outSpaces /\ outId' = outId
  /\ stack' \in Seq(Activation)
  /\ StackOK(stack', schedule', inStreams)
  /\ x \in Name /\ k \in Nat
  /\ InputNamed(s, x, k)
  /\ IF Met(s) \cup {<<p, n>>} = Consumers(s) THEN InputPlanned(s)
     ELSE schedule' = schedule /\ outStream' = outStream

LEMMA MarkInputSteps ==
  ASSUME GraphOK, MarkInv, MarkInput
  PROVE  \E p, n, s, x, k : InputStep(p, n, s, x, k)
  <1>1. PICK a, p, n, s :
          a = Top /\ p = a.proc /\ n = a.next /\ s = processes[p].ins[n]
    OBVIOUS
  <1>2. PICK fresh, shared, first, k, copy, x, c :
          /\ fresh = (stream[s] = NoName)
          /\ shared = (Len(spaces[s].dst) > 1)
          /\ first = (IF fresh THEN CreateStream(s, FALSE, outId, tmpId)
                      ELSE NoName)
          /\ k = (IF fresh /\ ~IsInput(s) THEN tmpId + 1 ELSE tmpId)
          /\ copy = CreateStream(s, TRUE, outId, k)
          /\ x = (IF shared THEN copy ELSE first)
          /\ c = WithTop([a EXCEPT !.call = TRUE, !.stream = x])
    OBVIOUS
  <1>3. /\ stack # << >> /\ ~a.call /\ n <= Len(processes[p].ins)
        /\ stream' = IF fresh THEN [stream EXCEPT ![s] = first] ELSE stream
        /\ cpyStreams' = IF shared
                         THEN [cpyStreams EXCEPT ![s] = Append(@, copy)]
                         ELSE cpyStreams
        /\ tmpId' = IF shared THEN k + 1 ELSE k
        /\ IF PlanNow(s, cpyStreams'[s])
           THEN MarkProducer(s, Append(schedule, SpaceNode(s)), c)
           ELSE stack' = c /\ schedule' = schedule /\ outStream' = outStream
        /\ hostVars' = hostVars /\ outSpaces' = outSpaces
        /\ inStreams' = inStreams /\ outId' = outId
    BY <1>1, <1>2 DEF MarkInput
  <1>4. spaces' = spaces /\ processes' = processes
    BY <1>3 DEF hostVars, graphVars
  <1>5. /\ MarkTypeOK /\ StackOK(stack, schedule, inStreams)
        /\ PlanOK /\ NamesOK /\ CopiesOK
    BY DEF MarkInv
  <1>6. /\ stack \in Seq(Activation) /\ schedule \in Seq(Node)
        /\ inStreams \in [DOMAIN processes -> Seq(Name)]
        /\ outId \in Nat /\ tmpId \in Nat /\ k \in Nat
        /\ cpyStreams \in [DOMAIN spaces -> Seq(Name)]
    BY <1>2, <1>5 DEF MarkTypeOK
  <1>7. /\ p \in DOMAIN processes /\ n \in DOMAIN processes[p].ins
        /\ s \in DOMAIN spaces /\ Scheduled(p)
    <2>1. /\ p \in DOMAIN processes /\ Scheduled(p)
          /\ n = Len(inStreams[p]) + 1
      <3>1. PICK j : j = Len(stack)
        OBVIOUS
      <3>2. j \in DOMAIN stack /\ a = stack[j]
        BY <1>1, <1>3, <1>6, <3>1, TopOfStack DEF Top
      <3> QED
        BY <1>1, <1>5, <3>2 DEF StackOK, Scheduled
    <2>2. inStreams[p] \in Seq(Name) /\ processes[p].ins \in Seq(DOMAIN spaces)
      BY <1>6, <2>1 DEF GraphOK
    <2>3. n \in DOMAIN processes[p].ins
      BY <1>3, <2>1, <2>2
    <2>4. s \in DOMAIN spaces
      BY <1>1, <2>2, <2>3, ElementType
    <2> QED
      BY <2>1, <2>3, <2>4
  <1>8. x \in Name
    BY <1>2, <1>6, <1>7, CreatedNames, NameTypes
  <1>9. /\ c \in Seq(Activation)
        /\ StackOK(c, schedule, inStreams)
        /\ \A y : ~ArgIs(p, n, y)
        /\ \A q \in DOMAIN processes : \A m, y :
             Arg(c, inStreams, q, m, y)
               <=> ArgIs(q, m, y) \/ (q = p /\ m = n /\ y = x)
    <2>1. PICK b : b = [a EXCEPT !.call = TRUE, !.stream = x]
      OBVIOUS
    <2>2. PICK h : h = Len(stack)
      OBVIOUS
    <2>3. /\ h \in DOMAIN stack /\ stack[h] = a /\ a \in Activation
          /\ c = [stack EXCEPT ![h] = b]
      BY <1>1, <1>2, <1>3, <1>6, <2>1, <2>2, TopOfStack DEF WithTop, Top
    <2>4. /\ b \in Activation /\ b.proc = p /\ b.next = n /\ b.call
          /\ b.stream = x
      BY <1>1, <1>8, <2>1, <2>3 DEF Activation
    <2>5. /\ ~stack[h].call
          /\ stack[h].next \in DOMAIN processes[stack[h].proc].ins
          /\ b.proc = stack[h].proc /\ b.next = stack[h].next
      BY <1>1, <1>3, <1>7, <2>3, <2>4
    <2>6. /\ [stack EXCEPT ![h] = b] \in Seq(Activation)
          /\ StackOK([stack EXCEPT ![h] = b], schedule, inStreams)
      BY <1>5, <1>6, <2>3, <2>4, <2>5, CallKeepsStack
    <2>7. \A y : ~Arg(stack, inStreams, b.proc, b.next, y)
      BY <1>5, <1>6, <2>3, <2>4, <2>5, CallKeepsStack
    <2>8. \A q, m, y :
            Arg([stack EXCEPT ![h] = b], inStreams, q, m, y)
              <=> \/ Arg(stack, inStreams, q, m, y)
                  \/ q = b.proc /\ m = b.next /\ y = b.stream
      BY <1>5, <1>6, <2>3, <2>4, <2>5, CallKeepsStack
    <2>9. \A y : ~ArgIs(p, n, y)
      BY <2>4, <2>7 DEF ArgIs
    <2>10. \A q \in DOMAIN processes : \A m, y :
             Arg(c, inStreams, q, m, y)
               <=> ArgIs(q, m, y) \/ (q = p /\ m = n /\ y = x)
      <3>1. \A q, m, y : Arg(c, inStreams, q, m, y)
              <=> ArgIs(q, m, y) \/ (q = b.proc /\ m = b.next /\ y = b.stream)
        BY <2>3, <2>8 DEF ArgIs
      <3> QED
        BY <2>4, <3>1
    <2> QED
      BY <2>3, <2>6, <2>9, <2>10
  <1>10. /\ <<p, n>> \in Consumers(s) /\ <<p, n>> \notin Met(s)
         /\ Met(s) \in SUBSET Consumers(s)
    <2>1. n \in Nat
      BY <1>7 DEF GraphOK
    <2> QED
      BY <1>1, <1>7, <1>9, <2>1 DEF Met, Consumers
  <1>11. Len(cpyStreams'[s]) = IF Shared(s) THEN Cardinality(Met(s)) + 1 ELSE 0
    <2>1. Len(cpyStreams[s]) = IF Shared(s) THEN Cardinality(Met(s)) ELSE 0
      BY <1>5, <1>7 DEF CopiesOK
    <2>2. cpyStreams[s] \in Seq(Name)
      BY <1>6, <1>7
    <2>3. cpyStreams'[s] = IF shared THEN Append(cpyStreams[s], copy)
                           ELSE cpyStreams[s]
      BY <1>3, <1>6, <1>7
    <2>4. shared <=> Shared(s)
      BY <1>2 DEF Shared
    <2>5. Len(Append(cpyStreams[s], copy)) = Len(cpyStreams[s]) + 1
      BY <2>2
    <2> QED
      BY <2>1, <2>3, <2>4, <2>5
  <1>12. /\ PlanNow(s, cpyStreams'[s])
              <=> Met(s) \cup {<<p, n>>} = Consumers(s)
         /\ ~Unread(s)
         /\ ~Shared(s) => Met(s) = {}
    BY <1>7, <1>10, <1>11, LastConsumer
  <1>13. InputNamed(s, x, k)
    <2>1. ~IsOutput(s)
      BY <1>12 DEF Unread, IsOutput
    <2>2. /\ copy = TmpName(k)
          /\ fresh => first = IF IsInput(s) THEN InName(spaces[s].image)
                              ELSE TmpName(tmpId)
      BY <1>2, <2>1, StreamNames
    <2>3. ~Shared(s) => stream[s] = NoName
      BY <1>5, <1>7, <1>12 DEF NamesOK, Named
    <2>4. stream \in [DOMAIN spaces -> Name]
      BY <1>5 DEF MarkTypeOK
    <2>5. (fresh <=> stream[s] = NoName) /\ (shared <=> Shared(s))
      BY <1>2 DEF Shared
    <2>6. /\ fresh => stream' = [stream EXCEPT ![s] = first]
          /\ ~fresh => stream' = stream
          /\ shared => /\ cpyStreams' = [cpyStreams EXCEPT ![s] = Append(@, copy)]
                       /\ tmpId' = k + 1 /\ x = copy
          /\ ~shared => cpyStreams' = cpyStreams /\ tmpId' = k /\ x = first
          /\ fresh /\ ~IsInput(s) => k = tmpId + 1
          /\ ~fresh \/ IsInput(s) => k = tmpId
      BY <1>2, <1>3
    <2>7. fresh => stream'[s] = first
      BY <1>7, <2>4, <2>6
    <2>8. \/ stream[s] # NoName /\ stream' = stream /\ k = tmpId
          \/ /\ stream[s] = NoName /\ IsInput(s) /\ k = tmpId
             /\ stream' = [stream EXCEPT ![s] = InName(spaces[s].image)]
          \/ /\ stream[s] = NoName /\ ~IsInput(s) /\ k = tmpId + 1
             /\ stream' = [stream EXCEPT ![s] = TmpName(tmpId)]
      BY <2>2, <2>5, <2>6
    <2>9. CASE Shared(s)
      BY <2>2, <2>5, <2>6, <2>8, <2>9 DEF InputNamed
    <2>10. CASE ~Shared(s)
      BY <2>3, <2>5, <2>6, <2>7, <2>8, <2>10 DEF InputNamed
    <2> QED
      BY <2>9, <2>10
  <1>14. SpaceNode(s) \in Node
    BY <1>7, NodeTypes
  <1>15. PICK sch : sch = Append(schedule, SpaceNode(s))
    OBVIOUS
  <1>16. /\ sch \in Seq(Node)
         /\ StackOK(c, sch, inStreams)
         /\ \A y : Holds(sch, y) <=> Holds(schedule, y) \/ y = SpaceNode(s)
    BY <1>6, <1>7, <1>9, <1>14, <1>15, AppendNew, PlanKeepsStack
  <1>17. /\ stack' \in Seq(Activation)
         /\ StackOK(stack', schedule', inStreams)
         /\ \A q \in DOMAIN processes : \A m, y :
              Arg(stack', inStreams, q, m, y) <=> Arg(c, inStreams, q, m, y)
         /\ IF Met(s) \cup {<<p, n>>} = Consumers(s) THEN InputPlanned(s)
            ELSE schedule' = schedule /\ outStream' = outStream
    <2>1. CASE ~(Met(s) \cup {<<p, n>>} = Consumers(s))
      BY <1>3, <1>9, <1>12, <2>1
    <2>2. CASE Met(s) \cup {<<p, n>>} = Consumers(s) /\ IsInput(s)
      <3>1. stack' = c /\ schedule' = sch /\ outStream' = outStream
        BY <1>3, <1>12, <1>15, <2>2 DEF MarkProducer
      <3> QED
        BY <1>9, <1>15, <1>16, <2>2, <3>1 DEF InputPlanned
    <2>3. CASE Met(s) \cup {<<p, n>>} = Consumers(s) /\ ~IsInput(s)
      <3>1. PICK q : q = spaces[s].src
        OBVIOUS
      <3>2. q \in DOMAIN processes /\ processes[q].out = s
        BY <1>7, <2>3, <3>1 DEF IsInput, GraphOK
      <3>3. ~Holds(sch, ProcessNode(q))
        <4>1. ~Planned(s)
          BY <1>5, <1>7, <1>10 DEF PlanOK
        <4>2. ~Scheduled(q)
          BY <1>5, <1>12, <3>2, <4>1 DEF PlanOK
        <4> QED
          BY <1>16, <4>2, NodesDiffer DEF Scheduled
      <3>4. /\ stack' = Append(c, NewActivation(q))
            /\ schedule' = Append(sch, ProcessNode(q))
            /\ outStream' = [outStream EXCEPT ![q] = stream'[s]]
        BY <1>3, <1>12, <1>15, <2>3, <3>1 DEF MarkProducer, NewActivation
      <3>5. /\ Append(c, NewActivation(q)) \in Seq(Activation)
            /\ StackOK(Append(c, NewActivation(q)), Append(sch, ProcessNode(q)),
                       inStreams)
            /\ \A r \in DOMAIN processes : \A m, y :
                 Arg(Append(c, NewActivation(q)), inStreams, r, m, y)
                   <=> Arg(c, inStreams, r, m, y)
        BY <1>6, <1>9, <1>16, <3>2, <3>3, PushKeepsStack
      <3>6. InputPlanned(s)
        BY <1>15, <2>3, <3>1, <3>4 DEF InputPlanned
      <3> QED
        BY <2>3, <3>4, <3>5, <3>6
    <2> QED
      BY <2>1, <2>2, <2>3
  <1>18. InputStep(p, n, s, x, k)
    BY <1>1, <1>3, <1>4, <1>6, <1>7, <1>8, <1>9, <1>12, <1>13, <1>17
       DEF InputStep
  <1> QED
    BY <1>18

-----------------------------------------------------------------------------
(* What follows the graph alone does not change.                           *)
LEMMA SameGraph ==
  ASSUME spaces' = spaces, processes' = processes
  PROVE  /\ \A s : /\ Consumers(s)' = Consumers(s)
                  /\ Unread(s)' = Unread(s) /\ Shared(s)' = Shared(s)
                  /\ IsInput(s)' = IsInput(s)
         /\ Node' = Node
         /\ \A sch : Ordered(sch)' = Ordered(sch)
         /\ \A st, sch, inS : StackOK(st, sch, inS)' = StackOK(st, sch, inS)
  BY DEF Consumers, Unread, Shared, IsInput, Node, Ordered, StackOK

LEMMA OnlyScheduledHaveArgs ==
  ASSUME MarkInv, NEW p \in DOMAIN processes, NEW n, NEW x, ArgIs(p, n, x)
  PROVE  Scheduled(p)
  BY DEF MarkInv, ArgIs, Arg, StackOK, Scheduled

LEMMA SpaceKeepsOrder ==
  ASSUME NEW sch \in Seq(Node), Ordered(sch), NEW s \in DOMAIN spaces,
         \A c \in Consumers(s) : Holds(sch, ProcessNode(c[1]))
  PROVE  Ordered(Append(sch, SpaceNode(s)))
  <1>1. PICK new, l : new = Append(sch, SpaceNode(s)) /\ l = Len(sch) + 1
    OBVIOUS
  <1>2. /\ DOMAIN new = DOMAIN sch \cup {l} /\ new[l] = SpaceNode(s)
        /\ \A i \in DOMAIN sch :
             /\ new[i] = sch[i]
             /\ \A x : Precedes(sch, x, i) => Precedes(new, x, i)
        /\ \A x : Holds(sch, x) => Precedes(new, x, l)
    BY <1>1, NodeTypes, AppendNew
  <1>3. ASSUME NEW i \in DOMAIN new, NEW t \in DOMAIN spaces,
               new[i] = SpaceNode(t), NEW c \in Consumers(t)
        PROVE  Precedes(new, ProcessNode(c[1]), i)
    <2>1. CASE i = l
      BY <1>2, <1>3, <2>1, NodesDiffer
    <2>2. CASE i # l
      BY <1>2, <1>3, <2>2 DEF Ordered
    <2> QED
      BY <2>1, <2>2
  <1>4. ASSUME NEW i \in DOMAIN new, NEW p \in DOMAIN processes,
               new[i] = ProcessNode(p), ~Unread(processes[p].out)
        PROVE  Precedes(new, SpaceNode(processes[p].out), i)
    <2>1. i # l
      BY <1>2, <1>4, NodesDiffer
    <2> QED
      BY <1>2, <1>4, <2>1 DEF Ordered
  <1> QED
    BY <1>1, <1>3, <1>4 DEF Ordered

LEMMA ProcessKeepsOrder ==
  ASSUME NEW sch \in Seq(Node), Ordered(sch), NEW q \in DOMAIN processes,
         ~Unread(processes[q].out) => Holds(sch, SpaceNode(processes[q].out))
  PROVE  Ordered(Append(sch, ProcessNode(q)))
  <1>1. PICK new, l : new = Append(sch, ProcessNode(q)) /\ l = Len(sch) + 1
    OBVIOUS
  <1>2. /\ DOMAIN new = DOMAIN sch \cup {l} /\ new[l] = ProcessNode(q)
        /\ \A i \in DOMAIN sch :
             /\ new[i] = sch[i]
             /\ \A x : Precedes(sch, x, i) => Precedes(new, x, i)
        /\ \A x : Holds(sch, x) => Precedes(new, x, l)
    BY <1>1, NodeTypes, AppendNew
  <1>3. ASSUME NEW i \in DOMAIN new, NEW t \in DOMAIN spaces,
               new[i] = SpaceNode(t), NEW c \in Consumers(t)
        PROVE  Precedes(new, ProcessNode(c[1]), i)
    <2>1. i # l
      BY <1>2, <1>3, NodesDiffer
    <2> QED
      BY <1>2, <1>3, <2>1 DEF Ordered
  <1>4. ASSUME NEW i \in DOMAIN new, NEW p \in DOMAIN processes,
               new[i] = ProcessNode(p), ~Unread(processes[p].out)
        PROVE  Precedes(new, SpaceNode(processes[p].out), i)
    <2>1. CASE i = l
      <3>1. p = q
        BY <1>2, <1>4, <2>1, NodesDiffer
      <3> QED
        BY <1>2, <1>4, <2>1, <3>1
    <2>2. CASE i # l
      BY <1>2, <1>4, <2>2 DEF Ordered
    <2> QED
      BY <2>1, <2>2
  <1> QED
    BY <1>1, <1>3, <1>4 DEF Ordered

-----------------------------------------------------------------------------
(* An input keeps the invariant.                                           *)
LEMMA InputMet ==
  ASSUME GraphOK, NEW p, NEW n, NEW s, NEW x, NEW k, InputStep(p, n, s, x, k)
  PROVE  /\ \A q \in DOMAIN processes : \A m, y :
              ArgIs(q, m, y)' <=> ArgIs(q, m, y) \/ (q = p /\ m = n /\ y = x)
         /\ <<p, n>> \in Consumers(s) /\ <<p, n>> \notin Met(s)
         /\ Met(s)' = Met(s) \cup {<<p, n>>}
         /\ \A t : t # s => Met(t)' = Met(t)
  <1>1. /\ p \in DOMAIN processes /\ n \in DOMAIN processes[p].ins
        /\ s = processes[p].ins[n] /\ s \in DOMAIN spaces
        /\ \A y : ~ArgIs(p, n, y)
        /\ spaces' = spaces /\ processes' = processes
    BY DEF InputStep
  <1>2. \A q \in DOMAIN processes : \A m, y :
          ArgIs(q, m, y)' <=> ArgIs(q, m, y) \/ (q = p /\ m = n /\ y = x)
    BY DEF InputStep, ArgIs
  <1>3. n \in Nat
    BY <1>1 DEF GraphOK
  <1>4. <<p, n>> \in Consumers(s) /\ <<p, n>> \notin Met(s)
    BY <1>1, <1>3 DEF Consumers, Met
  <1>5. ASSUME NEW t, NEW c
        PROVE  c \in Met(t)' <=> c \in Met(t) \/ (t = s /\ c = <<p, n>>)
    <2>1. Consumers(t)' = Consumers(t)
      BY <1>1, SameGraph
    <2>2. CASE c \notin Consumers(t)
      <3>1. ~(t = s /\ c = <<p, n>>)
        BY <1>4, <2>2
      <3> QED
        BY <2>1, <2>2, <3>1 DEF Met
    <2>3. ASSUME NEW q \in DOMAIN processes, NEW m \in Nat, c = <<q, m>>,
                 c \in Consumers(t)
          PROVE  c \in Met(t)' <=> c \in Met(t) \/ (t = s /\ c = <<p, n>>)
      <3>1. (\E y : ArgIs(q, m, y)') <=> (\E y : ArgIs(q, m, y)) \/ (q = p /\ m = n)
        BY <1>2
      <3>2. q = p /\ m = n => t = s
        BY <1>1, <2>3 DEF Consumers
      <3>3. c = <<p, n>> <=> q = p /\ m = n
        BY <2>3
      <3>4. /\ c \in Met(t) <=> \E y : ArgIs(q, m, y)
            /\ c \in Met(t)' <=> \E y : ArgIs(q, m, y)'
        BY <2>1, <2>3 DEF Met
      <3> QED
        BY <3>1, <3>2, <3>3, <3>4
    <2>4. c \in Consumers(t) =>
            \E q \in DOMAIN processes : \E m \in Nat : c = <<q, m>>
      BY DEF Consumers
    <2> QED
      BY <2>2, <2>3, <2>4
  <1>6. Met(s)' = Met(s) \cup {<<p, n>>}
    <2>1. \A c : c \in Met(s)' <=> c \in Met(s) \/ c = <<p, n>>
      BY <1>5
    <2> QED
      BY <2>1, Zenon
  <1>7. ASSUME NEW t, t # s
        PROVE  Met(t)' = Met(t)
    <2>1. \A c : c \in Met(t)' <=> c \in Met(t)
      BY <1>5, <1>7
    <2> QED
      BY <2>1, Zenon
  <1> QED
    BY <1>2, <1>4, <1>6, <1>7

LEMMA InputPlan ==
  ASSUME GraphOK, MarkInv, NEW p, NEW n, NEW s, NEW x, NEW k,
         InputStep(p, n, s, x, k)
  PROVE  /\ ~Planned(s)
         /\ schedule' \in Seq(Node) /\ Distinct(schedule') /\ Ordered(schedule')
         /\ \A t \in DOMAIN spaces :
              Planned(t)' <=> Planned(t) \/ (t = s /\ Met(s)' = Consumers(s))
         /\ \A q \in DOMAIN processes :
              Scheduled(q)' <=> \/ Scheduled(q)
                               \/ /\ Met(s)' = Consumers(s)
                                  /\ spaces[s].src = q
         /\ \A q \in DOMAIN processes : spaces[s].src = q => ~Scheduled(q)
         /\ outStream' = IF Met(s)' = Consumers(s) /\ ~IsInput(s)
                         THEN [outStream EXCEPT ![spaces[s].src] = stream'[s]]
                         ELSE outStream
  <1>1. /\ s \in DOMAIN spaces /\ p \in DOMAIN processes /\ ~Unread(s)
        /\ Scheduled(p)
        /\ IF Met(s) \cup {<<p, n>>} = Consumers(s) THEN InputPlanned(s)
           ELSE schedule' = schedule /\ outStream' = outStream
    BY DEF InputStep
  <1>2. /\ <<p, n>> \in Consumers(s) /\ <<p, n>> \notin Met(s)
        /\ Met(s)' = Met(s) \cup {<<p, n>>}
    BY InputMet
  <1>3. PICK all : all = (Met(s)' = Consumers(s))
    OBVIOUS
  <1>4. /\ PlanOK /\ Ordered(schedule) /\ schedule \in Seq(Node)
        /\ Distinct(schedule)
    BY DEF MarkInv, MarkTypeOK, PlanOK, OrderOK
  <1>5. ~Planned(s)
    BY <1>1, <1>2, <1>4 DEF PlanOK
  <1>6. ASSUME NEW q \in DOMAIN processes, spaces[s].src = q
        PROVE  ~Scheduled(q) /\ processes[q].out = s /\ ~IsInput(s)
    <2>1. processes[q].out = s /\ q # 0
      BY <1>1, <1>6 DEF GraphOK
    <2> QED
      BY <1>1, <1>4, <1>5, <1>6, <2>1 DEF PlanOK, IsInput
  <1>7. ~IsInput(s) => spaces[s].src \in DOMAIN processes
    BY <1>1 DEF GraphOK, IsInput
  <1>8. PICK sch : sch = Append(schedule, SpaceNode(s))
    OBVIOUS
  <1>9. /\ sch \in Seq(Node) /\ Distinct(sch)
        /\ \A y : Holds(sch, y) <=> Holds(schedule, y) \/ y = SpaceNode(s)
    BY <1>1, <1>4, <1>5, <1>8, NodeTypes, AppendNew DEF Planned
  <1>10. all => Ordered(sch)
    <2>1. ASSUME all, NEW c \in Consumers(s)
          PROVE  Holds(schedule, ProcessNode(c[1]))
      <3>1. CASE c = <<p, n>>
        BY <1>1, <3>1 DEF Scheduled
      <3>2. CASE c \in Met(s)
        <4>1. c[1] \in DOMAIN processes /\ \E y : ArgIs(c[1], c[2], y)
          BY <3>2 DEF Met, Consumers
        <4> QED
          BY <4>1, OnlyScheduledHaveArgs DEF Scheduled
      <3> QED
        BY <1>2, <1>3, <2>1, <3>1, <3>2
    <2> QED
      BY <1>1, <1>4, <1>8, <2>1, SpaceKeepsOrder
  <1>11. CASE ~all
    BY <1>1, <1>2, <1>3, <1>4, <1>5, <1>6, <1>11 DEF Planned, Scheduled
  <1>12. CASE all /\ IsInput(s)
    <2>1. schedule' = sch /\ outStream' = outStream
      BY <1>1, <1>2, <1>3, <1>8, <1>12 DEF InputPlanned
    <2>2. \A t : Planned(t)' <=> Planned(t) \/ t = s
      BY <1>9, <2>1, NodesDiffer DEF Planned
    <2>3. \A q : Scheduled(q)' <=> Scheduled(q)
      BY <1>9, <2>1, NodesDiffer DEF Scheduled
    <2> QED
      BY <1>3, <1>5, <1>6, <1>9, <1>10, <1>12, <2>1, <2>2, <2>3
  <1>13. CASE all /\ ~IsInput(s)
    <2>1. PICK r, new : r = spaces[s].src /\ new = Append(sch, ProcessNode(r))
      OBVIOUS
    <2>2. /\ schedule' = new
          /\ outStream' = [outStream EXCEPT ![spaces[s].src] = stream'[s]]
      BY <1>1, <1>2, <1>3, <1>8, <1>13, <2>1 DEF InputPlanned
    <2>3. r \in DOMAIN processes /\ ~Scheduled(r) /\ processes[r].out = s
      BY <1>6, <1>7, <1>13, <2>1
    <2>4. ~Holds(sch, ProcessNode(r))
      BY <1>9, <2>3, NodesDiffer DEF Scheduled
    <2>5. /\ new \in Seq(Node) /\ Distinct(new)
          /\ \A y : Holds(new, y) <=> Holds(sch, y) \/ y = ProcessNode(r)
      BY <1>9, <2>1, <2>3, <2>4, NodeTypes, AppendNew
    <2>6. Ordered(new)
      BY <1>9, <1>10, <1>13, <2>1, <2>3, ProcessKeepsOrder
    <2>7. \A t : Planned(t)' <=> Planned(t) \/ t = s
      BY <1>9, <2>2, <2>5, NodesDiffer DEF Planned
    <2>8. \A q : Scheduled(q)' <=> Scheduled(q) \/ q = r
      BY <1>9, <2>2, <2>5, NodesDiffer DEF Scheduled
    <2> QED
      BY <1>3, <1>5, <1>6, <1>13, <2>1, <2>2, <2>5, <2>6, <2>7, <2>8
  <1> QED
    BY <1>11, <1>12, <1>13

LEMMA InputKeepsPlan ==
  ASSUME GraphOK, MarkInv, NEW p, NEW n, NEW s, NEW x, NEW k,
         InputStep(p, n, s, x, k)
  PROVE  PlanOK'
  <1>1. /\ s \in DOMAIN spaces /\ ~Unread(s)
        /\ spaces' = spaces /\ processes' = processes
        /\ outSpaces' = outSpaces
    BY DEF InputStep
  <1>2. PlanOK
    BY DEF MarkInv
  <1>3. /\ Distinct(schedule)' /\ Distinct(outSpaces)'
        /\ \A t : Waiting(t)' = Waiting(t) /\ Unread(t)' = Unread(t)
        /\ \A t : Consumers(t)' = Consumers(t)
    BY <1>1, <1>2, InputPlan, SameGraph DEF PlanOK, Waiting, Distinct
  <1>4. ASSUME NEW t \in DOMAIN spaces
        PROVE  Planned(t)' <=> ~Unread(t)' /\ Met(t)' = Consumers(t)'
    <2>1. CASE t = s
      BY <1>1, <1>3, <2>1, InputPlan
    <2>2. CASE t # s
      <3>1. Met(t)' = Met(t)
        BY <2>2, InputMet
      <3>2. Planned(t)' <=> Planned(t)
        BY <2>2, InputPlan
      <3> QED
        BY <1>2, <1>3, <3>1, <3>2 DEF PlanOK
    <2> QED
      BY <2>1, <2>2
  <1>5. ASSUME NEW q \in DOMAIN processes, NEW t, t = processes[q].out
        PROVE  Scheduled(q)' <=> (Unread(t)' /\ ~Waiting(t)') \/ Planned(t)'
    <2>1. t \in DOMAIN spaces /\ spaces[t].src = q
      BY <1>5 DEF GraphOK
    <2>2. Scheduled(q) <=> (Unread(t) /\ ~Waiting(t)) \/ Planned(t)
      BY <1>2, <1>5 DEF PlanOK
    <2>3. q # 0 /\ (spaces[s].src # 0 => processes[spaces[s].src].out = s)
      BY <1>1 DEF GraphOK
    <2>4. spaces[s].src = q <=> t = s
      BY <1>5, <2>1, <2>3
    <2>5. Scheduled(q)' <=> Scheduled(q) \/ (Met(s)' = Consumers(s) /\ t = s)
      BY <2>4, InputPlan
    <2>6. Planned(t)' <=> Planned(t) \/ (t = s /\ Met(s)' = Consumers(s))
      BY <2>1, InputPlan
    <2> QED
      BY <1>3, <2>2, <2>5, <2>6
  <1> QED
    BY <1>1, <1>2, <1>3, <1>4, <1>5 DEF PlanOK

(* The names in use.                                                       *)
Used(y) ==
  \E t \in DOMAIN spaces :
    (y = stream[t] /\ y # NoName) \/ Holds(cpyStreams[t], y)

LEMMA UsedNames ==
  ASSUME MarkInv
  PROVE  /\ \A j \in Nat : Used(TmpName(j)) => j < tmpId
         /\ \A j \in Nat : Used(OutName(j)) => j < outId
         /\ \A i : Used(InName(i)) =>
              \E t \in DOMAIN spaces :
                /\ IsInput(t) /\ spaces[t].image = i /\ stream[t] # NoName
  <1>1. ASSUME NEW t \in DOMAIN spaces, NEW y, Holds(cpyStreams[t], y)
        PROVE  OldTmp(y)
    BY <1>1 DEF MarkInv, CopiesOK, Holds
  <1>2. ASSUME NEW t \in DOMAIN spaces, stream[t] # NoName
        PROVE  IF IsInput(t) THEN stream[t] = InName(spaces[t].image)
               ELSE IF Unread(t) THEN OldOut(stream[t])
               ELSE OldTmp(stream[t])
    BY <1>2 DEF MarkInv, NamesOK
  <1>3. ASSUME NEW y, Used(y)
        PROVE  \/ OldTmp(y) \/ OldOut(y)
               \/ \E t \in DOMAIN spaces :
                    /\ IsInput(t) /\ stream[t] # NoName
                    /\ y = InName(spaces[t].image)
    BY <1>1, <1>2, <1>3 DEF Used
  <1>4. ASSUME NEW j \in Nat, Used(TmpName(j))
        PROVE  j < tmpId
    BY <1>3, <1>4, NamesDiffer DEF OldTmp, OldOut
  <1>5. ASSUME NEW j \in Nat, Used(OutName(j))
        PROVE  j < outId
    BY <1>3, <1>5, NamesDiffer DEF OldTmp, OldOut
  <1>6. ASSUME NEW i, Used(InName(i))
        PROVE  \E t \in DOMAIN spaces :
                 IsInput(t) /\ spaces[t].image = i /\ stream[t] # NoName
    BY <1>3, <1>6, NamesDiffer DEF OldTmp, OldOut
  <1> QED
    BY <1>4, <1>5, <1>6

(* Every argument has a name, and the names an iteration gives are new.    *)
LEMMA ArgsAreUsed ==
  ASSUME GraphOK, MarkInv, NEW p \in DOMAIN processes, NEW n, NEW x, ArgIs(p, n, x)
  PROVE  /\ Used(x) /\ n \in DOMAIN processes[p].ins
         /\ <<p, n>> \in Met(processes[p].ins[n])
  <1>1. PICK s : s = processes[p].ins[n]
    OBVIOUS
  <1>2. /\ n \in DOMAIN processes[p].ins
        /\ IF Shared(s) THEN Holds(cpyStreams[s], x) ELSE x = stream[s]
    BY <1>1 DEF MarkInv, ArgsOK
  <1>3. s \in DOMAIN spaces /\ n \in Nat
    BY <1>1, <1>2, ElementType DEF GraphOK
  <1>4. <<p, n>> \in Met(s)
    BY <1>1, <1>2, <1>3 DEF Met, Consumers
  <1>5. spaces[s].dst # << >>
    <2>1. Consumers(s) # {}
      BY <1>4 DEF Met
    <2>2. Cardinality(Consumers(s)) # 0
      BY <1>3, <2>1, FS_EmptySet DEF GraphOK
    <2> QED
      BY <1>3, <2>2 DEF GraphOK
  <1>6. stream[s] # NoName
    <2>1. Named(s)
      BY <1>4, <1>5 DEF Named, Unread
    <2> QED
      BY <1>3, <2>1, NamesDiffer DEF MarkInv, NamesOK, OldTmp, OldOut
  <1> QED
    BY <1>1, <1>2, <1>3, <1>4, <1>6 DEF Used

LEMMA InputNames ==
  ASSUME GraphOK, MarkInv, NEW p, NEW n, NEW s, NEW x, NEW k,
         InputStep(p, n, s, x, k)
  PROVE  /\ tmpId' \in Nat /\ tmpId <= tmpId'
         /\ stream' \in [DOMAIN spaces -> Name]
         /\ \A t \in DOMAIN spaces : t # s => stream'[t] = stream[t]
         /\ stream'[s] # NoName
         /\ stream[s] = NoName =>
              /\ ~Used(stream'[s])
              /\ IF IsInput(s) THEN stream'[s] = InName(spaces[s].image)
                 ELSE stream'[s] = TmpName(tmpId) /\ tmpId < tmpId'
         /\ stream[s] # NoName => stream'[s] = stream[s]
         /\ IF Shared(s)
            THEN /\ x = TmpName(k) /\ k \in Nat /\ k < tmpId'
                 /\ \A t \in DOMAIN spaces : stream'[t] # x
                 /\ cpyStreams' = [cpyStreams EXCEPT ![s] = Append(@, x)]
            ELSE /\ stream[s] = NoName /\ x = stream'[s]
                 /\ cpyStreams' = cpyStreams
         /\ ~Used(x)
  <1>1. /\ s \in DOMAIN spaces /\ ~Unread(s) /\ InputNamed(s, x, k)
        /\ x \in Name /\ k \in Nat
    BY DEF InputStep
  <1>2. /\ stream \in [DOMAIN spaces -> Name] /\ tmpId \in Nat
        /\ spaces[s].image \in Image
    BY <1>1 DEF MarkInv, MarkTypeOK, GraphOK
  <1>3. /\ tmpId <= k /\ tmpId' \in Nat /\ k <= tmpId' /\ tmpId <= tmpId'
        /\ Shared(s) => k < tmpId'
    BY <1>1, <1>2 DEF InputNamed
  <1>4. /\ stream' \in [DOMAIN spaces -> Name]
        /\ \A t \in DOMAIN spaces : t # s => stream'[t] = stream[t]
        /\ stream[s] # NoName => stream'[s] = stream[s]
        /\ stream[s] = NoName =>
             IF IsInput(s) THEN stream'[s] = InName(spaces[s].image)
             ELSE stream'[s] = TmpName(tmpId) /\ k = tmpId + 1
    BY <1>1, <1>2, NameTypes DEF InputNamed
  <1>5. stream[s] = NoName /\ ~IsInput(s) => tmpId < tmpId'
    BY <1>2, <1>3, <1>4
  <1>6. stream[s] = NoName => ~Used(stream'[s])
    <2>1. ~Used(TmpName(tmpId))
      BY <1>2, UsedNames
    <2>2. ASSUME stream[s] = NoName, IsInput(s), Used(InName(spaces[s].image))
          PROVE  FALSE
      <3>1. PICK t \in DOMAIN spaces :
              /\ IsInput(t) /\ spaces[t].image = spaces[s].image
              /\ stream[t] # NoName
        BY <2>2, UsedNames
      <3> QED
        BY <1>1, <2>2, <3>1 DEF GraphOK, OneInputPerImage
    <2> QED
      BY <1>4, <2>1, <2>2
  <1>7. stream'[s] # NoName
    BY <1>4, NamesDiffer
  <1>8. CASE Shared(s)
    <2>1. x = TmpName(k) /\ cpyStreams' = [cpyStreams EXCEPT ![s] = Append(@, x)]
      BY <1>1, <1>8 DEF InputNamed
    <2>2. ~Used(x)
      BY <1>1, <1>2, <1>3, <2>1, UsedNames
    <2>3. ASSUME NEW t \in DOMAIN spaces
          PROVE  stream'[t] # x
      <3>1. CASE stream'[t] = stream[t]
        BY <2>1, <2>2, <3>1, NamesDiffer DEF Used
      <3>2. CASE stream'[t] # stream[t]
        <4>1. t = s /\ stream[s] = NoName
          BY <1>4, <3>2
        <4>2. IsInput(s) \/ (stream'[s] = TmpName(tmpId) /\ k # tmpId)
          BY <1>2, <1>4, <4>1
        <4> QED
          BY <1>4, <2>1, <4>1, <4>2, NamesDiffer
      <3> QED
        BY <3>1, <3>2
    <2> QED
      BY <1>1, <1>3, <1>4, <1>5, <1>6, <1>7, <1>8, <2>1, <2>2, <2>3
  <1>9. CASE ~Shared(s)
    <2>1. stream[s] = NoName /\ x = stream'[s] /\ cpyStreams' = cpyStreams
      BY <1>1, <1>9 DEF InputNamed
    <2> QED
      BY <1>3, <1>4, <1>5, <1>6, <1>7, <1>9, <2>1
  <1> QED
    BY <1>8, <1>9

LEMMA InputKeepsNames ==
  ASSUME GraphOK, MarkInv, NEW p, NEW n, NEW s, NEW x, NEW k,
         InputStep(p, n, s, x, k)
  PROVE  NamesOK'
  <1>1. /\ s \in DOMAIN spaces /\ ~Unread(s)
        /\ spaces' = spaces /\ processes' = processes
        /\ outSpaces' = outSpaces /\ outId' = outId
        /\ tmpId \in Nat /\ NamesOK
    BY DEF InputStep, MarkInv, MarkTypeOK
  <1>2. /\ \A t : Unread(t)' = Unread(t) /\ Waiting(t)' = Waiting(t)
        /\ \A t : IsInput(t)' = IsInput(t)
    BY <1>1, SameGraph DEF Waiting
  <1>3. \A y : /\ OldTmp(y) => OldTmp(y)'
               /\ OldOut(y) => OldOut(y)'
    <2>1. tmpId' \in Nat /\ tmpId <= tmpId'
      BY InputNames
    <2>2. \A j \in Nat : j < tmpId => j < tmpId'
      BY <1>1, <2>1
    <2> QED
      BY <1>1, <2>2 DEF OldTmp, OldOut
  <1>4. ASSUME NEW t \in DOMAIN spaces
        PROVE  IF ~Named(t)' THEN stream'[t] = NoName
               ELSE IF IsInput(t)' THEN stream'[t] = InName(spaces'[t].image)
               ELSE IF Unread(t)' THEN OldOut(stream[t])'
               ELSE OldTmp(stream[t])'
    <2>1. IF ~Named(t) THEN stream[t] = NoName
          ELSE IF IsInput(t) THEN stream[t] = InName(spaces[t].image)
          ELSE IF Unread(t) THEN OldOut(stream[t])
          ELSE OldTmp(stream[t])
      BY <1>1 DEF NamesOK
    <2>2. CASE t # s
      <3>1. Met(t)' = Met(t) /\ stream'[t] = stream[t]
        <4>1. Met(t)' = Met(t)
          BY <2>2, InputMet
        <4>2. stream'[t] = stream[t]
          BY <2>2, InputNames
        <4> QED
          BY <4>1, <4>2
      <3>2. Named(t)' = Named(t)
        BY <1>2, <3>1 DEF Named
      <3>3. /\ OldTmp(stream[t]) => OldTmp(stream[t])'
            /\ OldOut(stream[t]) => OldOut(stream[t])'
        BY <1>3, <3>1 DEF OldTmp, OldOut
      <3> QED
        BY <1>1, <1>2, <2>1, <3>1, <3>2, <3>3
    <2>3. CASE t = s /\ stream[s] # NoName
      <3>1. stream'[s] = stream[s] /\ <<p, n>> \in Met(s)'
        BY <2>3, InputNames, InputMet
      <3>2. Named(s)' /\ Named(s)
        BY <1>1, <1>2, <2>1, <2>3, <3>1 DEF Named
      <3> QED
        BY <1>1, <1>2, <1>3, <2>1, <2>3, <3>1, <3>2 DEF OldTmp, OldOut
    <2>4. CASE t = s /\ stream[s] = NoName
      <3>1. <<p, n>> \in Met(s)'
        BY InputMet
      <3>2. Named(s)'
        BY <1>1, <1>2, <3>1 DEF Named
      <3>3. IF IsInput(s) THEN stream'[s] = InName(spaces[s].image)
            ELSE stream'[s] = TmpName(tmpId) /\ tmpId < tmpId'
        BY <2>4, InputNames
      <3>4. ~IsInput(s) => OldTmp(stream[s])'
        BY <1>1, <3>3 DEF OldTmp
      <3> QED
        BY <1>1, <1>2, <2>4, <3>2, <3>3, <3>4
    <2> QED
      BY <2>2, <2>3, <2>4
  <1>5. ASSUME NEW t \in DOMAIN spaces, t # s, stream'[t] = stream'[s]
        PROVE  stream'[t] = NoName
    <2>1. stream'[t] = stream[t]
      BY <1>5, InputNames
    <2>2. CASE stream[s] = NoName
      <3>1. ~Used(stream'[s])
        BY <2>2, InputNames
      <3> QED
        BY <1>5, <2>1, <3>1 DEF Used
    <2>3. CASE stream[s] # NoName
      <3>1. stream'[s] = stream[s]
        BY <2>3, InputNames
      <3> QED
        BY <1>1, <1>5, <2>1, <2>3, <3>1 DEF NamesOK
    <2> QED
      BY <2>2, <2>3
  <1>6. ASSUME NEW a \in DOMAIN spaces, NEW b \in DOMAIN spaces,
               stream'[a] = stream'[b], stream'[a] # NoName
        PROVE  a = b
    <2>1. CASE a = s \/ b = s
      BY <1>5, <1>6, <2>1
    <2>2. CASE a # s /\ b # s
      <3>1. stream'[a] = stream[a] /\ stream'[b] = stream[b]
        BY <2>2, InputNames
      <3> QED
        BY <1>1, <1>6, <3>1 DEF NamesOK
    <2> QED
      BY <2>1, <2>2
  <1> QED
    BY <1>1, <1>4, <1>6 DEF NamesOK

(* The count of the copies is the count of the consumers met.              *)
LEMMA MetCounted ==
  ASSUME GraphOK, NEW s \in DOMAIN spaces
  PROVE  /\ IsFiniteSet(Met(s)) /\ Cardinality(Met(s)) \in Nat
         /\ Met(s) \in SUBSET Consumers(s)
  <1>1. IsFiniteSet(Consumers(s))
    BY DEF GraphOK
  <1>2. Met(s) \in SUBSET Consumers(s)
    BY DEF Met
  <1>3. IsFiniteSet(Met(s))
    BY <1>1, <1>2, FS_Subset
  <1> QED
    BY <1>2, <1>3, FS_CardinalityType

LEMMA InputKeepsCopies ==
  ASSUME GraphOK, MarkInv, NEW p, NEW n, NEW s, NEW x, NEW k,
         InputStep(p, n, s, x, k)
  PROVE  /\ CopiesOK'
         /\ cpyStreams' \in [DOMAIN spaces -> Seq(Name)]
         /\ \A t \in DOMAIN spaces : \A y :
              Holds(cpyStreams'[t], y) <=>
                Holds(cpyStreams[t], y) \/ (t = s /\ Shared(s) /\ y = x)
  <1>1. /\ s \in DOMAIN spaces /\ ~Unread(s) /\ x \in Name
        /\ spaces' = spaces /\ processes' = processes
        /\ tmpId \in Nat /\ CopiesOK
        /\ cpyStreams \in [DOMAIN spaces -> Seq(Name)]
    BY DEF InputStep, MarkInv, MarkTypeOK
  <1>2. /\ \A t : Shared(t)' = Shared(t)
        /\ tmpId' \in Nat /\ tmpId <= tmpId'
    BY <1>1, SameGraph, InputNames
  <1>3. \A y : OldTmp(y) => OldTmp(y)'
    <2>1. \A j \in Nat : j < tmpId => j < tmpId'
      BY <1>1, <1>2
    <2> QED
      BY <2>1 DEF OldTmp
  <1>4. \A t \in DOMAIN spaces : t # s => cpyStreams'[t] = cpyStreams[t]
    BY <1>1, InputNames
  <1>5. PICK l : l = Len(cpyStreams[s]) + 1
    OBVIOUS
  <1>6. IF Shared(s)
        THEN /\ cpyStreams'[s] \in Seq(Name)
             /\ Len(cpyStreams'[s]) = Len(cpyStreams[s]) + 1
             /\ DOMAIN cpyStreams'[s] = DOMAIN cpyStreams[s] \cup {l}
             /\ cpyStreams'[s][l] = x
             /\ l \notin DOMAIN cpyStreams[s]
             /\ \A j \in DOMAIN cpyStreams[s] :
                  cpyStreams'[s][j] = cpyStreams[s][j]
        ELSE cpyStreams' = cpyStreams
    <2>1. cpyStreams[s] \in Seq(Name)
      BY <1>1
    <2>2. CASE Shared(s)
      <3>1. cpyStreams'[s] = Append(cpyStreams[s], x)
        BY <1>1, <2>2, InputNames
      <3> QED
        BY <1>1, <1>5, <2>1, <2>2, <3>1
    <2>3. CASE ~Shared(s)
      BY <2>3, InputNames
    <2> QED
      BY <2>2, <2>3
  <1>7. cpyStreams' \in [DOMAIN spaces -> Seq(Name)]
    <2>1. CASE Shared(s)
      <3>1. cpyStreams' = [cpyStreams EXCEPT ![s] = Append(@, x)]
        BY <2>1, InputNames
      <3> QED
        BY <1>1, <3>1
    <2>2. CASE ~Shared(s)
      BY <1>1, <1>6, <2>2
    <2> QED
      BY <2>1, <2>2
  <1>8. ASSUME NEW t \in DOMAIN spaces
        PROVE  Len(cpyStreams'[t]) = IF Shared(t)' THEN Cardinality(Met(t)')
                                     ELSE 0
    <2>1. Len(cpyStreams[t]) = IF Shared(t) THEN Cardinality(Met(t)) ELSE 0
      BY <1>1 DEF CopiesOK
    <2>2. CASE t # s
      <3>1. Met(t)' = Met(t) /\ cpyStreams'[t] = cpyStreams[t]
        BY <1>4, <2>2, InputMet
      <3> QED
        BY <1>2, <2>1, <3>1
    <2>3. CASE t = s
      <3>1. /\ <<p, n>> \notin Met(s) /\ Met(s)' = Met(s) \cup {<<p, n>>}
        BY InputMet
      <3>2. Cardinality(Met(s) \cup {<<p, n>>}) = Cardinality(Met(s)) + 1
        BY <1>1, <3>1, MetCounted, FS_AddElement
      <3> QED
        BY <1>2, <1>6, <2>1, <2>3, <3>1, <3>2
    <2> QED
      BY <2>2, <2>3
  <1>9. ASSUME NEW t \in DOMAIN spaces, NEW j \in DOMAIN cpyStreams'[t]
        PROVE  \/ /\ j \in DOMAIN cpyStreams[t]
                  /\ cpyStreams'[t][j] = cpyStreams[t][j]
               \/ /\ t = s /\ j = l /\ Shared(s) /\ cpyStreams'[t][j] = x
    BY <1>4, <1>6, <1>9
  <1>10. ASSUME NEW t \in DOMAIN spaces, NEW j \in DOMAIN cpyStreams[t]
         PROVE  /\ OldTmp(cpyStreams[t][j]) /\ Used(cpyStreams[t][j])
                /\ \A r \in DOMAIN spaces : stream[r] # cpyStreams[t][j]
    BY <1>1, <1>10 DEF CopiesOK, Used, Holds
  <1>11. ASSUME NEW t \in DOMAIN spaces, NEW j \in DOMAIN cpyStreams'[t]
         PROVE  /\ OldTmp(cpyStreams[t][j])'
                /\ \A r \in DOMAIN spaces : stream'[r] # cpyStreams'[t][j]
    <2>1. CASE j \in DOMAIN cpyStreams[t] /\ cpyStreams'[t][j] = cpyStreams[t][j]
      <3>1. /\ OldTmp(cpyStreams[t][j]) /\ Used(cpyStreams[t][j])
            /\ \A r \in DOMAIN spaces : stream[r] # cpyStreams[t][j]
        BY <1>10, <2>1
      <3>2. ASSUME NEW r \in DOMAIN spaces
            PROVE  stream'[r] # cpyStreams[t][j]
        <4>1. CASE stream'[r] = stream[r]
          BY <3>1, <4>1
        <4>2. CASE stream'[r] # stream[r]
          <5>1. r = s /\ stream[s] = NoName
            BY <4>2, InputNames
          <5>2. ~Used(stream'[r])
            BY <5>1, InputNames
          <5> QED
            BY <3>1, <5>2
        <4> QED
          BY <4>1, <4>2
      <3> QED
        BY <1>3, <2>1, <3>1, <3>2 DEF OldTmp
    <2>2. CASE Shared(s) /\ cpyStreams'[t][j] = x
      <3>1. /\ x = TmpName(k) /\ k \in Nat /\ k < tmpId'
            /\ \A r \in DOMAIN spaces : stream'[r] # x
        BY <2>2, InputNames
      <3> QED
        BY <2>2, <3>1 DEF OldTmp
    <2> QED
      BY <1>9, <2>1, <2>2
  <1>12. ASSUME NEW t \in DOMAIN spaces, NEW r \in DOMAIN spaces,
                NEW j \in DOMAIN cpyStreams'[t], NEW m \in DOMAIN cpyStreams'[r],
                cpyStreams'[t][j] = cpyStreams'[r][m]
         PROVE  t = r /\ j = m
    <2>1. ~Used(x)
      BY InputNames
    <2>2. CASE /\ j \in DOMAIN cpyStreams[t]
               /\ cpyStreams'[t][j] = cpyStreams[t][j]
               /\ m \in DOMAIN cpyStreams[r]
               /\ cpyStreams'[r][m] = cpyStreams[r][m]
      <3>1. cpyStreams[t][j] = cpyStreams[r][m]
        BY <1>12, <2>2
      <3>2. \A a, b \in DOMAIN spaces :
              \A c \in DOMAIN cpyStreams[a], d \in DOMAIN cpyStreams[b] :
                cpyStreams[a][c] = cpyStreams[b][d] => a = b /\ c = d
        BY <1>1 DEF CopiesOK
      <3> QED
        BY <2>2, <3>1, <3>2
    <2>3. CASE cpyStreams'[t][j] = x
      <3>1. ~(m \in DOMAIN cpyStreams[r] /\ cpyStreams'[r][m] = cpyStreams[r][m])
        BY <1>10, <1>12, <2>1, <2>3
      <3>2. ~(j \in DOMAIN cpyStreams[t] /\ cpyStreams'[t][j] = cpyStreams[t][j])
        BY <1>10, <1>12, <2>1, <2>3
      <3> QED
        BY <1>9, <3>1, <3>2
    <2>4. CASE cpyStreams'[r][m] = x
      BY <1>12, <2>3, <2>4
    <2> QED
      BY <1>9, <2>2, <2>3, <2>4
  <1>13. ASSUME NEW t \in DOMAIN spaces, NEW y
         PROVE  Holds(cpyStreams'[t], y) <=>
                  Holds(cpyStreams[t], y) \/ (t = s /\ Shared(s) /\ y = x)
    <2>1. CASE t = s /\ Shared(s)
      BY <1>6, <2>1 DEF Holds
    <2>2. CASE ~(t = s /\ Shared(s))
      <3>1. cpyStreams'[t] = cpyStreams[t]
        BY <1>4, <1>6, <2>2
      <3> QED
        BY <2>2, <3>1
    <2> QED
      BY <2>1, <2>2
  <1> QED
    BY <1>1, <1>7, <1>8, <1>11, <1>12, <1>13 DEF CopiesOK

LEMMA InputKeepsArgs ==
  ASSUME GraphOK, MarkInv, NEW p, NEW n, NEW s, NEW x, NEW k,
         InputStep(p, n, s, x, k)
  PROVE  ArgsOK'
  <1>1. /\ s \in DOMAIN spaces /\ ~Unread(s)
        /\ p \in DOMAIN processes /\ n \in DOMAIN processes[p].ins
        /\ s = processes[p].ins[n]
        /\ spaces' = spaces /\ processes' = processes
        /\ NamesOK /\ ArgsOK
    BY DEF InputStep, MarkInv
  <1>2. \A t : Shared(t)' = Shared(t)
    BY <1>1, SameGraph
  <1>3. ~Used(x)
    BY InputNames
  <1>4. \A q \in DOMAIN processes : \A m, y :
          ArgIs(q, m, y)' <=> ArgIs(q, m, y) \/ (q = p /\ m = n /\ y = x)
    BY InputMet
  <1>5. \A t \in DOMAIN spaces : \A y :
          Holds(cpyStreams'[t], y) <=>
            Holds(cpyStreams[t], y) \/ (t = s /\ Shared(s) /\ y = x)
    BY InputKeepsCopies
  <1>6. ASSUME NEW q \in DOMAIN processes, NEW m, NEW y, ArgIs(q, m, y)
        PROVE  /\ m \in DOMAIN processes[q].ins /\ y # x
               /\ IF Shared(processes[q].ins[m])
                  THEN Holds(cpyStreams'[processes[q].ins[m]], y)
                  ELSE y = stream'[processes[q].ins[m]]
    <2>1. PICK t : t = processes[q].ins[m]
      OBVIOUS
    <2>2. /\ m \in DOMAIN processes[q].ins /\ Used(y)
          /\ <<q, m>> \in Met(t)
      BY <1>6, <2>1, ArgsAreUsed
    <2>3. t \in DOMAIN spaces
      BY <2>1, <2>2, ElementType DEF GraphOK
    <2>4. IF Shared(t) THEN Holds(cpyStreams[t], y) ELSE y = stream[t]
      BY <1>1, <1>6, <2>1 DEF ArgsOK
    <2>5. CASE Shared(t)
      BY <1>3, <1>5, <2>1, <2>2, <2>3, <2>4, <2>5
    <2>6. CASE ~Shared(t)
      <3>1. CASE t # s
        <4>1. stream'[t] = stream[t]
          BY <2>3, <3>1, InputNames
        <4> QED
          BY <1>3, <2>1, <2>2, <2>4, <2>6, <4>1
      <3>2. CASE t = s
        <4>1. stream[s] = NoName
          BY <2>6, <3>2, InputNames
        <4>2. Named(s)
          BY <1>1, <2>2, <3>2 DEF Named
        <4>3. stream[s] # NoName
          BY <1>1, <4>2, NamesDiffer DEF NamesOK, OldTmp, OldOut
        <4> QED
          BY <4>1, <4>3
      <3> QED
        BY <3>1, <3>2
    <2> QED
      BY <2>5, <2>6
  <1>7. IF Shared(s) THEN Holds(cpyStreams'[s], x) ELSE x = stream'[s]
    <2>1. CASE Shared(s)
      BY <1>1, <1>5, <2>1
    <2>2. CASE ~Shared(s)
      BY <2>2, InputNames
    <2> QED
      BY <2>1, <2>2
  <1>8. ASSUME NEW q \in DOMAIN processes, NEW m, NEW y, ArgIs(q, m, y)'
        PROVE  /\ m \in DOMAIN processes[q].ins
               /\ IF Shared(processes[q].ins[m])
                  THEN Holds(cpyStreams'[processes[q].ins[m]], y)
                  ELSE y = stream'[processes[q].ins[m]]
    <2>1. CASE ArgIs(q, m, y)
      BY <1>6, <2>1
    <2>2. CASE q = p /\ m = n /\ y = x
      BY <1>1, <1>7, <2>2
    <2> QED
      BY <1>4, <1>8, <2>1, <2>2
  <1>9. ASSUME NEW t \in DOMAIN spaces, NEW j \in DOMAIN cpyStreams'[t]
        PROVE  \E q \in DOMAIN processes : \E m \in DOMAIN processes[q].ins :
                 processes[q].ins[m] = t /\ ArgIs(q, m, cpyStreams[t][j])'
    <2>1. PICK y : y = cpyStreams'[t][j]
      OBVIOUS
    <2>2. \E q \in DOMAIN processes : \E m \in DOMAIN processes[q].ins :
            processes[q].ins[m] = t /\ ArgIs(q, m, y)'
      <3>1. Holds(cpyStreams'[t], y)
        BY <1>9, <2>1 DEF Holds
      <3>2. CASE Holds(cpyStreams[t], y)
        <4>1. PICK i \in DOMAIN cpyStreams[t] : cpyStreams[t][i] = y
          BY <3>2 DEF Holds
        <4>2. \E q \in DOMAIN processes : \E m \in DOMAIN processes[q].ins :
                processes[q].ins[m] = t /\ ArgIs(q, m, y)
          BY <1>1, <4>1 DEF ArgsOK
        <4> QED
          BY <1>4, <4>2
      <3>3. CASE t = s /\ Shared(s) /\ y = x
        BY <1>1, <1>4, <3>3
      <3> QED
        BY <1>5, <3>1, <3>2, <3>3
    <2> QED
      BY <2>1, <2>2 DEF ArgIs
  <1>10. ASSUME NEW q \in DOMAIN processes, NEW r \in DOMAIN processes,
                NEW m, NEW l, NEW y, ArgIs(q, m, y)', ArgIs(r, l, y)'
         PROVE  q = r /\ m = l
    <2>1. /\ ArgIs(q, m, y) \/ (q = p /\ m = n /\ y = x)
          /\ ArgIs(r, l, y) \/ (r = p /\ l = n /\ y = x)
      BY <1>4, <1>10
    <2>2. CASE ArgIs(q, m, y) /\ ArgIs(r, l, y)
      BY <1>1, <2>2 DEF ArgsOK
    <2>3. CASE y = x
      <3>1. ~ArgIs(q, m, y) /\ ~ArgIs(r, l, y)
        BY <1>6, <2>3
      <3> QED
        BY <2>1, <3>1
    <2> QED
      BY <2>1, <2>2, <2>3
  <1> QED
    BY <1>1, <1>2, <1>8, <1>9, <1>10 DEF ArgsOK

LEMMA InputKeepsOut ==
  ASSUME GraphOK, MarkInv, NEW p, NEW n, NEW s, NEW x, NEW k,
         InputStep(p, n, s, x, k)
  PROVE  OutOK' /\ outStream' \in [DOMAIN processes -> Name]
  <1>1. /\ s \in DOMAIN spaces /\ spaces' = spaces /\ processes' = processes
        /\ OutOK /\ outStream \in [DOMAIN processes -> Name]
    BY DEF InputStep, MarkInv, MarkTypeOK
  <1>2. PICK all, str : all = (Met(s)' = Consumers(s)) /\ str = stream'
    OBVIOUS
  <1>3. /\ str \in [DOMAIN spaces -> Name] /\ str[s] # NoName
        /\ \A t \in DOMAIN spaces : stream[t] # NoName => str[t] = stream[t]
    BY <1>2, InputNames
  <1>4. outStream' = IF all /\ ~IsInput(s)
                     THEN [outStream EXCEPT ![spaces[s].src] = str[s]]
                     ELSE outStream
    BY <1>2, InputPlan
  <1>5. outStream' \in [DOMAIN processes -> Name]
    BY <1>1, <1>3, <1>4
  <1>6. ASSUME NEW q \in DOMAIN processes, Scheduled(q)'
        PROVE  outStream'[q] = str[processes[q].out] /\ outStream'[q] # NoName
    <2>1. CASE Scheduled(q)
      <3>1. /\ outStream[q] = stream[processes[q].out] /\ outStream[q] # NoName
            /\ processes[q].out \in DOMAIN spaces
        BY <1>1, <2>1 DEF OutOK, GraphOK
      <3>2. spaces[s].src # q
        BY <2>1, InputPlan
      <3>3. outStream'[q] = outStream[q]
        BY <1>1, <1>4, <3>2
      <3> QED
        BY <1>3, <3>1, <3>3
    <2>2. CASE all /\ spaces[s].src = q
      <3>1. processes[q].out = s /\ ~IsInput(s)
        BY <1>1, <2>2 DEF GraphOK, IsInput
      <3>2. outStream'[q] = str[s]
        BY <1>1, <1>4, <2>2, <3>1
      <3> QED
        BY <1>3, <3>1, <3>2
    <2>3. Scheduled(q) \/ (all /\ spaces[s].src = q)
      BY <1>2, <1>6, InputPlan
    <2> QED
      BY <2>1, <2>2, <2>3
  <1> QED
    BY <1>1, <1>2, <1>5, <1>6 DEF OutOK

LEMMA MarkInputKeepsInv ==
  ASSUME GraphOK, MarkInv, MarkInput
  PROVE  MarkInv'
  <1>1. PICK p, n, s, x, k : InputStep(p, n, s, x, k)
    BY MarkInputSteps
  <1>2. /\ spaces' = spaces /\ processes' = processes
        /\ inStreams' = inStreams /\ outSpaces' = outSpaces /\ outId' = outId
        /\ stack' \in Seq(Activation)
        /\ StackOK(stack', schedule', inStreams)
        /\ MarkTypeOK
    BY <1>1 DEF InputStep, MarkInv
  <1>3. MarkTypeOK'
    <2>1. /\ cpyStreams' \in [DOMAIN spaces -> Seq(Name)]
          /\ outStream' \in [DOMAIN processes -> Name]
          /\ schedule' \in Seq(Node)
          /\ stream' \in [DOMAIN spaces -> Name] /\ tmpId' \in Nat
      BY <1>1, InputKeepsCopies, InputKeepsOut, InputPlan, InputNames
    <2> QED
      BY <1>2, <2>1, SameGraph DEF MarkTypeOK
  <1>4. StackOK(stack, schedule, inStreams)'
    BY <1>2 DEF StackOK
  <1>5. OrderOK'
    <2>1. Ordered(schedule')
      BY <1>1, InputPlan
    <2> QED
      BY <1>2, <2>1, SameGraph DEF OrderOK, Ordered
  <1> QED
    BY <1>1, <1>3, <1>4, <1>5, InputKeepsPlan, InputKeepsNames, InputKeepsCopies,
       InputKeepsArgs, InputKeepsOut DEF MarkInv

-----------------------------------------------------------------------------
(* The steps that give no consumer a stream keep what is said of them.     *)
LEMMA MetKept ==
  ASSUME spaces' = spaces, processes' = processes,
         \A p \in DOMAIN processes : \A n, y :
           ArgIs(p, n, y)' <=> ArgIs(p, n, y)
  PROVE  \A t : Met(t)' = Met(t)
  <1>1. ASSUME NEW t, NEW c
        PROVE  c \in Met(t)' <=> c \in Met(t)
    <2>1. Consumers(t)' = Consumers(t)
      BY SameGraph
    <2>2. CASE c \in Consumers(t)
      <3>1. c[1] \in DOMAIN processes
        BY <2>2 DEF Consumers
      <3>2. (\E y : ArgIs(c[1], c[2], y)') <=> (\E y : ArgIs(c[1], c[2], y))
        BY <3>1
      <3> QED
        BY <2>1, <2>2, <3>2 DEF Met
    <2>3. CASE c \notin Consumers(t)
      BY <2>1, <2>3 DEF Met
    <2> QED
      BY <2>2, <2>3
  <1>2. ASSUME NEW t
        PROVE  Met(t)' = Met(t)
    <2>1. \A c : c \in Met(t)' <=> c \in Met(t)
      BY <1>1
    <2> QED
      BY <2>1, Zenon
  <1> QED
    BY <1>2

LEMMA NoConsumers ==
  ASSUME GraphOK, NEW s \in DOMAIN spaces, Unread(s)
  PROVE  Consumers(s) = {}
  <1>1. IsFiniteSet(Consumers(s)) /\ Cardinality(Consumers(s)) = 0
    BY DEF GraphOK, Unread
  <1> QED
    BY <1>1, FS_EmptySet

(* createSchedule starts from the next output space.                       *)
OutputStep(s, r) ==
  /\ s \in DOMAIN spaces /\ Unread(s) /\ Waiting(s)
  /\ r \in DOMAIN processes /\ processes[r].out = s /\ ~Scheduled(r)
  /\ \A q \in DOMAIN processes : processes[q].out = s => q = r
  /\ spaces' = spaces /\ processes' = processes
  /\ inStreams' = inStreams /\ cpyStreams' = cpyStreams
  /\ stream' = [stream EXCEPT ![s] = OutName(outId)]
  /\ outStream' = [outStream EXCEPT ![r] = OutName(outId)]
  /\ schedule' = Append(schedule, ProcessNode(r))
  /\ stack' = Append(stack, NewActivation(r))
  /\ outId' = outId + 1 /\ tmpId' = tmpId
  /\ outSpaces' \in Seq(DOMAIN spaces) /\ Distinct(outSpaces')
  /\ \A t : Waiting(t)' <=> Waiting(t) /\ t # s

LEMMA MarkOutputSteps ==
  ASSUME GraphOK, MarkInv, MarkOutput
  PROVE  \E s, r : OutputStep(s, r)
  <1>1. PICK s, r : s = Head(outSpaces) /\ r = spaces[s].src
    OBVIOUS
  <1>2. /\ outSpaces # << >> /\ outSpaces \in Seq(DOMAIN spaces)
        /\ Distinct(outSpaces) /\ PlanOK /\ stream \in [DOMAIN spaces -> Name]
        /\ outStream \in [DOMAIN processes -> Name]
    BY DEF MarkOutput, MarkInv, MarkTypeOK, PlanOK
  <1>3. /\ s \in DOMAIN spaces /\ Waiting(s)
        /\ Tail(outSpaces) \in Seq(DOMAIN spaces) /\ Distinct(Tail(outSpaces))
        /\ \A t : Holds(Tail(outSpaces), t) <=> Holds(outSpaces, t) /\ t # s
    BY <1>1, <1>2, DropFirst DEF Waiting
  <1>4. Unread(s) /\ IsOutput(s)
    BY <1>2, <1>3 DEF PlanOK, Unread, IsOutput
  <1>5. /\ ~IsInput(s) /\ r \in DOMAIN processes /\ processes[r].out = s
        /\ \A q \in DOMAIN processes : processes[q].out = s => q = r
    BY <1>1, <1>3, <1>4 DEF GraphOK, IsInput, IsOutput
  <1>6. ~Scheduled(r)
    BY <1>2, <1>3, <1>4, <1>5 DEF PlanOK
  <1>7. CreateStream(s, stream[s] # NoName, outId, tmpId) = OutName(outId)
    BY <1>4, <1>5, StreamNames
  <1>8. stream' = [stream EXCEPT ![s] = OutName(outId)]
    BY <1>1, <1>7 DEF MarkOutput
  <1>9. stream'[s] = OutName(outId)
    BY <1>2, <1>3, <1>8
  <1>10. /\ schedule' = Append(schedule, ProcessNode(r))
         /\ stack' = Append(stack, NewActivation(r))
         /\ outStream' = [outStream EXCEPT ![r] = OutName(outId)]
    BY <1>1, <1>5, <1>9 DEF MarkOutput, MarkProducer, NewActivation
  <1>11. /\ spaces' = spaces /\ processes' = processes
         /\ inStreams' = inStreams /\ cpyStreams' = cpyStreams
         /\ outId' = outId + 1 /\ tmpId' = tmpId /\ outSpaces' = Tail(outSpaces)
    BY DEF MarkOutput, hostVars, graphVars
  <1>12. OutputStep(s, r)
    BY <1>3, <1>4, <1>5, <1>6, <1>8, <1>10, <1>11 DEF OutputStep, Waiting
  <1> QED
    BY <1>12

LEMMA OutputFacts ==
  ASSUME GraphOK, MarkInv, NEW s, NEW r, OutputStep(s, r)
  PROVE  /\ \A q \in DOMAIN processes : \A n, y :
              ArgIs(q, n, y)' <=> ArgIs(q, n, y)
         /\ \A t : Met(t)' = Met(t)
         /\ stack' \in Seq(Activation)
         /\ StackOK(stack', schedule', inStreams)
         /\ schedule' \in Seq(Node) /\ Distinct(schedule') /\ Ordered(schedule')
         /\ \A t : Planned(t)' <=> Planned(t)
         /\ \A q : Scheduled(q)' <=> Scheduled(q) \/ q = r
         /\ stream' \in [DOMAIN spaces -> Name]
         /\ outStream' \in [DOMAIN processes -> Name]
         /\ outId' \in Nat
         /\ stream'[s] = OutName(outId) /\ outStream'[r] = OutName(outId)
         /\ \A t \in DOMAIN spaces : t # s => stream'[t] = stream[t]
         /\ \A q \in DOMAIN processes : q # r => outStream'[q] = outStream[q]
         /\ stream[s] = NoName /\ ~Used(OutName(outId)) /\ ~IsInput(s)
  <1>1. /\ s \in DOMAIN spaces /\ Unread(s) /\ Waiting(s)
        /\ r \in DOMAIN processes /\ processes[r].out = s /\ ~Scheduled(r)
        /\ spaces' = spaces /\ processes' = processes
        /\ inStreams' = inStreams
        /\ stream' = [stream EXCEPT ![s] = OutName(outId)]
        /\ outStream' = [outStream EXCEPT ![r] = OutName(outId)]
        /\ schedule' = Append(schedule, ProcessNode(r))
        /\ stack' = Append(stack, NewActivation(r))
        /\ outId' = outId + 1
    BY DEF OutputStep
  <1>2. /\ MarkTypeOK /\ StackOK(stack, schedule, inStreams) /\ PlanOK
        /\ NamesOK /\ Ordered(schedule)
    BY DEF MarkInv, OrderOK
  <1>3. /\ stack \in Seq(Activation) /\ schedule \in Seq(Node)
        /\ inStreams \in [DOMAIN processes -> Seq(Name)]
        /\ stream \in [DOMAIN spaces -> Name]
        /\ outStream \in [DOMAIN processes -> Name] /\ outId \in Nat
    BY <1>2 DEF MarkTypeOK
  <1>4. /\ stack' \in Seq(Activation)
        /\ StackOK(stack', schedule', inStreams)
        /\ \A q \in DOMAIN processes : \A n, y :
             Arg(stack', inStreams, q, n, y) <=> ArgIs(q, n, y)
    BY <1>1, <1>2, <1>3, PushKeepsStack DEF Scheduled, ArgIs
  <1>5. \A q \in DOMAIN processes : \A n, y :
          ArgIs(q, n, y)' <=> ArgIs(q, n, y)
    BY <1>1, <1>4 DEF ArgIs
  <1>6. \A t : Met(t)' = Met(t)
    BY <1>1, <1>5, MetKept
  <1>7. /\ schedule' \in Seq(Node) /\ Distinct(schedule')
        /\ \A x : Holds(schedule', x) <=> Holds(schedule, x) \/ x = ProcessNode(r)
    BY <1>1, <1>2, <1>3, NodeTypes, AppendNew DEF PlanOK, Scheduled
  <1>8. Ordered(schedule')
    BY <1>1, <1>2, <1>3, ProcessKeepsOrder
  <1>9. /\ \A t : Planned(t)' <=> Planned(t)
        /\ \A q : Scheduled(q)' <=> Scheduled(q) \/ q = r
    BY <1>7, NodesDiffer DEF Planned, Scheduled
  <1>10. /\ stream' \in [DOMAIN spaces -> Name]
         /\ outStream' \in [DOMAIN processes -> Name]
         /\ stream'[s] = OutName(outId) /\ outStream'[r] = OutName(outId)
         /\ \A t \in DOMAIN spaces : t # s => stream'[t] = stream[t]
         /\ \A q \in DOMAIN processes : q # r => outStream'[q] = outStream[q]
    BY <1>1, <1>3, NameTypes
  <1>11. stream[s] = NoName
    BY <1>1, <1>2 DEF NamesOK, Named
  <1>12. ~Used(OutName(outId)) /\ outId' \in Nat
    BY <1>1, <1>3, UsedNames
  <1>13. ~IsInput(s)
    BY <1>1 DEF GraphOK, IsInput, Unread
  <1> QED
    BY <1>4, <1>5, <1>6, <1>7, <1>8, <1>9, <1>10, <1>11, <1>12, <1>13

LEMMA OutputKeepsPlan ==
  ASSUME GraphOK, MarkInv, NEW s, NEW r, OutputStep(s, r)
  PROVE  PlanOK'
  <1>1. /\ s \in DOMAIN spaces /\ Unread(s)
        /\ processes[r].out = s
        /\ \A q \in DOMAIN processes : processes[q].out = s => q = r
        /\ spaces' = spaces /\ processes' = processes
        /\ Distinct(outSpaces') /\ PlanOK
        /\ \A t : Waiting(t)' <=> Waiting(t) /\ t # s
    BY DEF OutputStep, MarkInv
  <1>2. /\ Distinct(schedule')
        /\ \A t : Met(t)' = Met(t)
        /\ \A t : Planned(t)' <=> Planned(t)
        /\ \A q : Scheduled(q)' <=> Scheduled(q) \/ q = r
    BY OutputFacts
  <1>3. \A t : Unread(t)' = Unread(t) /\ Consumers(t)' = Consumers(t)
    BY <1>1, SameGraph
  <1>4. ASSUME NEW t \in DOMAIN spaces
        PROVE  /\ Waiting(t)' => Unread(t)'
               /\ Planned(t)' <=> ~Unread(t)' /\ Met(t)' = Consumers(t)'
    <2>1. /\ Waiting(t) => Unread(t)
          /\ Planned(t) <=> ~Unread(t) /\ Met(t) = Consumers(t)
      BY <1>1 DEF PlanOK
    <2>2. Met(t)' = Met(t) /\ Consumers(t)' = Consumers(t)
      BY <1>2, <1>3
    <2> QED
      BY <1>1, <1>2, <1>3, <2>1, <2>2
  <1>5. ASSUME NEW q \in DOMAIN processes, NEW t, t = processes[q].out
        PROVE  Scheduled(q)' <=> (Unread(t)' /\ ~Waiting(t)') \/ Planned(t)'
    <2>1. Scheduled(q) <=> (Unread(t) /\ ~Waiting(t)) \/ Planned(t)
      BY <1>1, <1>5 DEF PlanOK
    <2>2. t = s <=> q = r
      BY <1>1, <1>5
    <2> QED
      BY <1>1, <1>2, <1>3, <2>1, <2>2
  <1> QED
    BY <1>1, <1>2, <1>4, <1>5 DEF PlanOK, Distinct

LEMMA OutputKeepsNames ==
  ASSUME GraphOK, MarkInv, NEW s, NEW r, OutputStep(s, r)
  PROVE  NamesOK' /\ CopiesOK'
  <1>1. /\ s \in DOMAIN spaces /\ Unread(s)
        /\ spaces' = spaces /\ processes' = processes
        /\ cpyStreams' = cpyStreams /\ outId' = outId + 1 /\ tmpId' = tmpId
        /\ NamesOK /\ CopiesOK /\ outId \in Nat
        /\ \A t : Waiting(t)' <=> Waiting(t) /\ t # s
    BY DEF OutputStep, MarkInv, MarkTypeOK
  <1>2. \A t : Met(t)' = Met(t)
    BY OutputFacts
  <1>3. /\ stream'[s] = OutName(outId)
        /\ \A t \in DOMAIN spaces : t # s => stream'[t] = stream[t]
        /\ ~Used(OutName(outId)) /\ ~IsInput(s)
    BY OutputFacts
  <1>4. /\ \A t : Unread(t)' = Unread(t) /\ IsInput(t)' = IsInput(t)
        /\ \A t : Shared(t)' = Shared(t)
    BY <1>1, SameGraph
  <1>5. /\ \A y : OldOut(y) => OldOut(y)'
        /\ \A y : OldTmp(y)' <=> OldTmp(y)
    <2>1. \A j \in Nat : j < outId => j < outId'
      BY <1>1
    <2>2. \A y : OldTmp(y)' <=> OldTmp(y)
      BY <1>1 DEF OldTmp
    <2>3. \A y : OldOut(y) => OldOut(y)'
      BY <2>1 DEF OldOut
    <2> QED
      BY <2>2, <2>3
  <1>6. ASSUME NEW t \in DOMAIN spaces
        PROVE  IF ~Named(t)' THEN stream'[t] = NoName
               ELSE IF IsInput(t)' THEN stream'[t] = InName(spaces'[t].image)
               ELSE IF Unread(t)' THEN OldOut(stream[t])'
               ELSE OldTmp(stream[t])'
    <2>1. CASE t # s
      <3>1. IF ~Named(t) THEN stream[t] = NoName
            ELSE IF IsInput(t) THEN stream[t] = InName(spaces[t].image)
            ELSE IF Unread(t) THEN OldOut(stream[t])
            ELSE OldTmp(stream[t])
        BY <1>1 DEF NamesOK
      <3>2. stream'[t] = stream[t] /\ Met(t)' = Met(t)
        BY <1>2, <1>3, <2>1
      <3>3. Named(t)' <=> Named(t)
        BY <1>1, <1>4, <2>1, <3>2 DEF Named
      <3>4. /\ OldTmp(stream[t]) => OldTmp(stream[t])'
            /\ OldOut(stream[t]) => OldOut(stream[t])'
        BY <1>5, <3>2 DEF OldTmp, OldOut
      <3> QED
        BY <1>1, <1>4, <3>1, <3>2, <3>3, <3>4
    <2>2. CASE t = s
      <3>1. Named(t)'
        BY <1>1, <1>4, <2>2 DEF Named
      <3>2. \E j \in Nat : j < outId' /\ stream'[t] = OutName(j)
        BY <1>1, <1>3, <2>2
      <3>3. OldOut(stream[t])'
        BY <3>2 DEF OldOut
      <3> QED
        BY <1>1, <1>3, <1>4, <2>2, <3>1, <3>3
    <2> QED
      BY <2>1, <2>2
  <1>7. ASSUME NEW a \in DOMAIN spaces, NEW b \in DOMAIN spaces,
               stream'[a] = stream'[b], stream'[a] # NoName
        PROVE  a = b
    <2>1. \A t \in DOMAIN spaces : stream[t] # OutName(outId)
      BY <1>3, NamesDiffer DEF Used
    <2>2. CASE a # s /\ b # s
      BY <1>1, <1>3, <1>7, <2>2 DEF NamesOK
    <2>3. CASE a = s \/ b = s
      BY <1>3, <1>7, <2>1, <2>3
    <2> QED
      BY <2>2, <2>3
  <1>8. NamesOK'
    BY <1>1, <1>6, <1>7 DEF NamesOK
  <1>9. ASSUME NEW t \in DOMAIN spaces
        PROVE  Len(cpyStreams'[t]) = IF Shared(t)' THEN Cardinality(Met(t)')
                                     ELSE 0
    <2>1. Len(cpyStreams[t]) = IF Shared(t) THEN Cardinality(Met(t)) ELSE 0
      BY <1>1 DEF CopiesOK
    <2>2. Met(t)' = Met(t)
      BY <1>2
    <2> QED
      BY <1>1, <1>4, <2>1, <2>2
  <1>10. ASSUME NEW t \in DOMAIN spaces, NEW j \in DOMAIN cpyStreams[t]
         PROVE  /\ OldTmp(cpyStreams[t][j])'
                /\ \A a \in DOMAIN spaces : stream'[a] # cpyStreams[t][j]
    <2>1. /\ OldTmp(cpyStreams[t][j]) /\ Used(cpyStreams[t][j])
          /\ \A a \in DOMAIN spaces : stream[a] # cpyStreams[t][j]
      BY <1>1 DEF CopiesOK, Used, Holds
    <2>2. OldTmp(cpyStreams[t][j])'
      BY <1>1, <2>1 DEF OldTmp
    <2> QED
      BY <1>3, <2>1, <2>2
  <1>11. \A a, b \in DOMAIN spaces :
           \A c \in DOMAIN cpyStreams[a], d \in DOMAIN cpyStreams[b] :
             cpyStreams[a][c] = cpyStreams[b][d] => a = b /\ c = d
    BY <1>1 DEF CopiesOK
  <1>12. CopiesOK'
    BY <1>1, <1>9, <1>10, <1>11 DEF CopiesOK
  <1> QED
    BY <1>8, <1>12

LEMMA OutputKeepsArgs ==
  ASSUME GraphOK, MarkInv, NEW s, NEW r, OutputStep(s, r)
  PROVE  ArgsOK' /\ OutOK'
  <1>1. /\ s \in DOMAIN spaces /\ Unread(s) /\ processes[r].out = s
        /\ \A q \in DOMAIN processes : processes[q].out = s => q = r
        /\ spaces' = spaces /\ processes' = processes
        /\ cpyStreams' = cpyStreams /\ ArgsOK /\ OutOK
    BY DEF OutputStep, MarkInv
  <1>2. \A t : Shared(t)' = Shared(t)
    BY <1>1, SameGraph
  <1>3. \A q \in DOMAIN processes : \A m, y :
          ArgIs(q, m, y)' <=> ArgIs(q, m, y)
    BY OutputFacts
  <1>4. /\ stream'[s] = OutName(outId) /\ outStream'[r] = OutName(outId)
        /\ \A t \in DOMAIN spaces : t # s => stream'[t] = stream[t]
        /\ \A q \in DOMAIN processes : q # r => outStream'[q] = outStream[q]
        /\ \A q : Scheduled(q)' <=> Scheduled(q) \/ q = r
    BY OutputFacts
  <1>5. ASSUME NEW q \in DOMAIN processes, NEW m, NEW y, ArgIs(q, m, y)
        PROVE  /\ m \in DOMAIN processes[q].ins
               /\ IF Shared(processes[q].ins[m])
                  THEN Holds(cpyStreams[processes[q].ins[m]], y)
                  ELSE y = stream'[processes[q].ins[m]]
    <2>1. PICK t : t = processes[q].ins[m]
      OBVIOUS
    <2>2. m \in DOMAIN processes[q].ins /\ <<q, m>> \in Met(t)
      BY <1>5, <2>1, ArgsAreUsed
    <2>3. t \in DOMAIN spaces
      BY <2>1, <2>2, ElementType DEF GraphOK
    <2>4. t # s
      <3>1. <<q, m>> \in Consumers(t)
        BY <2>2 DEF Met
      <3> QED
        BY <1>1, <3>1, NoConsumers
    <2>5. IF Shared(t) THEN Holds(cpyStreams[t], y) ELSE y = stream[t]
      BY <1>1, <1>5, <2>1 DEF ArgsOK
    <2> QED
      BY <1>4, <2>1, <2>2, <2>3, <2>4, <2>5
  <1>6. ASSUME NEW t \in DOMAIN spaces, NEW j \in DOMAIN cpyStreams[t]
        PROVE  \E q \in DOMAIN processes : \E m \in DOMAIN processes[q].ins :
                 processes[q].ins[m] = t /\ ArgIs(q, m, cpyStreams[t][j])'
    <2>1. PICK y : y = cpyStreams[t][j]
      OBVIOUS
    <2>2. \E q \in DOMAIN processes : \E m \in DOMAIN processes[q].ins :
            processes[q].ins[m] = t /\ ArgIs(q, m, y)
      BY <1>1, <2>1 DEF ArgsOK
    <2>3. \E q \in DOMAIN processes : \E m \in DOMAIN processes[q].ins :
            processes[q].ins[m] = t /\ ArgIs(q, m, y)'
      BY <1>3, <2>2
    <2> QED
      BY <1>1, <2>1, <2>3 DEF ArgIs
  <1>7. ASSUME NEW q \in DOMAIN processes, NEW t \in DOMAIN processes,
               NEW m, NEW l, NEW y, ArgIs(q, m, y)', ArgIs(t, l, y)'
        PROVE  q = t /\ m = l
    <2>1. ArgIs(q, m, y) /\ ArgIs(t, l, y)
      BY <1>3, <1>7
    <2> QED
      BY <1>1, <2>1 DEF ArgsOK
  <1>8. ArgsOK'
    BY <1>1, <1>2, <1>3, <1>5, <1>6, <1>7 DEF ArgsOK
  <1>9. ASSUME NEW q \in DOMAIN processes, Scheduled(q)'
        PROVE  /\ outStream'[q] = stream'[processes[q].out]
               /\ outStream'[q] # NoName
    <2>1. CASE q = r
      BY <1>1, <1>4, <2>1, NamesDiffer
    <2>2. CASE q # r
      <3>1. /\ outStream[q] = stream[processes[q].out] /\ outStream[q] # NoName
            /\ processes[q].out \in DOMAIN spaces
        BY <1>1, <1>4, <1>9, <2>2 DEF OutOK, GraphOK
      <3> QED
        BY <1>1, <1>4, <2>2, <3>1
    <2> QED
      BY <2>1, <2>2
  <1>10. OutOK'
    BY <1>1, <1>9 DEF OutOK
  <1> QED
    BY <1>8, <1>10

LEMMA MarkOutputKeepsInv ==
  ASSUME GraphOK, MarkInv, MarkOutput
  PROVE  MarkInv'
  <1>1. PICK s, r : OutputStep(s, r)
    BY MarkOutputSteps
  <1>2. /\ spaces' = spaces /\ processes' = processes
        /\ inStreams' = inStreams /\ cpyStreams' = cpyStreams /\ tmpId' = tmpId
        /\ outSpaces' \in Seq(DOMAIN spaces) /\ MarkTypeOK
    BY <1>1 DEF OutputStep, MarkInv
  <1>3. /\ stack' \in Seq(Activation)
        /\ StackOK(stack', schedule', inStreams)
        /\ schedule' \in Seq(Node) /\ Ordered(schedule')
        /\ stream' \in [DOMAIN spaces -> Name]
        /\ outStream' \in [DOMAIN processes -> Name]
        /\ outId' \in Nat
    BY <1>1, OutputFacts
  <1>4. MarkTypeOK'
    BY <1>2, <1>3, SameGraph DEF MarkTypeOK
  <1>5. StackOK(stack, schedule, inStreams)' /\ OrderOK'
    BY <1>2, <1>3 DEF StackOK, OrderOK, Ordered, Consumers, Unread
  <1> QED
    BY <1>1, <1>4, <1>5, OutputKeepsPlan, OutputKeepsNames, OutputKeepsArgs
       DEF MarkInv

LEMMA QuietKeepsInv ==
  ASSUME GraphOK, MarkInv,
         spaces' = spaces, processes' = processes, outSpaces' = outSpaces,
         stream' = stream, cpyStreams' = cpyStreams, outStream' = outStream,
         schedule' = schedule, outId' = outId, tmpId' = tmpId,
         stack' \in Seq(Activation),
         inStreams' \in [DOMAIN processes -> Seq(Name)],
         StackOK(stack', schedule, inStreams'),
         \A p \in DOMAIN processes : \A n, y :
           Arg(stack', inStreams', p, n, y) <=> ArgIs(p, n, y)
  PROVE  MarkInv'
  <1>1. /\ MarkTypeOK /\ PlanOK /\ NamesOK /\ CopiesOK /\ ArgsOK /\ OutOK
        /\ OrderOK
    BY DEF MarkInv
  <1>2. \A p \in DOMAIN processes : \A n, y :
          ArgIs(p, n, y)' <=> ArgIs(p, n, y)
    BY DEF ArgIs
  <1>3. \A t : Met(t)' = Met(t)
    BY <1>2, MetKept
  <1>4. /\ \A t : /\ Consumers(t)' = Consumers(t)
                  /\ Unread(t)' = Unread(t) /\ Shared(t)' = Shared(t)
                  /\ IsInput(t)' = IsInput(t)
        /\ \A t : Waiting(t)' = Waiting(t) /\ Planned(t)' = Planned(t)
        /\ \A p : Scheduled(p)' = Scheduled(p)
        /\ \A y : OldTmp(y)' = OldTmp(y) /\ OldOut(y)' = OldOut(y)
    BY SameGraph DEF Waiting, Planned, Scheduled, OldTmp, OldOut
  <1>5. MarkTypeOK'
    BY <1>1, SameGraph DEF MarkTypeOK
  <1>6. StackOK(stack, schedule, inStreams)' /\ OrderOK'
    BY <1>1 DEF StackOK, OrderOK, Ordered, Consumers, Unread
  <1>7. PlanOK'
    <2>1. ASSUME NEW s \in DOMAIN spaces
          PROVE  /\ Waiting(s)' => Unread(s)'
                 /\ Planned(s)' <=> ~Unread(s)' /\ Met(s)' = Consumers(s)'
      <3>1. Met(s)' = Met(s) /\ Consumers(s)' = Consumers(s)
        BY <1>3, <1>4
      <3> QED
        BY <1>1, <1>4, <3>1 DEF PlanOK
    <2>2. ASSUME NEW p \in DOMAIN processes, NEW s, s = processes[p].out
          PROVE  Scheduled(p)' <=> (Unread(s)' /\ ~Waiting(s)') \/ Planned(s)'
      BY <1>1, <1>4, <2>2 DEF PlanOK
    <2> QED
      BY <1>1, <2>1, <2>2 DEF PlanOK, Distinct
  <1>8. NamesOK'
    <2>1. \A s : Named(s)' = Named(s)
      <3>1. ASSUME NEW s
            PROVE  Named(s)' = Named(s)
        <4>1. Met(s)' = Met(s)
          BY <1>3
        <4> QED
          BY <1>4, <4>1 DEF Named
      <3> QED
        BY <3>1
    <2> QED
      BY <1>1, <2>1 DEF NamesOK, IsInput, Unread, OldOut, OldTmp
  <1>9. CopiesOK'
    <2>1. ASSUME NEW s \in DOMAIN spaces
          PROVE  Len(cpyStreams[s]) = IF Shared(s)' THEN Cardinality(Met(s)')
                                      ELSE 0
      <3>1. Met(s)' = Met(s)
        BY <1>3
      <3> QED
        BY <1>1, <1>4, <3>1 DEF CopiesOK
    <2>2. \A s \in DOMAIN spaces : \A k \in DOMAIN cpyStreams[s] :
            /\ OldTmp(cpyStreams[s][k])'
            /\ \A t \in DOMAIN spaces : stream[t] # cpyStreams[s][k]
      BY <1>1 DEF CopiesOK, OldTmp
    <2>3. \A s, t \in DOMAIN spaces :
            \A k \in DOMAIN cpyStreams[s], m \in DOMAIN cpyStreams[t] :
              cpyStreams[s][k] = cpyStreams[t][m] => s = t /\ k = m
      BY <1>1 DEF CopiesOK
    <2> QED
      BY <2>1, <2>2, <2>3 DEF CopiesOK
  <1>10. ArgsOK'
    <2>1. ASSUME NEW p \in DOMAIN processes, NEW n, NEW x, ArgIs(p, n, x)'
          PROVE  /\ n \in DOMAIN processes[p].ins
                 /\ IF Shared(processes[p].ins[n])
                    THEN Holds(cpyStreams[processes[p].ins[n]], x)
                    ELSE x = stream[processes[p].ins[n]]
      BY <1>1, <1>2, <2>1 DEF ArgsOK
    <2>2. ASSUME NEW s \in DOMAIN spaces, NEW k \in DOMAIN cpyStreams[s]
          PROVE  \E p \in DOMAIN processes : \E n \in DOMAIN processes[p].ins :
                   processes[p].ins[n] = s /\ ArgIs(p, n, cpyStreams[s][k])'
      <3>1. PICK y : y = cpyStreams[s][k]
        OBVIOUS
      <3>2. \E p \in DOMAIN processes : \E n \in DOMAIN processes[p].ins :
              processes[p].ins[n] = s /\ ArgIs(p, n, y)'
        BY <1>1, <1>2, <3>1 DEF ArgsOK
      <3> QED
        BY <3>1, <3>2 DEF ArgIs
    <2>3. ASSUME NEW p \in DOMAIN processes, NEW q \in DOMAIN processes,
                 NEW n, NEW m, NEW x, ArgIs(p, n, x)', ArgIs(q, m, x)'
          PROVE  p = q /\ n = m
      <3>1. ArgIs(p, n, x) /\ ArgIs(q, m, x)
        BY <1>2, <2>3
      <3> QED
        BY <1>1, <3>1 DEF ArgsOK
    <2> QED
      BY <1>4, <2>1, <2>2, <2>3 DEF ArgsOK
  <1>11. OutOK'
    BY <1>1, <1>4 DEF OutOK
  <1> QED
    BY <1>5, <1>6, <1>7, <1>8, <1>9, <1>10, <1>11 DEF MarkInv

LEMMA PushInStreamKeepsInv ==
  ASSUME GraphOK, MarkInv, PushInStream
  PROVE  MarkInv'
  <1>1. PICK k, b :
          /\ k = Len(stack)
          /\ b = [stack[k] EXCEPT !.call = FALSE, !.next = @ + 1]
    OBVIOUS
  <1>2. /\ stack \in Seq(Activation) /\ stack # << >>
        /\ inStreams \in [DOMAIN processes -> Seq(Name)]
        /\ StackOK(stack, schedule, inStreams)
    BY DEF MarkInv, MarkTypeOK, PushInStream
  <1>3. k \in DOMAIN stack /\ stack[k] \in Activation
    BY <1>1, <1>2, TopOfStack
  <1>4. /\ b \in Activation /\ b.proc = stack[k].proc
        /\ b.next = stack[k].next + 1 /\ ~b.call
    <2>1. PICK n : n = stack[k].next + 1
      OBVIOUS
    <2>2. n \in Nat /\ b = [stack[k] EXCEPT !.call = FALSE, !.next = n]
      BY <1>1, <1>3, <2>1 DEF Activation
    <2> QED
      BY <1>3, <2>1, <2>2 DEF Activation
  <1>5. PICK c, r :
          /\ c = [stack EXCEPT ![k] = b]
          /\ r = [inStreams EXCEPT ![b.proc] =
                    Append(inStreams[b.proc], stack[k].stream)]
    OBVIOUS
  <1>6. /\ stack[k].call /\ stack' = c /\ inStreams' = r
        /\ spaces' = spaces /\ processes' = processes /\ outSpaces' = outSpaces
        /\ stream' = stream /\ cpyStreams' = cpyStreams
        /\ outStream' = outStream /\ schedule' = schedule
        /\ outId' = outId /\ tmpId' = tmpId
    BY <1>1, <1>4, <1>5 DEF PushInStream, Top, WithTop, hostVars, graphVars
  <1>7. /\ c \in Seq(Activation)
        /\ r \in [DOMAIN processes -> Seq(Name)]
        /\ StackOK(c, schedule, r)
        /\ \A p \in DOMAIN processes : \A n, y :
             Arg(c, r, p, n, y) <=> Arg(stack, inStreams, p, n, y)
    BY <1>2, <1>3, <1>4, <1>5, <1>6, PushInKeepsStack
  <1>8. /\ stack' \in Seq(Activation)
        /\ inStreams' \in [DOMAIN processes -> Seq(Name)]
        /\ StackOK(stack', schedule, inStreams')
        /\ \A p \in DOMAIN processes : \A n, y :
             Arg(stack', inStreams', p, n, y) <=> ArgIs(p, n, y)
    BY <1>6, <1>7 DEF ArgIs
  <1> QED
    BY <1>6, <1>8, QuietKeepsInv

LEMMA ReturnKeepsInv ==
  ASSUME GraphOK, MarkInv, ReturnFromMarkProcess
  PROVE  MarkInv'
  <1>1. PICK a, c : a = stack[Len(stack)] /\ c = SubSeq(stack, 1, Len(stack) - 1)
    OBVIOUS
  <1>2. /\ stack \in Seq(Activation)
        /\ inStreams \in [DOMAIN processes -> Seq(Name)]
        /\ StackOK(stack, schedule, inStreams)
    BY DEF MarkInv, MarkTypeOK
  <1>3. /\ stack # << >> /\ ~a.call /\ a.next > Len(processes[a.proc].ins)
        /\ stack' = c
        /\ spaces' = spaces /\ processes' = processes /\ outSpaces' = outSpaces
        /\ stream' = stream /\ cpyStreams' = cpyStreams
        /\ outStream' = outStream /\ schedule' = schedule
        /\ inStreams' = inStreams /\ outId' = outId /\ tmpId' = tmpId
    BY <1>1 DEF ReturnFromMarkProcess, Top, hostVars, graphVars
  <1>4. /\ c \in Seq(Activation)
        /\ StackOK(c, schedule, inStreams)
        /\ \A p \in DOMAIN processes : \A n, y :
             Arg(c, inStreams, p, n, y) <=> Arg(stack, inStreams, p, n, y)
    BY <1>1, <1>2, <1>3, ReturnKeepsStack
  <1>5. /\ stack' \in Seq(Activation)
        /\ inStreams' \in [DOMAIN processes -> Seq(Name)]
        /\ StackOK(stack', schedule, inStreams')
        /\ \A p \in DOMAIN processes : \A n, y :
             Arg(stack', inStreams', p, n, y) <=> ArgIs(p, n, y)
    BY <1>2, <1>3, <1>4 DEF ArgIs
  <1> QED
    BY <1>3, <1>5, QuietKeepsInv

LEMMA SameKeepsInv ==
  ASSUME GraphOK, MarkInv, UNCHANGED <<hostVars, markVars>>
  PROVE  MarkInv'
  <1>1. /\ spaces' = spaces /\ processes' = processes /\ outSpaces' = outSpaces
        /\ stream' = stream /\ cpyStreams' = cpyStreams
        /\ outStream' = outStream /\ schedule' = schedule
        /\ outId' = outId /\ tmpId' = tmpId
        /\ stack' = stack /\ inStreams' = inStreams
    BY DEF hostVars, graphVars, markVars
  <1>2. /\ stack' \in Seq(Activation)
        /\ inStreams' \in [DOMAIN processes -> Seq(Name)]
        /\ StackOK(stack', schedule, inStreams')
        /\ \A p \in DOMAIN processes : \A n, y :
             Arg(stack', inStreams', p, n, y) <=> ArgIs(p, n, y)
    BY <1>1 DEF MarkInv, MarkTypeOK, ArgIs
  <1> QED
    BY <1>1, <1>2, QuietKeepsInv

LEMMA MarkKeepsInv ==
  ASSUME GraphOK, MarkInv, Mark
  PROVE  MarkInv'
  <1>1. CASE FinishSchedule
    BY <1>1, SameKeepsInv DEF FinishSchedule
  <1> QED
    BY <1>1, MarkOutputKeepsInv, MarkInputKeepsInv, PushInStreamKeepsInv,
       ReturnKeepsInv DEF Mark

-----------------------------------------------------------------------------
(* createSchedule finds the output spaces, from the youngest to the oldest. *)
LEMMA OutputSpacesListed ==
  ASSUME GraphOK, Len(spaces) \in Nat, DOMAIN spaces = 1..Len(spaces)
  PROVE  /\ OutputSpaces \in Seq(DOMAIN spaces) /\ Distinct(OutputSpaces)
         /\ \A s : Holds(OutputSpaces, s) <=> s \in DOMAIN spaces /\ Unread(s)
  <1>1. PICK N, T, q : N = Len(spaces) /\ T = Outputs /\ q = OutputSpaces
    OBVIOUS
  <1>2. /\ N \in Nat /\ T \in SUBSET (1..N) /\ T \in SUBSET Nat
        /\ IsFiniteSet(T) /\ T \in SUBSET (DOMAIN spaces)
    <2>1. T \in SUBSET (1..N) /\ N \in Nat /\ T \in SUBSET (DOMAIN spaces)
      BY <1>1 DEF Outputs
    <2>2. IsFiniteSet(T)
      <3>1. T \in SUBSET Nat /\ \A x \in T : x <= N
        BY <2>1
      <3> QED
        BY <2>1, <3>1, FS_BoundedSetOfNaturals
    <2> QED
      BY <2>1, <2>2
  <1>3. PICK m : m = Cardinality(T)
    OBVIOUS
  <1>4. m \in Nat
    BY <1>2, <1>3, FS_CardinalityType
  <1>5. /\ DOMAIN q = 1..m
        /\ \A n \in 1..m : q[n] = CHOOSE s \in T : Rank(T, s) = n
    BY <1>1, <1>3 DEF OutputSpaces, Rank
  <1>6. ASSUME NEW n \in 1..m
        PROVE  q[n] \in T /\ Rank(T, q[n]) = n
    <2>1. \E s \in T : Rank(T, s) = n
      BY <1>2, <1>3, <1>6, RanksCover
    <2> QED
      BY <1>5, <2>1
  <1>7. q \in Seq(DOMAIN spaces)
    <2>1. q \in [1..m -> DOMAIN spaces]
      <3>1. q = [n \in 1..m |-> CHOOSE s \in T : Rank(T, s) = n]
        BY <1>1, <1>3 DEF OutputSpaces, Rank
      <3> QED
        BY <1>2, <1>5, <1>6, <3>1
    <2> QED
      BY <1>4, <2>1
  <1>8. Distinct(q)
    BY <1>5, <1>6 DEF Distinct
  <1>9. ASSUME NEW s \in T
        PROVE  Holds(q, s)
    <2>1. /\ Rank(T, s) \in 1..m
          /\ \A t \in T : t # s => Rank(T, t) # Rank(T, s)
      BY <1>2, <1>3, RanksDiffer
    <2>2. PICK n : n = Rank(T, s)
      OBVIOUS
    <2>3. n \in DOMAIN q /\ q[n] = s
      BY <1>5, <1>6, <2>1, <2>2
    <2> QED
      BY <2>3 DEF Holds
  <1>10. \A s : Holds(q, s) <=> s \in T
    BY <1>5, <1>6, <1>9 DEF Holds
  <1>11. \A s : s \in T <=> s \in DOMAIN spaces /\ Unread(s)
    BY <1>1 DEF Outputs, IsOutput, Unread
  <1> QED
    BY <1>1, <1>7, <1>8, <1>10, <1>11

LEMMA CreateScheduleBegins ==
  ASSUME GraphOK, Len(spaces) \in Nat, DOMAIN spaces = 1..Len(spaces),
         CreateSchedule, stack = << >>, schedule = << >>
  PROVE  MarkInv'
  <1>1. /\ spaces' = spaces /\ processes' = processes
        /\ stack' = << >> /\ schedule' = << >>
        /\ outSpaces' = OutputSpaces
        /\ stream' = [s \in DOMAIN spaces |-> NoName]
        /\ cpyStreams' = [s \in DOMAIN spaces |-> << >>]
        /\ inStreams' = [p \in DOMAIN processes |-> << >>]
        /\ outStream' = [p \in DOMAIN processes |-> NoName]
        /\ outId' = 0 /\ tmpId' = 0
    BY DEF CreateSchedule, hostVars, graphVars
  <1>2. /\ outSpaces' \in Seq(DOMAIN spaces) /\ Distinct(outSpaces')
        /\ \A s : Holds(outSpaces', s) <=> s \in DOMAIN spaces /\ Unread(s)
    BY <1>1, OutputSpacesListed
  <1>3. /\ \A t : /\ Consumers(t)' = Consumers(t)
                  /\ Unread(t)' = Unread(t) /\ Shared(t)' = Shared(t)
                  /\ IsInput(t)' = IsInput(t)
        /\ Node' = Node
    BY <1>1, SameGraph
  <1>4. /\ \A p \in DOMAIN processes : \A n, y : ~ArgIs(p, n, y)'
        /\ \A t : Waiting(t)' <=> t \in DOMAIN spaces /\ Unread(t)
        /\ \A t : ~Planned(t)'
        /\ \A p : ~Scheduled(p)'
    BY <1>1, <1>2 DEF ArgIs, Arg, Waiting, Planned, Scheduled, Holds
  <1>5. ASSUME NEW t
        PROVE  Met(t)' = {}
    <2>1. \A c \in Consumers(t)' : c[1] \in DOMAIN processes
      BY <1>3 DEF Consumers
    <2> QED
      BY <1>4, <2>1 DEF Met
  <1>6. MarkTypeOK'
    <2>1. << >> \in Seq(Node) /\ << >> \in Seq(Activation) /\ << >> \in Seq(Name)
      OBVIOUS
    <2>2. /\ stream' \in [DOMAIN spaces -> Name]
          /\ cpyStreams' \in [DOMAIN spaces -> Seq(Name)]
          /\ inStreams' \in [DOMAIN processes -> Seq(Name)]
          /\ outStream' \in [DOMAIN processes -> Name]
      BY <1>1, <2>1, NameTypes
    <2> QED
      BY <1>1, <1>2, <1>3, <2>1, <2>2 DEF MarkTypeOK
  <1>7. StackOK(stack, schedule, inStreams)'
    <2>1. \A p \in DOMAIN processes :
            Len(processes[p].ins) \in Nat
      BY DEF GraphOK
    <2> QED
      BY <1>1, <2>1 DEF StackOK, Holds
  <1>8. PlanOK'
    <2>1. Distinct(schedule') /\ Distinct(outSpaces')
      BY <1>1, <1>2 DEF Distinct
    <2>2. ASSUME NEW s \in DOMAIN spaces
          PROVE  /\ Waiting(s)' => Unread(s)'
                 /\ Planned(s)' <=> ~Unread(s)' /\ Met(s)' = Consumers(s)'
      <3>1. Met(s)' = {}
        BY <1>5
      <3>2. ~Unread(s) => Consumers(s) # {}
        <4>1. Cardinality(Consumers(s)) = Len(spaces[s].dst) /\ spaces[s].dst \in Seq(Nat)
          BY DEF GraphOK
        <4>2. Cardinality({}) = 0
          BY FS_EmptySet
        <4>3. spaces[s].dst # << >> => Len(spaces[s].dst) # 0
          BY <4>1
        <4> QED
          BY <4>1, <4>2, <4>3 DEF Unread
      <3> QED
        BY <1>3, <1>4, <3>1, <3>2
    <2>3. ASSUME NEW p \in DOMAIN processes, NEW s, s = processes[p].out
          PROVE  Scheduled(p)' <=> (Unread(s)' /\ ~Waiting(s)') \/ Planned(s)'
      BY <1>3, <1>4, <2>3 DEF GraphOK
    <2> QED
      BY <1>1, <2>1, <2>2, <2>3 DEF PlanOK, Distinct
  <1>9. NamesOK'
    <2>1. ASSUME NEW s \in DOMAIN spaces
          PROVE  ~Named(s)'
      <3>1. Met(s)' = {}
        BY <1>5
      <3> QED
        BY <1>3, <1>4, <3>1 DEF Named
    <2>2. \A s \in DOMAIN spaces : stream'[s] = NoName
      BY <1>1
    <2> QED
      BY <1>1, <2>1, <2>2 DEF NamesOK
  <1>10. CopiesOK'
    <2>1. \A s \in DOMAIN spaces :
            cpyStreams'[s] = << >> /\ DOMAIN cpyStreams'[s] = {}
      BY <1>1
    <2>2. ASSUME NEW s \in DOMAIN spaces
          PROVE  Len(cpyStreams'[s]) = IF Shared(s)' THEN Cardinality(Met(s)')
                                       ELSE 0
      <3>1. Met(s)' = {}
        BY <1>5
      <3> QED
        BY <2>1, <3>1, FS_EmptySet
    <2> QED
      BY <1>1, <2>1, <2>2 DEF CopiesOK
  <1>11. ArgsOK'
    <2>1. \A s \in DOMAIN spaces : DOMAIN cpyStreams'[s] = {}
      BY <1>1
    <2> QED
      BY <1>1, <1>4, <2>1 DEF ArgsOK
  <1>12. OutOK' /\ OrderOK'
    BY <1>1, <1>4 DEF OutOK, OrderOK, Ordered
  <1> QED
    BY <1>6, <1>7, <1>8, <1>9, <1>10, <1>11, <1>12 DEF MarkInv

-----------------------------------------------------------------------------
(* The invariant of the whole analysis.                                    *)
ScheduleInv ==
  /\ IInv /\ TrackOK
  /\ phase \in {"track", "mark", "done"}
  /\ phase = "track" => /\ outSpaces = << >> /\ stack = << >> /\ schedule = << >>
                        /\ outId = 0 /\ tmpId = 0
  /\ phase # "track" => link = 0 /\ MarkInv
  /\ phase = "done" => stack = << >> /\ outSpaces = << >>

LEMMA InitScheduleInv ==
  ASSUME Init, MarkInit
  PROVE  ScheduleInv
  BY InitHolds, InitTrackOK DEF MarkInit, ScheduleInv

LEMMA TrackKeepsScheduleInv ==
  ASSUME ScheduleInv, Track
  PROVE  ScheduleInv'
  <1>1. /\ phase = "track" /\ phase' = phase /\ outSpaces' = outSpaces
        /\ stack' = stack /\ schedule' = schedule
        /\ outId' = outId /\ tmpId' = tmpId /\ Next
    BY DEF Track, markVars
  <1>2. IInv' /\ TrackOK'
    BY <1>1, NextKeeps, NextKeepsTrackOK DEF ScheduleInv
  <1> QED
    BY <1>1, <1>2 DEF ScheduleInv

LEMMA CreateKeepsScheduleInv ==
  ASSUME ScheduleInv, CreateSchedule
  PROVE  ScheduleInv'
  <1>1. /\ phase = "track" /\ link = 0 /\ phase' = "mark" /\ link' = link
        /\ UNCHANGED hostVars
    BY DEF CreateSchedule, hostVars, graphVars
  <1>2. IInv /\ TrackOK /\ stack = << >> /\ schedule = << >>
    BY <1>1 DEF ScheduleInv
  <1>3. IInv' /\ TrackOK'
    BY <1>1, <1>2, StutterKeeps, StutterKeepsTrackOK
  <1>4. GraphOK /\ Len(spaces) \in Nat /\ DOMAIN spaces = 1..Len(spaces)
    BY <1>2, GraphIsOK, ProcessCount DEF IInv
  <1>5. MarkInv'
    BY <1>2, <1>4, CreateScheduleBegins
  <1> QED
    BY <1>1, <1>3, <1>5 DEF ScheduleInv

LEMMA MarkKeepsScheduleInv ==
  ASSUME ScheduleInv, Mark
  PROVE  ScheduleInv'
  <1>1. UNCHANGED hostVars /\ link' = link
    BY DEF Mark, MarkOutput, MarkInput, PushInStream, ReturnFromMarkProcess,
       FinishSchedule, hostVars, graphVars
  <1>2. phase = "mark"
    BY DEF Mark, MarkOutput, MarkInput, PushInStream, ReturnFromMarkProcess,
       FinishSchedule, ScheduleInv
  <1>3. IInv /\ TrackOK /\ link = 0 /\ MarkInv
    BY <1>2 DEF ScheduleInv
  <1>4. IInv' /\ TrackOK'
    BY <1>1, <1>3, StutterKeeps, StutterKeepsTrackOK
  <1>5. MarkInv'
    BY <1>3, GraphIsOK, MarkKeepsInv
  <1>6. \/ phase' = "mark"
        \/ phase' = "done" /\ stack' = << >> /\ outSpaces' = << >>
    BY <1>2 DEF Mark, MarkOutput, MarkInput, PushInStream, ReturnFromMarkProcess,
       FinishSchedule, markVars
  <1> QED
    BY <1>1, <1>3, <1>4, <1>5, <1>6 DEF ScheduleInv

LEMMA StutterKeepsScheduleInv ==
  ASSUME ScheduleInv, UNCHANGED vars
  PROVE  ScheduleInv'
  <1>1. /\ UNCHANGED hostVars /\ UNCHANGED <<hostVars, markVars>>
        /\ phase' = phase /\ outSpaces' = outSpaces
        /\ stack' = stack /\ schedule' = schedule
        /\ outId' = outId /\ tmpId' = tmpId /\ link' = link
    BY DEF vars, markVars, hostVars, graphVars
  <1>2. IInv /\ TrackOK
    BY DEF ScheduleInv
  <1>3. IInv' /\ TrackOK'
    BY <1>1, <1>2, StutterKeeps, StutterKeepsTrackOK
  <1>4. phase # "track" => MarkInv'
    BY <1>1, <1>2, GraphIsOK, SameKeepsInv DEF ScheduleInv
  <1> QED
    BY <1>1, <1>3, <1>4 DEF ScheduleInv

(* The invariant holds of every host program, in place or not.             *)
THEOREM ScheduleInvariant == ScheduleSpec => []ScheduleInv
  <1>1. Init /\ MarkInit => ScheduleInv
    BY InitScheduleInv
  <1>2. ScheduleInv /\ [ScheduleNext]_vars => ScheduleInv'
    BY TrackKeepsScheduleInv, CreateKeepsScheduleInv, MarkKeepsScheduleInv,
       StutterKeepsScheduleInv DEF ScheduleNext
  <1> QED
    BY <1>1, <1>2, PTL DEF ScheduleSpec

(* The traversal works on spaces and processes of the graph and gives      *)
(* streams, copies and arguments names; no index it follows is missing.    *)
THEOREM ScheduleTypeCorrect == ScheduleSpec => []ScheduleTypeOK
  <1>1. ScheduleInv => ScheduleTypeOK
    <2>1. ASSUME ScheduleInv, phase = "track"
          PROVE  ScheduleTypeOK
      <3>1. \A S : << >> \in Seq(S)
        OBVIOUS
      <3> QED
        BY <2>1, <3>1 DEF ScheduleInv, ScheduleTypeOK
    <2>2. ASSUME ScheduleInv, phase # "track"
          PROVE  ScheduleTypeOK
      BY <2>2 DEF ScheduleInv, ScheduleTypeOK, MarkInv, MarkTypeOK, Node
    <2> QED
      BY <2>1, <2>2
  <1> QED
    BY <1>1, ScheduleInvariant, PTL

-----------------------------------------------------------------------------
(* When createSchedule has returned.                                       *)
LEMMA AccessorsLinked ==
  ASSUME ScheduleInv, link = 0, NEW p \in DOMAIN processes
  PROVE  /\ Len(processes[p].ins) = Len(AccsOf(p))
         /\ DOMAIN processes[p].ins = DOMAIN AccsOf(p)
  <1>1. IInv /\ TrackOK
    BY DEF ScheduleInv
  <1>2. AccsOf(p) \in Seq(Accessor)
    <2>1. /\ kernelMap \in PartialFcn(Kernel, Ctor)
          /\ processes[p].kernel \in DOMAIN kernelMap
      BY <1>1 DEF IInv, TypeOK, ProcOK
    <2>2. kernelMap[processes[p].kernel] \in Ctor
      BY <2>1, PartialFcnApply
    <2> QED
      BY <2>2, CtorType DEF AccsOf
  <1>3. processes[p].ins \in Seq(Nat)
    BY <1>1, ProcessType DEF IInv, ProcessRec
  <1>4. Len(processes[p].ins) = Len(AccsOf(p))
    BY <1>1 DEF TrackOK, AllLinked
  <1> QED
    BY <1>2, <1>3, <1>4

(* Every execution is printed if no kernel works in place: the youngest    *)
(* that is not would have a reader that is.                                *)
LEMMA AllScheduled ==
  ASSUME ScheduleInv, Done, OutOfPlace
  PROVE  \A p \in DOMAIN processes : Scheduled(p)
  <1>1. /\ IInv /\ TrackOK /\ link = 0 /\ MarkInv
        /\ stack = << >> /\ outSpaces = << >>
    BY DEF ScheduleInv, Done
  <1>2. GraphOK
    BY <1>1, GraphIsOK
  <1>3. /\ Len(processes) \in Nat /\ DOMAIN processes = 1..Len(processes)
    BY <1>1, ProcessCount DEF IInv
  <1>4. PICK T : T = {p \in DOMAIN processes : ~Scheduled(p)}
    OBVIOUS
  <1>5. SUFFICES ASSUME T # {}
                 PROVE  FALSE
    BY <1>4
  <1>6. PICK m \in T : \A k \in T : k <= m
    BY <1>3, <1>4, <1>5, Greatest
  <1>7. PICK s : s = processes[m].out
    OBVIOUS
  <1>8. /\ m \in DOMAIN processes /\ ~Scheduled(m)
        /\ s \in DOMAIN spaces /\ spaces[s].src = m
    BY <1>2, <1>4, <1>6, <1>7 DEF GraphOK
  <1>9. ~Unread(s) /\ ~Planned(s) /\ Met(s) # Consumers(s)
    <2>1. ~Waiting(s)
      BY <1>1 DEF Waiting, Holds
    <2> QED
      BY <1>1, <1>7, <1>8, <2>1 DEF MarkInv, PlanOK
  <1>10. PICK c \in Consumers(s) : \A x : ~ArgIs(c[1], c[2], x)
    BY <1>9 DEF Met
  <1>11. PICK q, n : q = c[1] /\ n = c[2]
    OBVIOUS
  <1>12. /\ q \in DOMAIN processes /\ n \in DOMAIN processes[q].ins
         /\ processes[q].ins[n] = s
    BY <1>10, <1>11 DEF Consumers
  <1>13. m < q
    <2>1. Reads(q, n) # Writes(q)
      BY <1>1, <1>12, AccessorsLinked DEF OutOfPlace
    <2>2. spaces[s].src \in 0..(q - 1)
      BY <1>1, <1>12, <2>1
         DEF IInv, ReadsLatestWrite, FedByLastWriter, IsLastWriter
    <2> QED
      BY <1>3, <1>8, <1>12, <2>2
  <1>14. Scheduled(q)
    BY <1>3, <1>4, <1>6, <1>8, <1>12, <1>13
  <1>15. n \in DOMAIN inStreams[q]
    <2>1. Len(inStreams[q]) = Len(processes[q].ins)
      BY <1>1, <1>12, <1>14 DEF MarkInv, StackOK, Scheduled
    <2>2. inStreams[q] \in Seq(Name) /\ processes[q].ins \in Seq(DOMAIN spaces)
      BY <1>1, <1>2, <1>12 DEF MarkInv, MarkTypeOK, GraphOK
    <2> QED
      BY <1>12, <2>1, <2>2
  <1>16. ArgIs(q, n, inStreams[q][n])
    BY <1>15 DEF ArgIs, Arg
  <1> QED
    BY <1>10, <1>11, <1>16

LEMMA DoneFacts ==
  ASSUME ScheduleInv, Done, OutOfPlace
  PROVE  /\ GraphOK /\ schedule \in Seq(Node) /\ Distinct(schedule)
         /\ Ordered(schedule)
         /\ \A p \in DOMAIN processes :
              /\ Scheduled(p) /\ outStream[p] = stream[processes[p].out]
              /\ Len(inStreams[p]) = Len(processes[p].ins)
              /\ DOMAIN inStreams[p] = DOMAIN processes[p].ins
              /\ \A n, x : ArgIs(p, n, x) <=>
                             n \in DOMAIN inStreams[p] /\ inStreams[p][n] = x
         /\ \A s \in DOMAIN spaces :
              /\ ~Unread(s) => Planned(s) /\ Consumers(s) # {}
              /\ stream[s] # NoName
              /\ IF Shared(s) THEN cpyStreams[s] # << >>
                 ELSE cpyStreams[s] = << >>
              /\ Shared(s) => ~Unread(s)
         /\ \A s, t \in DOMAIN spaces : stream[s] = stream[t] => s = t
         /\ CopiesOK /\ ArgsOK
  <1>1. /\ IInv /\ TrackOK /\ link = 0 /\ MarkInv
        /\ stack = << >> /\ outSpaces = << >>
    BY DEF ScheduleInv, Done
  <1>2. /\ GraphOK /\ MarkTypeOK /\ PlanOK /\ NamesOK /\ CopiesOK /\ ArgsOK
        /\ OutOK /\ Ordered(schedule) /\ StackOK(stack, schedule, inStreams)
    BY <1>1, GraphIsOK DEF MarkInv, OrderOK
  <1>3. ASSUME NEW p \in DOMAIN processes
        PROVE  /\ Scheduled(p) /\ outStream[p] = stream[processes[p].out]
               /\ Len(inStreams[p]) = Len(processes[p].ins)
               /\ DOMAIN inStreams[p] = DOMAIN processes[p].ins
               /\ \A n, x : ArgIs(p, n, x) <=>
                              n \in DOMAIN inStreams[p] /\ inStreams[p][n] = x
    <2>1. Scheduled(p)
      BY AllScheduled
    <2>2. outStream[p] = stream[processes[p].out]
      BY <1>2, <2>1 DEF OutOK
    <2>3. Len(inStreams[p]) = Len(processes[p].ins)
      BY <1>1, <1>2, <2>1 DEF StackOK, Scheduled
    <2>4. inStreams[p] \in Seq(Name) /\ processes[p].ins \in Seq(DOMAIN spaces)
      BY <1>2 DEF MarkTypeOK, GraphOK
    <2>5. DOMAIN inStreams[p] = DOMAIN processes[p].ins
      BY <2>3, <2>4
    <2>6. \A n, x : ArgIs(p, n, x) <=>
                      n \in DOMAIN inStreams[p] /\ inStreams[p][n] = x
      BY <1>1 DEF ArgIs, Arg
    <2> QED
      BY <2>1, <2>2, <2>3, <2>5, <2>6
  <1>4. ASSUME NEW s \in DOMAIN spaces
        PROVE  Met(s) = Consumers(s)
    <2>1. ASSUME NEW c \in Consumers(s)
          PROVE  \E x : ArgIs(c[1], c[2], x)
      <3>1. c[1] \in DOMAIN processes /\ c[2] \in DOMAIN processes[c[1]].ins
        BY DEF Consumers
      <3>2. PICK q, n, x : q = c[1] /\ n = c[2] /\ x = inStreams[q][n]
        OBVIOUS
      <3>3. ArgIs(q, n, x)
        BY <1>3, <3>1, <3>2
      <3> QED
        BY <3>2, <3>3
    <2> QED
      BY <2>1 DEF Met
  <1>5. ASSUME NEW s \in DOMAIN spaces, ~Unread(s)
        PROVE  Planned(s) /\ Consumers(s) # {} /\ Cardinality(Consumers(s)) # 0
    <2>1. Cardinality(Consumers(s)) # 0 /\ Cardinality({}) = 0
      BY <1>2, <1>5, FS_EmptySet DEF GraphOK, Unread
    <2> QED
      BY <1>2, <1>4, <1>5, <2>1 DEF PlanOK
  <1>6. ASSUME NEW s \in DOMAIN spaces
        PROVE  stream[s] # NoName
    <2>1. Named(s)
      BY <1>1, <1>4, <1>5 DEF Named, Waiting, Holds
    <2> QED
      BY <1>2, <2>1, NamesDiffer DEF NamesOK, OldOut, OldTmp
  <1>7. ASSUME NEW s \in DOMAIN spaces
        PROVE  /\ IF Shared(s) THEN cpyStreams[s] # << >>
                  ELSE cpyStreams[s] = << >>
               /\ Shared(s) => ~Unread(s)
    <2>1. Shared(s) => ~Unread(s)
      BY DEF Shared, Unread
    <2>2. cpyStreams[s] \in Seq(Name)
      BY <1>2 DEF MarkTypeOK
    <2>3. Len(cpyStreams[s]) = IF Shared(s) THEN Cardinality(Consumers(s)) ELSE 0
      BY <1>2, <1>4 DEF CopiesOK
    <2>4. Shared(s) => cpyStreams[s] # << >>
      BY <1>5, <2>1, <2>3
    <2>5. ~Shared(s) => cpyStreams[s] = << >>
      BY <2>2, <2>3
    <2> QED
      BY <2>1, <2>4, <2>5
  <1>8. \A s, t \in DOMAIN spaces : stream[s] = stream[t] => s = t
    BY <1>2, <1>6 DEF NamesOK
  <1>9. schedule \in Seq(Node) /\ Distinct(schedule)
    BY <1>2 DEF MarkTypeOK, PlanOK
  <1> QED
    BY <1>2, <1>3, <1>5, <1>6, <1>7, <1>8, <1>9

(* Statements.  The m-th stream a node of the schedule writes or reads.    *)
NodeGives(d, m, x) ==
  /\ Holds(schedule, d)
  /\ m \in DOMAIN Statement(d).outs /\ Statement(d).outs[m] = x
NodeTakes(d, m, x) ==
  /\ Holds(schedule, d)
  /\ m \in DOMAIN Statement(d).ins /\ Statement(d).ins[m] = x

LEMMA StatementsOf ==
  ASSUME ScheduleInv, Done, OutOfPlace
  PROVE  /\ \A p \in DOMAIN processes : \A m, x :
              /\ NodeGives(ProcessNode(p), m, x) <=>
                   m = 1 /\ x = stream[processes[p].out]
              /\ NodeTakes(ProcessNode(p), m, x) <=> ArgIs(p, m, x)
         /\ \A s \in DOMAIN spaces : \A m, x :
              /\ NodeGives(SpaceNode(s), m, x) <=>
                   Shared(s) /\ m \in DOMAIN cpyStreams[s] /\ x = cpyStreams[s][m]
              /\ NodeTakes(SpaceNode(s), m, x) <=>
                   Shared(s) /\ m = 1 /\ x = stream[s]
         /\ \A d, m, x : NodeGives(d, m, x) \/ NodeTakes(d, m, x) =>
              \/ \E p \in DOMAIN processes : d = ProcessNode(p)
              \/ \E s \in DOMAIN spaces : d = SpaceNode(s)
  <1>1. ASSUME NEW p \in DOMAIN processes
        PROVE  /\ Statement(ProcessNode(p)).outs = <<stream[processes[p].out]>>
               /\ Statement(ProcessNode(p)).ins = inStreams[p]
               /\ Holds(schedule, ProcessNode(p))
    BY DoneFacts DEF Statement, ProcessNode, Scheduled
  <1>2. ASSUME NEW s \in DOMAIN spaces
        PROVE  IF Shared(s)
               THEN /\ Statement(SpaceNode(s)).outs = cpyStreams[s]
                    /\ Statement(SpaceNode(s)).ins = <<stream[s]>>
                    /\ Holds(schedule, SpaceNode(s))
               ELSE /\ Statement(SpaceNode(s)).outs = << >>
                    /\ Statement(SpaceNode(s)).ins = << >>
    BY DoneFacts DEF Statement, SpaceNode, Planned
  <1>3. ASSUME NEW p \in DOMAIN processes, NEW m, NEW x
        PROVE  /\ NodeGives(ProcessNode(p), m, x) <=>
                    m = 1 /\ x = stream[processes[p].out]
               /\ NodeTakes(ProcessNode(p), m, x) <=> ArgIs(p, m, x)
    BY <1>1, DoneFacts DEF NodeGives, NodeTakes
  <1>4. ASSUME NEW s \in DOMAIN spaces, NEW m, NEW x
        PROVE  /\ NodeGives(SpaceNode(s), m, x) <=>
                    Shared(s) /\ m \in DOMAIN cpyStreams[s] /\ x = cpyStreams[s][m]
               /\ NodeTakes(SpaceNode(s), m, x) <=>
                    Shared(s) /\ m = 1 /\ x = stream[s]
    BY <1>2 DEF NodeGives, NodeTakes
  <1>5. ASSUME NEW d, NEW m, NEW x, NodeGives(d, m, x) \/ NodeTakes(d, m, x)
        PROVE  \/ \E p \in DOMAIN processes : d = ProcessNode(p)
               \/ \E s \in DOMAIN spaces : d = SpaceNode(s)
    <2>1. schedule \in Seq(Node)
      BY DoneFacts
    <2>2. d \in Node
      BY <1>5, <2>1 DEF NodeGives, NodeTakes, Holds
    <2> QED
      BY <2>2, NodeTypes
  <1> QED
    BY <1>3, <1>4, <1>5

(* The statement of every node is printed at one place, from the back.     *)
LEMMA PrintedOnce ==
  ASSUME schedule \in Seq(Node), Distinct(schedule)
  PROVE  /\ \A n \in DOMAIN Code :
              /\ n \in Nat /\ n # 0
              /\ Code[n] = Statement(NodeAt(n))
              /\ Holds(schedule, NodeAt(n))
         /\ \A d : Holds(schedule, d) => \E n \in DOMAIN Code : NodeAt(n) = d
         /\ \A n, k \in DOMAIN Code : NodeAt(n) = NodeAt(k) => n = k
         /\ \A i, j \in DOMAIN schedule : \A n \in DOMAIN Code :
              i < j /\ NodeAt(n) = schedule[i] =>
                \E k \in 1..(n - 1) : k \in DOMAIN Code /\ NodeAt(k) = schedule[j]
  <1>1. PICK l : l = Len(schedule)
    OBVIOUS
  <1>2. /\ l \in Nat /\ DOMAIN schedule = 1..l
        /\ \A i \in 1..l : i \in Nat /\ i # 0 /\ i <= l
    BY <1>1
  <1>3. /\ DOMAIN Code = 1..l
        /\ \A n \in 1..l : Code[n] = Statement(NodeAt(n))
        /\ \A n : NodeAt(n) = schedule[l + 1 - n]
    BY <1>1 DEF Code, NodeAt
  <1>4. \A n \in 1..l : l + 1 - n \in 1..l /\ l + 1 - (l + 1 - n) = n
    BY <1>2
  <1>5. \A n \in DOMAIN Code : n \in Nat /\ n # 0 /\ Holds(schedule, NodeAt(n))
    BY <1>2, <1>3, <1>4 DEF Holds
  <1>6. ASSUME NEW i \in DOMAIN schedule
        PROVE  l + 1 - i \in DOMAIN Code /\ NodeAt(l + 1 - i) = schedule[i]
    BY <1>2, <1>3, <1>4
  <1>7. ASSUME NEW n \in DOMAIN Code, NEW k \in DOMAIN Code, NodeAt(n) = NodeAt(k)
        PROVE  n = k
    <2>1. l + 1 - n = l + 1 - k
      BY <1>2, <1>3, <1>4, <1>7 DEF Distinct
    <2> QED
      BY <1>2, <1>3, <2>1
  <1>8. ASSUME NEW i \in DOMAIN schedule, NEW j \in DOMAIN schedule, i < j,
               NEW n \in DOMAIN Code, NodeAt(n) = schedule[i]
        PROVE  \E k \in 1..(n - 1) : k \in DOMAIN Code /\ NodeAt(k) = schedule[j]
    <2>1. n = l + 1 - i
      BY <1>6, <1>7, <1>8
    <2>2. PICK k : k = l + 1 - j
      OBVIOUS
    <2>3. k \in DOMAIN Code /\ NodeAt(k) = schedule[j]
      BY <1>6, <2>2
    <2>4. k \in 1..(n - 1)
      BY <1>2, <1>3, <1>8, <2>1, <2>2, <2>3
    <2> QED
      BY <2>3, <2>4
  <1>9. \A d : Holds(schedule, d) => \E n \in DOMAIN Code : NodeAt(n) = d
    BY <1>6 DEF Holds
  <1> QED
    BY <1>3, <1>5, <1>7, <1>8, <1>9

LEMMA OneElement ==
  ASSUME NEW S, NEW e \in S, \A x \in S : x = e
  PROVE  Cardinality(S) = 1
  <1>1. S = {e}
    OBVIOUS
  <1> QED
    BY <1>1, FS_Singleton

(* A stream has one writer if one node gives it and no input does, or the  *)
(* other way round; and so for the readers.                                *)
LEMMA WriterCounted ==
  ASSUME schedule \in Seq(Node), Distinct(schedule), NEW x
  PROVE  /\ \A d, m :
              NodeGives(d, m, x) /\ (\A e, k : NodeGives(e, k, x) => e = d /\ k = m)
              /\ (\A s \in Inputs : stream[s] # x) =>
                Cardinality(WritersOf(x)) = 1
         /\ \A s \in Inputs :
              stream[s] = x /\ (\A t \in Inputs : stream[t] = x => t = s)
              /\ (\A d, m : ~NodeGives(d, m, x)) =>
                Cardinality(WritersOf(x)) = 1
  <1>1. \A c : c \in WritersOf(x) <=>
                 \/ \E n \in DOMAIN Code : \E m \in DOMAIN Code[n].outs :
                      c = <<n, m>> /\ Code[n].outs[m] = x
                 \/ \E s \in Inputs : c = <<0, s>> /\ stream[s] = x
    <2> DEFINE At(n, q) == {n} \X Occurs(x, q)
               Ends == {0} \X {s \in Inputs : stream[s] = x}
    <2>1. \A c : c \in WritersOf(x) <=>
                   \/ \E n \in DOMAIN Code : c \in At(n, Code[n].outs)
                   \/ c \in Ends
      <3> DEFINE F == {At(n, Code[n].outs) : n \in DOMAIN Code}
      <3>1. WritersOf(x) = (UNION F) \cup Ends
        BY Zenon DEF WritersOf
      <3>2. \A T : T \in F <=> \E n \in DOMAIN Code : T = At(n, Code[n].outs)
        <4> HIDE DEF At
        <4> QED
          OBVIOUS
      <3> HIDE DEF At, Ends, F
      <3>3. \A c : c \in (UNION F) \cup Ends <=> (\E T \in F : c \in T) \/ c \in Ends
        OBVIOUS
      <3> QED
        BY <3>1, <3>2, <3>3
    <2>2. \A c, n, q : c \in At(n, q) <=>
                        \E m \in DOMAIN q : c = <<n, m>> /\ q[m] = x
      BY DEF Occurs
    <2>3. \A c : c \in Ends <=> \E s \in Inputs : c = <<0, s>> /\ stream[s] = x
      OBVIOUS
    <2> HIDE DEF At, Ends
    <2> QED
      BY <2>1, <2>2, <2>3
  <1>2. \A n \in DOMAIN Code : \A m :
          m \in DOMAIN Code[n].outs /\ Code[n].outs[m] = x <=> NodeGives(NodeAt(n), m, x)
    BY PrintedOnce DEF NodeGives
  <1>3. \A c : c \in WritersOf(x) <=>
                 \/ \E n \in DOMAIN Code : \E m :
                      c = <<n, m>> /\ NodeGives(NodeAt(n), m, x)
                 \/ \E s \in Inputs : c = <<0, s>> /\ stream[s] = x
    BY <1>1, <1>2
  <1>4. ASSUME NEW d, NEW m, NodeGives(d, m, x),
               \A e, k : NodeGives(e, k, x) => e = d /\ k = m,
               \A s \in Inputs : stream[s] # x
        PROVE  Cardinality(WritersOf(x)) = 1
    <2>1. PICK n \in DOMAIN Code : NodeAt(n) = d
      BY <1>4, PrintedOnce DEF NodeGives
    <2>2. <<n, m>> \in WritersOf(x)
      BY <1>3, <1>4, <2>1
    <2>3. ASSUME NEW c \in WritersOf(x)
          PROVE  c = <<n, m>>
      <3>1. PICK k, j :
              k \in DOMAIN Code /\ c = <<k, j>> /\ NodeGives(NodeAt(k), j, x)
        BY <1>3, <1>4, <2>3
      <3>2. NodeAt(k) = d /\ j = m
        BY <1>4, <3>1
      <3>3. k = n
        BY <2>1, <3>1, <3>2, PrintedOnce
      <3> QED
        BY <3>1, <3>2, <3>3
    <2> QED
      BY <2>2, <2>3, OneElement
  <1>5. ASSUME NEW s \in Inputs, stream[s] = x,
               \A t \in Inputs : stream[t] = x => t = s,
               \A d, m : ~NodeGives(d, m, x)
        PROVE  Cardinality(WritersOf(x)) = 1
    <2>1. <<0, s>> \in WritersOf(x)
      BY <1>3, <1>5
    <2>2. \A c \in WritersOf(x) : c = <<0, s>>
      BY <1>3, <1>5
    <2> QED
      BY <2>1, <2>2, OneElement
  <1> QED
    BY <1>4, <1>5

LEMMA ReaderCounted ==
  ASSUME schedule \in Seq(Node), Distinct(schedule), NEW x
  PROVE  /\ \A d, m :
              NodeTakes(d, m, x) /\ (\A e, k : NodeTakes(e, k, x) => e = d /\ k = m)
              /\ (\A s \in Outputs : stream[s] # x) =>
                Cardinality(ReadersOf(x)) = 1
         /\ \A s \in Outputs :
              stream[s] = x /\ (\A t \in Outputs : stream[t] = x => t = s)
              /\ (\A d, m : ~NodeTakes(d, m, x)) =>
                Cardinality(ReadersOf(x)) = 1
  <1>1. \A c : c \in ReadersOf(x) <=>
                 \/ \E n \in DOMAIN Code : \E m \in DOMAIN Code[n].ins :
                      c = <<n, m>> /\ Code[n].ins[m] = x
                 \/ \E s \in Outputs : c = <<0, s>> /\ stream[s] = x
    <2> DEFINE At(n, q) == {n} \X Occurs(x, q)
               Ends == {0} \X {s \in Outputs : stream[s] = x}
    <2>1. \A c : c \in ReadersOf(x) <=>
                   \/ \E n \in DOMAIN Code : c \in At(n, Code[n].ins)
                   \/ c \in Ends
      <3> DEFINE F == {At(n, Code[n].ins) : n \in DOMAIN Code}
      <3>1. ReadersOf(x) = (UNION F) \cup Ends
        BY Zenon DEF ReadersOf
      <3>2. \A T : T \in F <=> \E n \in DOMAIN Code : T = At(n, Code[n].ins)
        <4> HIDE DEF At
        <4> QED
          OBVIOUS
      <3> HIDE DEF At, Ends, F
      <3>3. \A c : c \in (UNION F) \cup Ends <=> (\E T \in F : c \in T) \/ c \in Ends
        OBVIOUS
      <3> QED
        BY <3>1, <3>2, <3>3
    <2>2. \A c, n, q : c \in At(n, q) <=>
                        \E m \in DOMAIN q : c = <<n, m>> /\ q[m] = x
      BY DEF Occurs
    <2>3. \A c : c \in Ends <=> \E s \in Outputs : c = <<0, s>> /\ stream[s] = x
      OBVIOUS
    <2> HIDE DEF At, Ends
    <2> QED
      BY <2>1, <2>2, <2>3
  <1>2. \A n \in DOMAIN Code : \A m :
          m \in DOMAIN Code[n].ins /\ Code[n].ins[m] = x <=> NodeTakes(NodeAt(n), m, x)
    BY PrintedOnce DEF NodeTakes
  <1>3. \A c : c \in ReadersOf(x) <=>
                 \/ \E n \in DOMAIN Code : \E m :
                      c = <<n, m>> /\ NodeTakes(NodeAt(n), m, x)
                 \/ \E s \in Outputs : c = <<0, s>> /\ stream[s] = x
    BY <1>1, <1>2
  <1>4. ASSUME NEW d, NEW m, NodeTakes(d, m, x),
               \A e, k : NodeTakes(e, k, x) => e = d /\ k = m,
               \A s \in Outputs : stream[s] # x
        PROVE  Cardinality(ReadersOf(x)) = 1
    <2>1. PICK n \in DOMAIN Code : NodeAt(n) = d
      BY <1>4, PrintedOnce DEF NodeTakes
    <2>2. <<n, m>> \in ReadersOf(x)
      BY <1>3, <1>4, <2>1
    <2>3. ASSUME NEW c \in ReadersOf(x)
          PROVE  c = <<n, m>>
      <3>1. PICK k, j :
              k \in DOMAIN Code /\ c = <<k, j>> /\ NodeTakes(NodeAt(k), j, x)
        BY <1>3, <1>4, <2>3
      <3>2. NodeAt(k) = d /\ j = m
        BY <1>4, <3>1
      <3>3. k = n
        BY <2>1, <3>1, <3>2, PrintedOnce
      <3> QED
        BY <3>1, <3>2, <3>3
    <2> QED
      BY <2>2, <2>3, OneElement
  <1>5. ASSUME NEW s \in Outputs, stream[s] = x,
               \A t \in Outputs : stream[t] = x => t = s,
               \A d, m : ~NodeTakes(d, m, x)
        PROVE  Cardinality(ReadersOf(x)) = 1
    <2>1. <<0, s>> \in ReadersOf(x)
      BY <1>3, <1>5
    <2>2. \A c \in ReadersOf(x) : c = <<0, s>>
      BY <1>3, <1>5
    <2> QED
      BY <2>1, <2>2, OneElement
  <1> QED
    BY <1>4, <1>5

(* The stream of a space: its producer writes it, the host if there is     *)
(* none; its copy statement, its one reader or the host reads it.          *)
LEMMA SpaceStreamPoints ==
  ASSUME ScheduleInv, Done, OutOfPlace, NEW s \in DOMAIN spaces
  PROVE  /\ Cardinality(WritersOf(stream[s])) = 1
         /\ Cardinality(ReadersOf(stream[s])) = 1
  <1>1. PICK x : x = stream[s]
    OBVIOUS
  <1>2. /\ GraphOK /\ schedule \in Seq(Node) /\ Distinct(schedule)
        /\ CopiesOK /\ ArgsOK
        /\ \A t, r \in DOMAIN spaces : stream[t] = stream[r] => t = r
    BY DoneFacts
  <1>3. \A t \in DOMAIN spaces : \A k \in DOMAIN cpyStreams[t] :
          cpyStreams[t][k] # x
    BY <1>1, <1>2 DEF CopiesOK
  <1>4. ASSUME NEW d, NEW m, NodeGives(d, m, x)
        PROVE  /\ spaces[s].src \in DOMAIN processes /\ m = 1 /\ ~IsInput(s)
               /\ d = ProcessNode(spaces[s].src)
    <2>1. ~ \E t \in DOMAIN spaces : d = SpaceNode(t)
      BY <1>3, <1>4, StatementsOf
    <2>2. PICK p \in DOMAIN processes : d = ProcessNode(p)
      BY <1>4, <2>1, StatementsOf
    <2>3. m = 1 /\ x = stream[processes[p].out]
      BY <1>4, <2>2, StatementsOf
    <2>4. processes[p].out \in DOMAIN spaces /\ spaces[processes[p].out].src = p
          /\ p # 0
      BY <1>2 DEF GraphOK
    <2>5. processes[p].out = s
      BY <1>1, <1>2, <2>3, <2>4
    <2> QED
      BY <2>2, <2>3, <2>4, <2>5 DEF IsInput
  <1>5. Cardinality(WritersOf(x)) = 1
    <2>1. CASE IsInput(s)
      <3>1. s \in Inputs /\ \A t \in Inputs : stream[t] = x => t = s
        BY <1>1, <1>2, <2>1 DEF Inputs
      <3>2. \A d, m : ~NodeGives(d, m, x)
        BY <1>4, <2>1
      <3> QED
        BY <1>1, <1>2, <3>1, <3>2, WriterCounted
    <2>2. CASE ~IsInput(s)
      <3>1. PICK p : p = spaces[s].src
        OBVIOUS
      <3>2. p \in DOMAIN processes /\ processes[p].out = s
        BY <1>2, <2>2, <3>1 DEF GraphOK, IsInput
      <3>3. NodeGives(ProcessNode(p), 1, x)
        BY <1>1, <3>2, StatementsOf
      <3>4. \A e, k : NodeGives(e, k, x) => e = ProcessNode(p) /\ k = 1
        BY <1>4, <3>1
      <3>5. \A t \in Inputs : stream[t] # x
        BY <1>1, <1>2, <2>2 DEF Inputs
      <3> QED
        BY <1>2, <3>3, <3>4, <3>5, WriterCounted
    <2> QED
      BY <2>1, <2>2
  <1>6. ASSUME NEW p \in DOMAIN processes, NEW n, ArgIs(p, n, x)
        PROVE  /\ n \in DOMAIN processes[p].ins /\ processes[p].ins[n] = s
               /\ ~Shared(s) /\ ~Unread(s)
    <2>1. PICK t : t = processes[p].ins[n]
      OBVIOUS
    <2>2. /\ n \in DOMAIN processes[p].ins
          /\ IF Shared(t) THEN Holds(cpyStreams[t], x) ELSE x = stream[t]
      BY <1>2, <1>6, <2>1 DEF ArgsOK
    <2>3. t \in DOMAIN spaces /\ <<p, n>> \in Consumers(t)
      BY <1>2, <2>1, <2>2, ElementType DEF GraphOK, Consumers
    <2>4. ~Shared(t)
      BY <1>3, <2>2, <2>3 DEF Holds
    <2>5. t = s
      BY <1>1, <1>2, <2>2, <2>3, <2>4
    <2>6. ~Unread(s)
      BY <1>2, <2>3, <2>5, NoConsumers
    <2> QED
      BY <2>1, <2>2, <2>4, <2>5, <2>6
  <1>7. ASSUME NEW d, NEW m, NodeTakes(d, m, x)
        PROVE  \/ d = SpaceNode(s) /\ m = 1 /\ Shared(s)
               \/ \E p \in DOMAIN processes : d = ProcessNode(p) /\ ArgIs(p, m, x)
    <2>1. CASE \E p \in DOMAIN processes : d = ProcessNode(p)
      BY <1>7, <2>1, StatementsOf
    <2>2. CASE \E t \in DOMAIN spaces : d = SpaceNode(t)
      BY <1>1, <1>2, <1>7, <2>2, StatementsOf
    <2> QED
      BY <1>7, <2>1, <2>2, StatementsOf
  <1>8. Cardinality(ReadersOf(x)) = 1
    <2>1. CASE Unread(s)
      <3>1. s \in Outputs /\ \A t \in Outputs : stream[t] = x => t = s
        BY <1>1, <1>2, <2>1 DEF Outputs, IsOutput, Unread
      <3>2. ~Shared(s)
        BY <2>1, DoneFacts
      <3>3. \A d, m : ~NodeTakes(d, m, x)
        BY <1>6, <1>7, <2>1, <3>2
      <3> QED
        BY <1>1, <1>2, <3>1, <3>3, ReaderCounted
    <2>2. CASE Shared(s)
      <3>1. NodeTakes(SpaceNode(s), 1, x)
        BY <1>1, <2>2, StatementsOf
      <3>2. \A e, k : NodeTakes(e, k, x) => e = SpaceNode(s) /\ k = 1
        BY <1>6, <1>7, <2>2
      <3>3. ~Unread(s)
        BY <2>2, DoneFacts
      <3>4. \A t \in Outputs : stream[t] # x
        BY <1>1, <1>2, <3>3 DEF Outputs, IsOutput, Unread
      <3> QED
        BY <1>2, <3>1, <3>2, <3>4, ReaderCounted
    <2>3. CASE ~Unread(s) /\ ~Shared(s)
      <3>1. PICK c \in Consumers(s) : TRUE
        BY <2>3, DoneFacts
      <3>2. PICK p, n : p = c[1] /\ n = c[2]
        OBVIOUS
      <3>3. /\ p \in DOMAIN processes /\ n \in DOMAIN processes[p].ins
            /\ processes[p].ins[n] = s
        BY <3>1, <3>2 DEF Consumers
      <3>4. PICK y : y = inStreams[p][n]
        OBVIOUS
      <3>5. ArgIs(p, n, y)
        BY <3>3, <3>4, DoneFacts
      <3>6. y = x
        BY <1>1, <1>2, <2>3, <3>3, <3>5 DEF ArgsOK
      <3>7. NodeTakes(ProcessNode(p), n, x)
        BY <3>3, <3>5, <3>6, StatementsOf
      <3>8. ASSUME NEW e, NEW k, NodeTakes(e, k, x)
            PROVE  e = ProcessNode(p) /\ k = n
        <4>1. PICK q \in DOMAIN processes : e = ProcessNode(q) /\ ArgIs(q, k, x)
          BY <1>7, <2>3, <3>8
        <4>2. q = p /\ k = n
          BY <1>2, <3>3, <3>5, <3>6, <4>1 DEF ArgsOK
        <4> QED
          BY <4>1, <4>2
      <3>9. \A t \in Outputs : stream[t] # x
        BY <1>1, <1>2, <2>3 DEF Outputs, IsOutput, Unread
      <3> QED
        BY <1>2, <3>7, <3>8, <3>9, ReaderCounted
    <2> QED
      BY <2>1, <2>2, <2>3
  <1> QED
    BY <1>1, <1>5, <1>8

(* A copy: the copy statement writes it and one argument reads it.         *)
LEMMA CopyPoints ==
  ASSUME ScheduleInv, Done, OutOfPlace,
         NEW s \in DOMAIN spaces, NEW k \in DOMAIN cpyStreams[s]
  PROVE  /\ cpyStreams[s][k] # NoName
         /\ Cardinality(WritersOf(cpyStreams[s][k])) = 1
         /\ Cardinality(ReadersOf(cpyStreams[s][k])) = 1
  <1>1. PICK x : x = cpyStreams[s][k]
    OBVIOUS
  <1>2. /\ GraphOK /\ schedule \in Seq(Node) /\ Distinct(schedule)
        /\ CopiesOK /\ ArgsOK
    BY DoneFacts
  <1>3. x # NoName /\ \A t \in DOMAIN spaces : stream[t] # x
    BY <1>1, <1>2, NamesDiffer DEF CopiesOK, OldTmp
  <1>4. Shared(s)
    <2>1. ~Shared(s) => cpyStreams[s] = << >>
      BY DoneFacts
    <2> QED
      BY <2>1
  <1>5. /\ \A t \in Inputs : stream[t] # x
        /\ \A t \in Outputs : stream[t] # x
    BY <1>3 DEF Inputs, Outputs
  <1>6. NodeGives(SpaceNode(s), k, x)
    BY <1>1, <1>4, StatementsOf
  <1>7. ASSUME NEW e, NEW j, NodeGives(e, j, x)
        PROVE  e = SpaceNode(s) /\ j = k
    <2>1. ~ \E p \in DOMAIN processes : e = ProcessNode(p)
      <3>1. \A p \in DOMAIN processes : processes[p].out \in DOMAIN spaces
        BY <1>2 DEF GraphOK
      <3> QED
        BY <1>3, <1>7, <3>1, StatementsOf
    <2>2. PICK t \in DOMAIN spaces : e = SpaceNode(t)
      BY <1>7, <2>1, StatementsOf
    <2>3. j \in DOMAIN cpyStreams[t] /\ x = cpyStreams[t][j]
      BY <1>7, <2>2, StatementsOf
    <2>4. t = s /\ j = k
      <3>1. \A a, b \in DOMAIN spaces :
              \A c \in DOMAIN cpyStreams[a], h \in DOMAIN cpyStreams[b] :
                cpyStreams[a][c] = cpyStreams[b][h] => a = b /\ c = h
        BY <1>2 DEF CopiesOK
      <3>2. cpyStreams[t][j] = cpyStreams[s][k]
        BY <1>1, <2>3
      <3> QED
        BY <2>3, <3>1, <3>2
    <2> QED
      BY <2>2, <2>4
  <1>8. Cardinality(WritersOf(x)) = 1
    BY <1>2, <1>5, <1>6, <1>7, WriterCounted
  <1>9. PICK p \in DOMAIN processes : \E n \in DOMAIN processes[p].ins :
          ArgIs(p, n, x)
    BY <1>1, <1>2 DEF ArgsOK
  <1>10. PICK n \in DOMAIN processes[p].ins : ArgIs(p, n, x)
    BY <1>9
  <1>11. NodeTakes(ProcessNode(p), n, x)
    BY <1>10, StatementsOf
  <1>12. ASSUME NEW e, NEW j, NodeTakes(e, j, x)
         PROVE  e = ProcessNode(p) /\ j = n
    <2>1. ~ \E t \in DOMAIN spaces : e = SpaceNode(t)
      BY <1>3, <1>12, StatementsOf
    <2>2. PICK q \in DOMAIN processes : e = ProcessNode(q)
      BY <1>12, <2>1, StatementsOf
    <2>3. ArgIs(q, j, x)
      BY <1>12, <2>2, StatementsOf
    <2>4. q = p /\ j = n
      BY <1>2, <1>10, <2>3 DEF ArgsOK
    <2> QED
      BY <2>2, <2>4
  <1>13. Cardinality(ReadersOf(x)) = 1
    BY <1>2, <1>5, <1>11, <1>12, ReaderCounted
  <1> QED
    BY <1>1, <1>3, <1>8, <1>13

(* There are no other streams in the entry function.                       *)
LEMMA StreamsKnown ==
  ASSUME ScheduleInv, Done, OutOfPlace, NEW x \in StreamsUsed
  PROVE  \/ \E s \in DOMAIN spaces : x = stream[s]
         \/ \E s \in DOMAIN spaces : \E k \in DOMAIN cpyStreams[s] :
              x = cpyStreams[s][k]
  <1>1. /\ GraphOK /\ ArgsOK /\ schedule \in Seq(Node) /\ Distinct(schedule)
    BY DoneFacts
  <1>2. CASE x \in EntryIns \cup EntryOuts
    BY <1>2 DEF EntryIns, EntryOuts, Inputs, Outputs
  <1>3. CASE x \notin EntryIns \cup EntryOuts
    <2> DEFINE Of(n) == {Code[n].outs[m] : m \in DOMAIN Code[n].outs} \cup
                        {Code[n].ins[m] : m \in DOMAIN Code[n].ins}
               F == {Of(n) : n \in DOMAIN Code}
    <2>1. StreamsUsed = EntryIns \cup EntryOuts \cup UNION F
      BY Zenon DEF StreamsUsed
    <2>2. \A T : T \in F <=> \E n \in DOMAIN Code : T = Of(n)
      <3> HIDE DEF Of
      <3> QED
        OBVIOUS
    <2>3. \E T \in F : x \in T
      <3> HIDE DEF F
      <3> QED
        BY <1>3, <2>1
    <2>4. PICK n \in DOMAIN Code : x \in Of(n)
      BY <2>2, <2>3
    <2>5. PICK d : d = NodeAt(n)
      OBVIOUS
    <2>6. Code[n] = Statement(d) /\ Holds(schedule, d)
      BY <1>1, <2>4, <2>5, PrintedOnce
    <2>7. \E m : NodeGives(d, m, x) \/ NodeTakes(d, m, x)
      BY <2>4, <2>6 DEF NodeGives, NodeTakes
    <2>8. PICK m : NodeGives(d, m, x) \/ NodeTakes(d, m, x)
      BY <2>7
    <2>9. CASE \E s \in DOMAIN spaces : d = SpaceNode(s)
      BY <2>8, <2>9, StatementsOf
    <2>10. ASSUME NEW p \in DOMAIN processes, d = ProcessNode(p)
           PROVE  \/ \E s \in DOMAIN spaces : x = stream[s]
                  \/ \E s \in DOMAIN spaces : \E k \in DOMAIN cpyStreams[s] :
                       x = cpyStreams[s][k]
      <3>1. CASE NodeGives(d, m, x)
        <4>1. processes[p].out \in DOMAIN spaces /\ x = stream[processes[p].out]
          BY <1>1, <2>10, <3>1, StatementsOf DEF GraphOK
        <4> QED
          BY <4>1
      <3>2. CASE NodeTakes(d, m, x)
        <4>1. PICK t : t = processes[p].ins[m]
          OBVIOUS
        <4>2. ArgIs(p, m, x)
          BY <2>10, <3>2, StatementsOf
        <4>3. /\ m \in DOMAIN processes[p].ins
              /\ IF Shared(t) THEN Holds(cpyStreams[t], x) ELSE x = stream[t]
          BY <1>1, <4>1, <4>2 DEF ArgsOK
        <4>4. t \in DOMAIN spaces
          BY <1>1, <4>1, <4>3, ElementType DEF GraphOK
        <4> QED
          BY <4>3, <4>4 DEF Holds
      <3> QED
        BY <2>8, <3>1, <3>2
    <2> QED
      BY <2>8, <2>9, <2>10, StatementsOf
  <1> QED
    BY <1>2, <1>3

LEMMA StreamEnds ==
  ASSUME ScheduleInv, Done, OutOfPlace, NEW x \in StreamsUsed
  PROVE  /\ x # NoName
         /\ Cardinality(WritersOf(x)) = 1
         /\ Cardinality(ReadersOf(x)) = 1
  <1>1. CASE \E s \in DOMAIN spaces : x = stream[s]
    BY <1>1, SpaceStreamPoints, DoneFacts
  <1>2. CASE \E s \in DOMAIN spaces : \E k \in DOMAIN cpyStreams[s] :
               x = cpyStreams[s][k]
    BY <1>2, CopyPoints
  <1> QED
    BY <1>1, <1>2, StreamsKnown

(* Whatever the host program and however it shares its images, if no       *)
(* kernel works in place then every hls::stream of the entry function has  *)
(* one writer and one reader: prettyPrint prints a legal dataflow region.  *)
THEOREM DataflowIsPointToPoint == ScheduleSpec => [](OutOfPlace => PointToPoint)
  <1>1. ScheduleInv => (OutOfPlace => PointToPoint)
    BY StreamEnds DEF PointToPoint
  <1> QED
    BY <1>1, ScheduleInvariant, PTL

LEMMA GivenEarlier ==
  ASSUME schedule \in Seq(Node), Distinct(schedule),
         NEW i \in DOMAIN schedule, NEW j \in DOMAIN schedule, i < j,
         NEW n \in DOMAIN Code, NodeAt(n) = schedule[i],
         NEW m, NEW x, NodeGives(schedule[j], m, x)
  PROVE  \E k \in 1..(n - 1) : Occurs(x, Code[k].outs) # {}
  <1>1. PICK k \in 1..(n - 1) : k \in DOMAIN Code /\ NodeAt(k) = schedule[j]
    BY PrintedOnce
  <1>2. Code[k] = Statement(schedule[j])
    BY <1>1, PrintedOnce
  <1>3. m \in Occurs(x, Code[k].outs)
    BY <1>2 DEF NodeGives, Occurs
  <1> QED
    BY <1>1, <1>3

(* In the schedule a space that is read comes before its producer.         *)
LEMMA ProducerAfterSpace ==
  ASSUME ScheduleInv, Done, OutOfPlace, NEW s \in DOMAIN spaces, ~Unread(s),
         ~IsInput(s), NEW i \in DOMAIN schedule, schedule[i] = SpaceNode(s)
  PROVE  \E j \in DOMAIN schedule : i < j /\ NodeGives(schedule[j], 1, stream[s])
  <1>1. /\ GraphOK /\ Distinct(schedule) /\ Ordered(schedule)
    BY DoneFacts
  <1>2. PICK p : p = spaces[s].src
    OBVIOUS
  <1>3. p \in DOMAIN processes /\ processes[p].out = s
    BY <1>1, <1>2 DEF GraphOK, IsInput
  <1>4. PICK j \in DOMAIN schedule : schedule[j] = ProcessNode(p)
    BY <1>3, DoneFacts DEF Scheduled, Holds
  <1>5. PICK h \in DOMAIN schedule : h < j /\ schedule[h] = SpaceNode(s)
    BY <1>1, <1>3, <1>4 DEF Ordered, Precedes
  <1>6. h = i
    BY <1>1, <1>5 DEF Distinct
  <1>7. NodeGives(ProcessNode(p), 1, stream[s])
    BY <1>3, StatementsOf
  <1> QED
    BY <1>4, <1>5, <1>6, <1>7

LEMMA ReadAfterWritten ==
  ASSUME ScheduleInv, Done, OutOfPlace,
         NEW n \in DOMAIN Code, NEW m \in DOMAIN Code[n].ins, NEW x,
         x = Code[n].ins[m]
  PROVE  \/ x \in EntryIns
         \/ \E k \in 1..(n - 1) : Occurs(x, Code[k].outs) # {}
  <1>1. /\ GraphOK /\ ArgsOK /\ schedule \in Seq(Node) /\ Distinct(schedule)
        /\ Ordered(schedule)
    BY DoneFacts
  <1>2. PICK d : d = NodeAt(n)
    OBVIOUS
  <1>3. Holds(schedule, d) /\ NodeTakes(d, m, x)
    BY <1>1, <1>2, PrintedOnce DEF NodeTakes
  <1>4. PICK i \in DOMAIN schedule : schedule[i] = d
    BY <1>3 DEF Holds
  <1>5. ASSUME NEW j \in DOMAIN schedule, i < j, NEW k, NodeGives(schedule[j], k, x)
        PROVE  \E h \in 1..(n - 1) : Occurs(x, Code[h].outs) # {}
    BY <1>1, <1>2, <1>4, <1>5, GivenEarlier
  <1>6. ASSUME NEW s \in DOMAIN spaces, IsInput(s), x = stream[s]
        PROVE  x \in EntryIns
    BY <1>6 DEF EntryIns, Inputs
  <1>7. ASSUME NEW s \in DOMAIN spaces, d = SpaceNode(s)
        PROVE  \/ x \in EntryIns
               \/ \E k \in 1..(n - 1) : Occurs(x, Code[k].outs) # {}
    <2>1. Shared(s) /\ x = stream[s]
      BY <1>3, <1>7, StatementsOf
    <2>2. ~Unread(s)
      BY <2>1, DoneFacts
    <2>3. CASE ~IsInput(s)
      BY <1>4, <1>5, <1>7, <2>1, <2>2, <2>3, ProducerAfterSpace
    <2> QED
      BY <1>6, <2>1, <2>3
  <1>8. ASSUME NEW p \in DOMAIN processes, d = ProcessNode(p)
        PROVE  \/ x \in EntryIns
               \/ \E k \in 1..(n - 1) : Occurs(x, Code[k].outs) # {}
    <2>1. PICK t : t = processes[p].ins[m]
      OBVIOUS
    <2>2. ArgIs(p, m, x)
      BY <1>3, <1>8, StatementsOf
    <2>3. /\ m \in DOMAIN processes[p].ins
          /\ IF Shared(t) THEN Holds(cpyStreams[t], x) ELSE x = stream[t]
      BY <1>1, <2>1, <2>2 DEF ArgsOK
    <2>4. t \in DOMAIN spaces /\ <<p, m>> \in Consumers(t)
      BY <1>1, <2>1, <2>3, ElementType DEF GraphOK, Consumers
    <2>5. ~Unread(t)
      BY <1>1, <2>4, NoConsumers
    <2>6. PICK j \in DOMAIN schedule : schedule[j] = SpaceNode(t)
      BY <2>4, <2>5, DoneFacts DEF Planned, Holds
    <2>7. i < j
      <3>1. Precedes(schedule, ProcessNode(p), j)
        <4>1. \A c \in Consumers(t) : Precedes(schedule, ProcessNode(c[1]), j)
          BY <1>1, <2>4, <2>6 DEF Ordered
        <4> QED
          BY <2>4, <4>1
      <3> QED
        BY <1>1, <1>4, <1>8, <3>1 DEF Precedes, Distinct
    <2>8. CASE Shared(t)
      <3>1. PICK k \in DOMAIN cpyStreams[t] : cpyStreams[t][k] = x
        BY <2>3, <2>8 DEF Holds
      <3>2. NodeGives(SpaceNode(t), k, x)
        BY <2>4, <2>8, <3>1, StatementsOf
      <3> QED
        BY <1>5, <2>6, <2>7, <3>2
    <2>9. CASE ~Shared(t) /\ ~IsInput(t)
      <3>1. PICK k \in DOMAIN schedule : j < k /\ NodeGives(schedule[k], 1, stream[t])
        BY <2>4, <2>5, <2>6, <2>9, ProducerAfterSpace
      <3>2. i < k
        BY <1>1, <2>7, <3>1
      <3> QED
        BY <1>5, <2>3, <2>9, <3>1, <3>2
    <2>10. CASE ~Shared(t) /\ IsInput(t)
      BY <1>6, <2>3, <2>4, <2>10
    <2> QED
      BY <2>8, <2>9, <2>10
  <1> QED
    BY <1>3, <1>7, <1>8, StatementsOf

(* A statement of the entry function reads parameters and streams that     *)
(* statements printed before it write: printing the schedule from back to  *)
(* front gives code that also runs sequentially.                           *)
THEOREM WrittenBeforeRead ==
  ScheduleSpec => [](OutOfPlace => ProducerPrintedFirst)
  <1>1. ScheduleInv => (OutOfPlace => ProducerPrintedFirst)
    BY ReadAfterWritten DEF ProducerPrintedFirst
  <1> QED
    BY <1>1, ScheduleInvariant, PTL

LEMMA CarriedByOne ==
  ASSUME ScheduleInv, Done, OutOfPlace, NEW s \in DOMAIN spaces
  PROVE  /\ CarriedBy(stream[s]) = {s}
         /\ \A x : Holds(cpyStreams[s], x) => CarriedBy(x) = {s}
  <1>1. /\ CopiesOK
        /\ \A t, r \in DOMAIN spaces : stream[t] = stream[r] => t = r
    BY DoneFacts
  <1>2. /\ \A t, r \in DOMAIN spaces : \A k \in DOMAIN cpyStreams[t] :
             cpyStreams[t][k] # stream[r]
        /\ \A t, r \in DOMAIN spaces :
             \A k \in DOMAIN cpyStreams[t], m \in DOMAIN cpyStreams[r] :
               cpyStreams[t][k] = cpyStreams[r][m] => t = r /\ k = m
    BY <1>1 DEF CopiesOK
  <1>3. \A x, t : t \in CarriedBy(x) <=>
                    t \in DOMAIN spaces /\ (stream[t] = x \/ Holds(cpyStreams[t], x))
    <2>1. \A x, q : Occurs(x, q) # {} <=> Holds(q, x)
      BY DEF Occurs, Holds
    <2> QED
      BY <2>1 DEF CarriedBy
  <1>4. \A t : t \in CarriedBy(stream[s]) <=> t = s
    BY <1>1, <1>2, <1>3 DEF Holds
  <1>5. ASSUME NEW x, Holds(cpyStreams[s], x)
        PROVE  CarriedBy(x) = {s}
    <2>1. PICK k \in DOMAIN cpyStreams[s] : cpyStreams[s][k] = x
      BY <1>5 DEF Holds
    <2>2. ASSUME NEW t, t \in CarriedBy(x)
          PROVE  t = s
      <3>1. t \in DOMAIN spaces /\ (stream[t] = x \/ Holds(cpyStreams[t], x))
        BY <1>3, <2>2
      <3>2. PICK m \in DOMAIN cpyStreams[t] : cpyStreams[t][m] = x
        BY <1>2, <2>1, <3>1 DEF Holds
      <3>3. cpyStreams[t][m] = cpyStreams[s][k]
        BY <2>1, <3>2
      <3> QED
        BY <1>2, <2>1, <3>1, <3>2, <3>3
    <2>3. s \in CarriedBy(x)
      BY <1>3, <1>5
    <2> QED
      BY <2>2, <2>3
  <1> QED
    BY <1>4, <1>5

LEMMA ArgumentCarriesRead ==
  ASSUME ScheduleInv, Done, OutOfPlace, NEW p \in DOMAIN processes,
         NEW n \in DOMAIN inStreams[p], NEW x, x = inStreams[p][n]
  PROVE  CarriesRead(x, p, n)
  <1>1. GraphOK /\ ArgsOK /\ IInv /\ link = 0
    BY DoneFacts DEF ScheduleInv, Done
  <1>2. PICK s : s = processes[p].ins[n]
    OBVIOUS
  <1>3. n \in DOMAIN processes[p].ins /\ ArgIs(p, n, x)
    BY DoneFacts
  <1>4. s \in DOMAIN spaces
    BY <1>1, <1>2, <1>3, ElementType DEF GraphOK
  <1>5. IF Shared(s) THEN Holds(cpyStreams[s], x) ELSE x = stream[s]
    BY <1>1, <1>2, <1>3 DEF ArgsOK
  <1>6. CarriedBy(x) = {s}
    <2>1. /\ CarriedBy(stream[s]) = {s}
          /\ \A y : Holds(cpyStreams[s], y) => CarriedBy(y) = {s}
      BY <1>4, CarriedByOne
    <2> QED
      BY <1>5, <2>1
  <1>7. FedByLastWriter(p, n)
    <2>1. Reads(p, n) # Writes(p)
      BY <1>1, <1>3, AccessorsLinked DEF OutOfPlace
    <2> QED
      BY <1>1, <1>3, <2>1 DEF IInv, ReadsLatestWrite
  <1>8. spaces[s].src # 0 => CarriedBy(outStream[spaces[s].src]) = {s}
    <2>1. ASSUME spaces[s].src # 0
          PROVE  CarriedBy(outStream[spaces[s].src]) = {s}
      <3>1. PICK q : q = spaces[s].src
        OBVIOUS
      <3>2. q \in DOMAIN processes /\ processes[q].out = s
        BY <1>1, <1>4, <2>1, <3>1 DEF GraphOK
      <3>3. outStream[q] = stream[s]
        BY <3>2, DoneFacts
      <3>4. CarriedBy(stream[s]) = {s}
        BY <1>4, CarriedByOne
      <3> QED
        BY <3>1, <3>3, <3>4
    <2> QED
      BY <2>1
  <1> QED
    BY <1>2, <1>6, <1>7, <1>8 DEF CarriesRead, FedByLastWriter

(* The last execution that writes an image has the youngest of the output  *)
(* spaces of that image, which getOutputStream returns first.              *)
LEMMA OutputIsLast ==
  ASSUME ScheduleInv, Done, NEW s \in Outputs,
         IsLastWriter(spaces[s].src, spaces[s].image, Len(processes))
  PROVE  OutputStream(spaces[s].image) = stream[s]
  <1>1. IInv /\ TrackOK
    BY DEF ScheduleInv
  <1>2. GraphOK
    BY <1>1, GraphIsOK
  <1>3. PICK i, found : /\ i = spaces[s].image
                        /\ found = {t \in Outputs : spaces[t].image = i}
    OBVIOUS
  <1>4. s \in found
    BY <1>3
  <1>5. Len(processes) \in Nat /\ DOMAIN processes = 1..Len(processes)
    BY <1>1, ProcessCount DEF IInv
  <1>6. ASSUME NEW t \in found
        PROVE  /\ t \in Nat /\ spaces[t].src \in DOMAIN processes
               /\ processes[spaces[t].src].out = t
               /\ Writes(spaces[t].src) = i
    <2>1. t \in DOMAIN spaces /\ spaces[t].dst = << >> /\ spaces[t].image = i
      BY <1>3, <1>6 DEF Outputs, IsOutput
    <2>2. PICK q : q = spaces[t].src
      OBVIOUS
    <2>3. t \in Nat /\ q \in DOMAIN processes /\ processes[q].out = t
      BY <1>2, <2>1, <2>2 DEF GraphOK
    <2>4. Writes(q) = i
      BY <1>1, <2>1, <2>3 DEF IInv, ProcOK
    <2> QED
      BY <2>2, <2>3, <2>4
  <1>7. ASSUME NEW t \in found
        PROVE  t <= s
    <2>1. PICK q, w : q = spaces[t].src /\ w = spaces[s].src
      OBVIOUS
    <2>2. /\ q \in DOMAIN processes /\ w \in DOMAIN processes
          /\ processes[q].out = t /\ processes[w].out = s
          /\ Writes(q) = i /\ t \in Nat /\ s \in Nat
      BY <1>4, <1>6, <1>7, <2>1
    <2>3. \A r \in (w + 1)..Len(processes) : Writes(r) # i
      BY <1>3, <2>1 DEF IsLastWriter
    <2>4. q \in Nat /\ w \in Nat /\ q <= Len(processes)
      BY <1>5, <2>2
    <2>5. q <= w
      <3>1. q \notin (w + 1)..Len(processes)
        BY <2>2, <2>3
      <3> QED
        BY <1>5, <2>4, <3>1
    <2>6. q < w => t < s
      BY <1>1, <2>2 DEF IInv, OutputsOrdered
    <2> QED
      BY <2>2, <2>4, <2>5, <2>6
  <1>8. (CHOOSE u \in found : \A t \in found : t <= u) = s
    <2>1. PICK u : u = CHOOSE r \in found : \A t \in found : t <= r
      OBVIOUS
    <2>2. u \in found /\ \A t \in found : t <= u
      BY <1>4, <1>7, <2>1
    <2>3. u <= s /\ s <= u /\ u \in Nat /\ s \in Nat
      BY <1>4, <1>6, <1>7, <2>2
    <2> QED
      BY <2>1, <2>3
  <1> QED
    BY <1>3, <1>4, <1>8 DEF OutputStream

(* Each call gets, for each accessor, the stream that carries the value    *)
(* the accessor reads in the sequential host program, and the host gets    *)
(* the result of the last execution that writes the image: the generated   *)
(* entry function computes what the program says.                          *)
THEOREM DataflowFollowsProgram ==
  ScheduleSpec => [](OutOfPlace => ArgumentsFollowProgram)
  <1>1. ASSUME ScheduleInv, OutOfPlace, Done, NEW p \in DOMAIN processes
        PROVE  /\ Len(inStreams[p]) = Len(AccsOf(p))
               /\ \A n \in DOMAIN inStreams[p] : CarriesRead(inStreams[p][n], p, n)
    <2>1. link = 0
      BY <1>1 DEF ScheduleInv, Done
    <2>2. Len(inStreams[p]) = Len(processes[p].ins)
      BY <1>1, DoneFacts
    <2> QED
      BY <1>1, <2>1, <2>2, AccessorsLinked, ArgumentCarriesRead
  <1>2. ScheduleInv => (OutOfPlace => ArgumentsFollowProgram)
    BY <1>1, OutputIsLast DEF ArgumentsFollowProgram
  <1> QED
    BY <1>2, ScheduleInvariant, PTL

-----------------------------------------------------------------------------
(* Induction, as a fact about sets.                                        *)
LEMMA NatSetInduction ==
  ASSUME NEW S, 0 \in S, \A n \in Nat : n \in S => n + 1 \in S
  PROVE  Nat \subseteq S
  <1> DEFINE T == {n \in Nat : n \notin S}
             R == {ss \in Nat \X Nat : ss[1] < ss[2]}
  <1>1. SUFFICES ASSUME T # {} PROVE FALSE
    OBVIOUS
  <1>2. IsWellFoundedOn(R, Nat)
    BY NatLessThanWellFounded DEF OpToRel
  <1>3. PICK x \in T : \A y \in T : <<y, x>> \notin R
    <2> HIDE DEF R
    <2> QED
      BY <1>1, <1>2, WFMin
  <1>4. x \in Nat /\ x # 0
    BY <1>3
  <1>5. x - 1 \in T
    BY <1>4, <1>3
  <1>6. <<x - 1, x>> \in R
    BY <1>4
  <1> QED
    BY <1>3, <1>5, <1>6

-----------------------------------------------------------------------------
(* How far a statement is after a number of iterations of its loop, which  *)
(* has rows of Width + d.x iterations.                                     *)
RowAt(it, d) == it \div (Width + d.x)
ColAt(it, d) == it % (Width + d.x)

TakenUpTo(r, c) ==
  IF r < Height THEN r * Width + (IF c < Width THEN c ELSE Width)
  ELSE Height * Width

GivenUpTo(r, c, d) ==
  IF r < d.y THEN 0
  ELSE (r - d.y) * Width + (IF c < d.x THEN 0 ELSE c - d.x)

TakenAt(it, d) == TakenUpTo(RowAt(it, d), ColAt(it, d))
GivenAt(it, d) == GivenUpTo(RowAt(it, d), ColAt(it, d), d)

Delays == [x : Nat, y : Nat]

LEMMA NextQuotient ==
  ASSUME NEW b \in Nat \ {0}, NEW it \in Nat
  PROVE  /\ it \div b \in Nat /\ it % b \in 0..(b - 1)
         /\ it = (b * (it \div b)) + (it % b)
         /\ (it % b) + 1 < b =>
              /\ (it + 1) \div b = it \div b
              /\ (it + 1) % b = (it % b) + 1
         /\ (it % b) + 1 = b =>
              /\ (it + 1) \div b = it \div b + 1
              /\ (it + 1) % b = 0
  <1>1. PICK r \in Int, c \in Int : r = it \div b /\ c = it % b
    OBVIOUS
  <1>2. r \in Nat /\ c \in 0..(b - 1) /\ it = b * r + c
    BY <1>1
  <1>3. PICK q \in Int, m \in Int : q = (it + 1) \div b /\ m = (it + 1) % b
    OBVIOUS
  <1>4. q \in Nat /\ m \in 0..(b - 1) /\ it + 1 = b * q + m
    BY <1>3
  <1>5. PICK e \in Int : q = r + e
    <2>1. q = r + (q - r) /\ q - r \in Int
      OBVIOUS
    <2> QED
      BY <2>1
  <1>6. b * q = b * r + b * e /\ b * e \in Int /\ b * r \in Int
    BY <1>5
  <1>7. b * e = c + 1 - m
    BY <1>2, <1>4, <1>6
  <1>8. e >= 2 => b * e >= b + b
    OBVIOUS
  <1>9. e <= -1 => b * e <= -b
    OBVIOUS
  <1>10. e = 0 => b * e = 0
    OBVIOUS
  <1>11. e = 1 => b * e = b
    OBVIOUS
  <1>12. e = 0 \/ e = 1
    BY <1>2, <1>4, <1>6, <1>7, <1>8, <1>9
  <1>13. /\ e = 0 => m = c + 1 /\ c + 1 < b
         /\ e = 1 => m = 0 /\ c + 1 = b
    BY <1>2, <1>4, <1>7, <1>10, <1>11
  <1>14. c + 1 < b => q = r /\ m = c + 1
    BY <1>5, <1>12, <1>13
  <1>15. c + 1 = b => q = r + 1 /\ m = 0
    BY <1>5, <1>12, <1>13
  <1>16. it \div b \in Nat /\ it % b \in 0..(b - 1)
    BY <1>1, <1>2
  <1>17. it = (b * (it \div b)) + (it % b)
    OBVIOUS
  <1>18. /\ (it % b) + 1 < b =>
              /\ (it + 1) \div b = it \div b
              /\ (it + 1) % b = (it % b) + 1
         /\ (it % b) + 1 = b =>
              /\ (it + 1) \div b = it \div b + 1
              /\ (it + 1) % b = 0
    BY <1>1, <1>3, <1>14, <1>15
  <1> QED
    BY <1>16, <1>17, <1>18

LEMMA Products ==
  ASSUME NEW a \in Int, NEW b \in Int, NEW w \in Nat
  PROVE  /\ a * w \in Int /\ (a + 1) * w = a * w + w
         /\ a <= b => a * w <= b * w
         /\ a < b => a * w + w <= b * w
  <1>1. PICK e \in Int : b = a + e
    <2>1. b = a + (b - a)
      OBVIOUS
    <2> QED
      BY <2>1
  <1>2. b * w = a * w + e * w /\ a * w \in Int /\ e * w \in Int
    BY <1>1
  <1>3. e >= 0 => e * w >= 0
    OBVIOUS
  <1>4. e >= 1 => e * w >= w
    OBVIOUS
  <1>5. (a + 1) * w = a * w + w
    OBVIOUS
  <1> QED
    BY <1>1, <1>2, <1>3, <1>4, <1>5

(* From one column to the next: at most one pixel is taken and at most one *)
(* given, whose window has then been taken.                                *)
LEMMA NextColumn ==
  ASSUME NEW d \in Delays, NEW r \in Nat, NEW c \in Nat,
         c < Width + d.x, r < Height + d.y
  PROVE  /\ TakenUpTo(r, c) \in Nat /\ TakenUpTo(r, c) <= Size
         /\ GivenUpTo(r, c, d) \in Nat /\ GivenUpTo(r, c, d) <= Size
         /\ TakenUpTo(r, c + 1) =
              TakenUpTo(r, c) + (IF c < Width /\ r < Height THEN 1 ELSE 0)
         /\ GivenUpTo(r, c + 1, d) =
              GivenUpTo(r, c, d) + (IF c >= d.x /\ r >= d.y THEN 1 ELSE 0)
         /\ c >= d.x /\ r >= d.y =>
              /\ (r - d.y) * Width + c - d.x + 1 = GivenUpTo(r, c, d) + 1
              /\ GivenUpTo(r, c, d) + 1 <= TakenUpTo(r, c + 1)
  <1>1. PICK x \in Nat, y \in Nat : x = d.x /\ y = d.y
    BY DEF Delays
  <1>2. PICK H \in Nat \ {0}, W \in Nat \ {0} : H = Height /\ W = Width
    BY ImageIsNotEmpty
  <1>3. PICK P \in Int, Q \in Int, S \in Int :
          P = r * W /\ Q = (r - y) * W /\ S = H * W
    OBVIOUS
  <1>4. Size = S
    BY <1>2, <1>3 DEF Size
  <1>5. P >= 0 /\ (r >= y => Q >= 0) /\ Q <= P
    <2>1. 0 * W = 0 /\ r - y \in Int
      OBVIOUS
    <2>2. 0 * W <= r * W
      BY Products
    <2>3. (r - y) * W <= r * W
      BY <2>1, Products
    <2>4. 0 <= r - y => 0 * W <= (r - y) * W
      BY <2>1, Products
    <2> QED
      BY <1>3, <2>1, <2>2, <2>3, <2>4
  <1>6. (r < H => P + W <= S) /\ Q + W <= S
    <2>1. r < H => r * W + W <= H * W
      BY Products
    <2>2. r - y \in Int /\ r - y < H
      BY <1>1, <1>2
    <2>3. (r - y) * W + W <= H * W
      BY <2>2, Products
    <2> QED
      BY <1>3, <2>1, <2>3
  <1>7. /\ TakenUpTo(r, c) = IF r < H THEN P + (IF c < W THEN c ELSE W) ELSE S
        /\ TakenUpTo(r, c + 1) =
             IF r < H THEN P + (IF c + 1 < W THEN c + 1 ELSE W) ELSE S
        /\ GivenUpTo(r, c, d) =
             IF r < y THEN 0 ELSE Q + (IF c < x THEN 0 ELSE c - x)
        /\ GivenUpTo(r, c + 1, d) =
             IF r < y THEN 0 ELSE Q + (IF c + 1 < x THEN 0 ELSE (c + 1) - x)
    BY <1>1, <1>2, <1>3 DEF TakenUpTo, GivenUpTo
  <1>8. c < W + x /\ r < H + y /\ (r - d.y) * Width + c - d.x + 1 = Q + c - x + 1
    BY <1>1, <1>2, <1>3
  <1>9a. PICK T \in Int : T = IF r < H THEN P + (IF c < W THEN c ELSE W) ELSE S
    OBVIOUS
  <1>9b. PICK T1 \in Int :
           T1 = IF r < H THEN P + (IF c + 1 < W THEN c + 1 ELSE W) ELSE S
    OBVIOUS
  <1>9c. PICK G \in Int :
           G = IF r < y THEN 0 ELSE Q + (IF c < x THEN 0 ELSE c - x)
    OBVIOUS
  <1>9d. PICK G1 \in Int :
           G1 = IF r < y THEN 0 ELSE Q + (IF c + 1 < x THEN 0 ELSE (c + 1) - x)
    <2>1. PICK v \in Int : v = IF c + 1 < x THEN 0 ELSE (c + 1) - x
      <3>1. (IF c + 1 < x THEN 0 ELSE (c + 1) - x) \in Int
        OBVIOUS
      <3> QED
        BY <3>1
    <2>2. PICK w \in Int : w = IF r < y THEN 0 ELSE Q + v
      OBVIOUS
    <2> QED
      BY <2>1, <2>2
  <1>9. /\ T = IF r < H THEN P + (IF c < W THEN c ELSE W) ELSE S
        /\ T1 = IF r < H THEN P + (IF c + 1 < W THEN c + 1 ELSE W) ELSE S
        /\ G = IF r < y THEN 0 ELSE Q + (IF c < x THEN 0 ELSE c - x)
        /\ G1 = IF r < y THEN 0 ELSE Q + (IF c + 1 < x THEN 0 ELSE (c + 1) - x)
    BY <1>9a, <1>9b, <1>9c, <1>9d
  <1>10. /\ TakenUpTo(r, c) = T /\ TakenUpTo(r, c + 1) = T1
         /\ GivenUpTo(r, c, d) = G /\ GivenUpTo(r, c + 1, d) = G1
    BY <1>7, <1>9
  <1>15. S >= 0
    <2>1. 0 * W = 0 /\ 0 * W <= H * W
      BY Products
    <2> QED
      BY <1>3, <2>1
  <1>11. T >= 0 /\ T <= S /\ T1 = T + (IF c < W /\ r < H THEN 1 ELSE 0)
    <2>1. CASE r < H
      BY <1>5, <1>6, <1>9a, <1>9b, <2>1
    <2>2. CASE ~(r < H)
      BY <1>9a, <1>9b, <1>15, <2>2
    <2> QED
      BY <2>1, <2>2
  <1>12. r >= y => r < H + y /\ Q >= 0 /\ Q + W <= S /\ c < W + x
    BY <1>5, <1>6, <1>8
  <1>13. G >= 0 /\ G <= S /\ G1 = G + (IF c >= x /\ r >= y THEN 1 ELSE 0)
    <2>1. CASE r < y
      BY <1>9c, <1>9d, <1>15, <2>1
    <2>2. CASE r >= y
      BY <1>9c, <1>9d, <1>12, <2>2
    <2> QED
      BY <2>1, <2>2
  <1>14. c >= x /\ r >= y => Q + c - x + 1 = G + 1 /\ G + 1 <= T1
    <2>1. ASSUME c >= x, r >= y
          PROVE  Q + c - x + 1 = G + 1 /\ G + 1 <= T1
      <3>1. G = Q + (c - x)
        BY <1>9, <2>1
      <3> QED
        BY <1>5, <1>6, <1>8, <1>9, <2>1, <3>1
    <2> QED
      BY <2>1
  <1> QED
    BY <1>1, <1>2, <1>4, <1>8, <1>10, <1>11, <1>13, <1>14

(* The end of a row is the beginning of the next.                          *)
LEMMA NextRow ==
  ASSUME NEW d \in Delays, NEW r \in Nat
  PROVE  /\ TakenUpTo(r + 1, 0) = TakenUpTo(r, Width + d.x)
         /\ r < Height + d.y =>
              GivenUpTo(r + 1, 0, d) = GivenUpTo(r, Width + d.x, d)
  <1>1. PICK x \in Nat, y \in Nat : x = d.x /\ y = d.y
    BY DEF Delays
  <1>2. PICK H \in Nat \ {0}, W \in Nat \ {0} : H = Height /\ W = Width
    BY ImageIsNotEmpty
  <1>3. PICK P \in Int, Q \in Int, S \in Int :
          P = r * W /\ Q = (r - y) * W /\ S = H * W
    OBVIOUS
  <1>4. (r + 1) * W = P + W /\ ((r + 1) - y) * W = Q + W
    <2>1. (r + 1) * W = r * W + W
      BY Products
    <2>2. (r + 1) - y = (r - y) + 1 /\ r - y \in Int
      OBVIOUS
    <2>3. ((r - y) + 1) * W = (r - y) * W + W
      BY <2>2, Products
    <2> QED
      BY <1>3, <2>1, <2>2, <2>3
  <1>5. (r + 1 = H => P + W = S) /\ (r + 1 = y => Q + W = 0)
    <2>1. r + 1 = H => (r + 1) * W = S
      BY <1>3
    <2>2. r + 1 = y => ((r + 1) - y) * W = 0 * W /\ 0 * W = 0
      OBVIOUS
    <2> QED
      BY <1>4, <2>1, <2>2
  <1>6. /\ TakenUpTo(r + 1, 0) =
             IF r + 1 < H THEN P + W + (IF 0 < W THEN 0 ELSE W) ELSE S
        /\ TakenUpTo(r, Width + d.x) =
             IF r < H THEN P + (IF W + x < W THEN W + x ELSE W) ELSE S
        /\ GivenUpTo(r + 1, 0, d) =
             IF r + 1 < y THEN 0 ELSE Q + W + (IF 0 < x THEN 0 ELSE 0 - x)
        /\ GivenUpTo(r, Width + d.x, d) =
             IF r < y THEN 0 ELSE Q + (IF W + x < x THEN 0 ELSE (W + x) - x)
    BY <1>1, <1>2, <1>3, <1>4 DEF TakenUpTo, GivenUpTo
  <1> QED
    BY <1>1, <1>2, <1>5, <1>6

LEMMA OneIteration ==
  ASSUME NEW it \in Nat, NEW d \in Delays, RowAt(it, d) # Height + d.y,
         it <= (Height + d.y) * (Width + d.x)
  PROVE  LET r == RowAt(it, d)
             c == ColAt(it, d)
         IN  /\ TakenAt(it, d) \in Nat /\ TakenAt(it, d) <= Size
             /\ GivenAt(it, d) \in Nat /\ GivenAt(it, d) <= Size
             /\ it + 1 <= (Height + d.y) * (Width + d.x)
             /\ TakenAt(it + 1, d) =
                  TakenAt(it, d) + (IF c < Width /\ r < Height THEN 1 ELSE 0)
             /\ GivenAt(it + 1, d) =
                  GivenAt(it, d) + (IF c >= d.x /\ r >= d.y THEN 1 ELSE 0)
             /\ c >= d.x /\ r >= d.y =>
                  /\ (r - d.y) * Width + c - d.x + 1 = GivenAt(it, d) + 1
                  /\ GivenAt(it, d) + 1 <= TakenAt(it + 1, d)
  <1>1. PICK b \in Nat \ {0}, h \in Nat : b = Width + d.x /\ h = Height + d.y
    BY ImageIsNotEmpty DEF Delays
  <1>2. PICK r \in Int, c \in Int : r = it \div b /\ c = it % b
    OBVIOUS
  <1>3. /\ r \in Nat /\ c \in 0..(b - 1) /\ it = b * r + c
        /\ c + 1 < b => (it + 1) \div b = r /\ (it + 1) % b = c + 1
        /\ c + 1 = b => (it + 1) \div b = r + 1 /\ (it + 1) % b = 0
    BY <1>2, NextQuotient
  <1>4. r = RowAt(it, d) /\ c = ColAt(it, d) /\ r # h /\ it <= h * b
    BY <1>1, <1>2 DEF RowAt, ColAt
  <1>5. b * r = r * b /\ r * b \in Int /\ h * b \in Int
    OBVIOUS
  <1>6. r < h
    <2>1. h < r => h * b + b <= r * b
      BY Products
    <2> QED
      BY <1>3, <1>4, <1>5, <2>1
  <1>7. it + 1 <= h * b
    <2>1. r * b + b <= h * b
      BY <1>6, Products
    <2> QED
      BY <1>3, <1>5, <2>1
  <1>8. c \in Nat /\ c < Width + d.x /\ r < Height + d.y
    BY <1>1, <1>3, <1>6
  <1>9. /\ TakenAt(it + 1, d) = TakenUpTo(r, c + 1)
        /\ GivenAt(it + 1, d) = GivenUpTo(r, c + 1, d)
    <2>1. CASE c + 1 < b
      BY <1>1, <1>3, <2>1 DEF TakenAt, GivenAt, RowAt, ColAt
    <2>2. CASE c + 1 = b
      <3>1. TakenAt(it + 1, d) = TakenUpTo(r + 1, 0)
        BY <1>1, <1>3, <2>2 DEF TakenAt, RowAt, ColAt
      <3>2. GivenAt(it + 1, d) = GivenUpTo(r + 1, 0, d)
        BY <1>1, <1>3, <2>2 DEF GivenAt, RowAt, ColAt
      <3>3. c + 1 = Width + d.x /\ r \in Nat
        BY <1>1, <1>3, <2>2
      <3> QED
        BY <1>8, <3>1, <3>2, <3>3, NextRow
    <2> QED
      BY <1>3, <2>1, <2>2
  <1>10. TakenAt(it, d) = TakenUpTo(r, c) /\ GivenAt(it, d) = GivenUpTo(r, c, d)
    BY <1>4 DEF TakenAt, GivenAt
  <1>11. it + 1 <= (Height + d.y) * (Width + d.x)
    BY <1>1, <1>7
  <1>12. r \in Nat
    BY <1>3
  <1> QED
    BY <1>4, <1>8, <1>9, <1>10, <1>11, <1>12, NextColumn

(* When the loop ends, everything has been given.                          *)
LEMMA AfterLastIteration ==
  ASSUME NEW it \in Nat, NEW d \in Delays, RowAt(it, d) = Height + d.y,
         it <= (Height + d.y) * (Width + d.x)
  PROVE  GivenAt(it, d) = Size /\ TakenAt(it, d) = Size
  <1>1. PICK b \in Nat \ {0}, h \in Nat : b = Width + d.x /\ h = Height + d.y
    BY ImageIsNotEmpty DEF Delays
  <1>2. PICK c \in Int : h = it \div b /\ c = it % b
    BY <1>1 DEF RowAt
  <1>3. c \in 0..(b - 1) /\ it = b * h + c
    BY <1>2, NextQuotient
  <1>4. b * h = h * b /\ h * b \in Int /\ it <= h * b
    BY <1>1
  <1>5. c = 0
    BY <1>3, <1>4
  <1>6. TakenAt(it, d) = TakenUpTo(h, 0) /\ GivenAt(it, d) = GivenUpTo(h, 0, d)
    BY <1>1, <1>2, <1>5 DEF TakenAt, GivenAt, RowAt, ColAt
  <1>7. PICK x \in Nat, y \in Nat : x = d.x /\ y = d.y
    BY DEF Delays
  <1>8. PICK H \in Nat \ {0}, W \in Nat \ {0} : H = Height /\ W = Width
    BY ImageIsNotEmpty
  <1>9. h = H + y /\ ~(h < H) /\ ~(h < y) /\ h - y = H
    BY <1>1, <1>7, <1>8
  <1>10. H * W = W * H /\ H * W \in Int /\ Size = W * H
    BY <1>8 DEF Size
  <1>11. TakenUpTo(h, 0) = H * W
    BY <1>8, <1>9 DEF TakenUpTo
  <1>12. GivenUpTo(h, 0, d) = H * W + (IF 0 < x THEN 0 ELSE 0 - x)
    BY <1>7, <1>8, <1>9 DEF GivenUpTo
  <1> QED
    BY <1>6, <1>10, <1>11, <1>12

LEMMA BeforeFirstIteration ==
  ASSUME NEW d \in Delays
  PROVE  /\ TakenAt(0, d) = 0 /\ GivenAt(0, d) = 0
         /\ 0 <= (Height + d.y) * (Width + d.x)
  <1>1. PICK b \in Nat \ {0}, h \in Nat : b = Width + d.x /\ h = Height + d.y
    BY ImageIsNotEmpty DEF Delays
  <1>2. 0 \div b = 0 /\ 0 % b = 0
    OBVIOUS
  <1>3. TakenAt(0, d) = TakenUpTo(0, 0) /\ GivenAt(0, d) = GivenUpTo(0, 0, d)
    BY <1>1, <1>2 DEF TakenAt, GivenAt, RowAt, ColAt
  <1>4. PICK x \in Nat, y \in Nat : x = d.x /\ y = d.y
    BY DEF Delays
  <1>5. PICK H \in Nat \ {0}, W \in Nat \ {0} : H = Height /\ W = Width
    BY ImageIsNotEmpty
  <1>6. TakenUpTo(0, 0) = 0
    <2>1. TakenUpTo(0, 0) = 0 * W + 0
      BY <1>5 DEF TakenUpTo
    <2>2. 0 * W = 0
      OBVIOUS
    <2> QED
      BY <2>1, <2>2
  <1>7. GivenUpTo(0, 0, d) = 0
    <2>1. CASE y = 0
      <3>1. GivenUpTo(0, 0, d) = (0 - y) * W + (IF 0 < x THEN 0 ELSE 0 - x)
        BY <1>4, <1>5, <2>1 DEF GivenUpTo
      <3>2. (0 - y) * W = 0
        BY <2>1
      <3> QED
        BY <3>1, <3>2
    <2>2. CASE y > 0
      BY <1>4, <2>2 DEF GivenUpTo
    <2> QED
      BY <2>1, <2>2
  <1>8. 0 <= h * b
    OBVIOUS
  <1> QED
    BY <1>1, <1>3, <1>6, <1>7, <1>8

-----------------------------------------------------------------------------
(* The sequential program: the images, at pixel k, after each execution.   *)
AtFirst(k) == [i \in Image |-> <<i, k>>]

Executed(images, n) ==
  [images EXCEPT ![Writes(n)] =
     <<processes[n].kernel,
       [m \in DOMAIN AccsOf(n) |-> images[Reads(n, m)]]>>]

RunsUpTo(f, N, k) ==
  f = [n \in 0..N |-> IF n = 0 THEN AtFirst(k) ELSE Executed(f[n - 1], n)]

After(k) == CHOOSE f : RunsUpTo(f, Len(processes), k)

LEMMA MeaningIsAfter ==
  ASSUME NEW k
  PROVE  Meaning(k) = After(k)[Len(processes)]
  BY DEF Meaning, After, RunsUpTo, Executed, AtFirst

LEMMA AfterExists ==
  ASSUME NEW N \in Nat, NEW k
  PROVE  \E f : RunsUpTo(f, N, k)
  <1> DEFINE S == {n \in Nat : \E f : RunsUpTo(f, n, k)}
  <1>1. 0 \in S
    <2>1. RunsUpTo([n \in 0..0 |-> AtFirst(k)], 0, k)
      BY DEF RunsUpTo
    <2> QED
      BY <2>1
  <1>2. ASSUME NEW n \in Nat, n \in S
        PROVE  n + 1 \in S
    <2>1. PICK f : RunsUpTo(f, n, k)
      BY <1>2
    <2> DEFINE g == [m \in 0..(n + 1) |->
                       IF m = n + 1 THEN Executed(f[n], n + 1) ELSE f[m]]
    <2>2. f = [m \in 0..n |-> IF m = 0 THEN AtFirst(k) ELSE Executed(f[m - 1], m)]
      BY <2>1 DEF RunsUpTo
    <2>3. \A m \in 0..n : f[m] = IF m = 0 THEN AtFirst(k) ELSE Executed(f[m - 1], m)
      BY <2>2
    <2>4. ASSUME NEW m \in 0..(n + 1)
          PROVE  g[m] = IF m = 0 THEN AtFirst(k) ELSE Executed(g[m - 1], m)
      <3>1. CASE m = n + 1
        <4>1. g[m] = Executed(f[n], m) /\ g[m - 1] = f[n] /\ m # 0
          BY <3>1
        <4> QED
          BY <4>1
      <3>2. CASE m # n + 1
        <4>1. m \in 0..n /\ g[m] = f[m]
          BY <3>2
        <4>2. m # 0 => m - 1 \in 0..(n + 1) /\ m - 1 # n + 1
          BY <4>1
        <4>3. m # 0 => g[m - 1] = f[m - 1]
          BY <4>2
        <4> QED
          BY <2>3, <4>1, <4>3
      <3> QED
        BY <3>1, <3>2
    <2>5. g = [m \in 0..(n + 1) |->
                 IF m = 0 THEN AtFirst(k) ELSE Executed(g[m - 1], m)]
      <3>1. PICK h : h = g
        OBVIOUS
      <3>2. h = [m \in 0..(n + 1) |-> h[m]]
        BY <3>1
      <3>3. \A m \in 0..(n + 1) :
              h[m] = IF m = 0 THEN AtFirst(k) ELSE Executed(h[m - 1], m)
        BY <2>4, <3>1
      <3>4. h = [m \in 0..(n + 1) |->
                   IF m = 0 THEN AtFirst(k) ELSE Executed(h[m - 1], m)]
        BY <3>2, <3>3
      <3> QED
        BY <3>1, <3>4
    <2>6. RunsUpTo(g, n + 1, k)
      BY <2>5 DEF RunsUpTo
    <2> QED
      BY <2>6
  <1>3. Nat \subseteq S
    <2> HIDE DEF S
    <2> QED
      BY <1>1, <1>2, NatSetInduction
  <1> QED
    BY <1>3

LEMMA AfterFacts ==
  ASSUME Len(processes) \in Nat, NEW k
  PROVE  /\ After(k)[0] = AtFirst(k)
         /\ \A n \in 1..Len(processes) :
              After(k)[n] = Executed(After(k)[n - 1], n)
  <1>1. PICK f : f = After(k)
    OBVIOUS
  <1>2. RunsUpTo(f, Len(processes), k)
    BY <1>1, AfterExists DEF After
  <1>3. f = [n \in 0..Len(processes) |->
               IF n = 0 THEN AtFirst(k) ELSE Executed(f[n - 1], n)]
    BY <1>2 DEF RunsUpTo
  <1>4. f[0] = AtFirst(k) /\ \A n \in 1..Len(processes) : f[n] = Executed(f[n - 1], n)
    BY <1>3
  <1> QED
    BY <1>1, <1>4

LEMMA AfterDomain ==
  ASSUME Len(processes) \in Nat, NEW k
  PROVE  \A j \in 0..Len(processes) : DOMAIN After(k)[j] = Image
  <1> DEFINE D == {j \in Nat : j \in 0..Len(processes) => DOMAIN After(k)[j] = Image}
  <1>1. \A images, j : DOMAIN images = Image => DOMAIN Executed(images, j) = Image
    BY DEF Executed
  <1>2. 0 \in D
    BY AfterFacts DEF AtFirst
  <1>3. ASSUME NEW j \in Nat, j \in D
        PROVE  j + 1 \in D
    <2>1. ASSUME j + 1 \in 0..Len(processes)
          PROVE  DOMAIN After(k)[j + 1] = Image
      <3>1. j + 1 \in 1..Len(processes) /\ (j + 1) - 1 = j /\ j \in 0..Len(processes)
        BY <2>1
      <3>2. After(k)[j + 1] = Executed(After(k)[j], j + 1)
        BY <3>1, AfterFacts
      <3> QED
        BY <1>1, <1>3, <3>1, <3>2
    <2> QED
      BY <2>1
  <1>4. Nat \subseteq D
    <2> HIDE DEF D
    <2> QED
      BY <1>2, <1>3, NatSetInduction
  <1> QED
    BY <1>4

(* No execution changes an image that it does not write.                   *)
LEMMA AfterLastWriter ==
  ASSUME Len(processes) \in Nat, NEW k, NEW n \in 0..Len(processes),
         NEW i \in Image, NEW w, IsLastWriter(w, i, n)
  PROVE  After(k)[n][i] = After(k)[w][i]
  <1> DEFINE S == {j \in Nat : w + j \in w..n =>
                     /\ DOMAIN After(k)[w + j] = Image
                     /\ After(k)[w + j][i] = After(k)[w][i]}
  <1>1. /\ w \in 0..n /\ \A q \in (w + 1)..n : Writes(q) # i
    BY DEF IsLastWriter
  <1>4. \A j \in 0..Len(processes) : DOMAIN After(k)[j] = Image
    BY AfterDomain
  <1>5. Nat \subseteq S
    <2>1. 0 \in S
      BY <1>1, <1>4
    <2>2. ASSUME NEW j \in Nat, j \in S
          PROVE  j + 1 \in S
      <3>1. ASSUME w + (j + 1) \in w..n
            PROVE  After(k)[w + (j + 1)][i] = After(k)[w][i]
        <4>1. PICK q \in Nat : q = w + (j + 1)
          BY <1>1
        <4>2. /\ q \in 1..Len(processes) /\ q - 1 = w + j /\ w + j \in w..n
              /\ q \in (w + 1)..n /\ w + j \in 0..Len(processes)
          BY <1>1, <3>1, <4>1
        <4>3. After(k)[q] = Executed(After(k)[q - 1], q)
          BY <4>2, AfterFacts
        <4>4. Writes(q) # i
          BY <1>1, <4>2
        <4>5. PICK f : f = After(k)[q - 1]
          OBVIOUS
        <4>6. DOMAIN f = Image /\ f[i] = After(k)[w][i]
          BY <1>4, <2>2, <4>2, <4>5
        <4>7. Executed(f, q)[i] = f[i]
          BY <4>4, <4>6 DEF Executed
        <4> QED
          BY <4>1, <4>3, <4>5, <4>6, <4>7
      <3>2. w + (j + 1) \in w..n => w + (j + 1) \in 0..Len(processes)
        BY <1>1
      <3> QED
        BY <1>4, <3>1, <3>2
    <2> HIDE DEF S
    <2> QED
      BY <2>1, <2>2, NatSetInduction
  <1>6. PICK j \in Nat : n = w + j
    <2>1. n - w \in Nat /\ n = w + (n - w)
      BY <1>1
    <2> QED
      BY <2>1
  <1>7. n \in w..n
    BY <1>1
  <1> QED
    BY <1>5, <1>6, <1>7

-----------------------------------------------------------------------------
(* What a stream carries: the result of the process that writes its space. *)
CarriedSpace(x) == CHOOSE s : CarriedBy(x) = {s}

Pixel(x, k) ==
  After(k)[spaces[CarriedSpace(x)].src][spaces[CarriedSpace(x)].image]

LEMMA PixelOf ==
  ASSUME NEW x, NEW s, CarriedBy(x) = {s}, NEW k
  PROVE  Pixel(x, k) = After(k)[spaces[s].src][spaces[s].image]
  <1>1. CarriedBy(x) = {CarriedSpace(x)}
    BY DEF CarriedSpace
  <1>2. CarriedSpace(x) = s
    BY <1>1
  <1> QED
    BY <1>2 DEF Pixel

LEMMA ProcessesCounted ==
  ASSUME ScheduleInv
  PROVE  Len(processes) \in Nat /\ DOMAIN processes = 1..Len(processes)
  BY DEF ScheduleInv, IInv, TypeOK

(* The input that main() wrote, the result it reads.                       *)
LEMMA EndsCarry ==
  ASSUME ScheduleInv, Done, OutOfPlace, NEW s \in DOMAIN spaces, NEW k
  PROVE  /\ IsInput(s) => Pixel(stream[s], k) = <<spaces[s].image, k>>
         /\ IsLastWriter(spaces[s].src, spaces[s].image, Len(processes)) =>
              Pixel(stream[s], k) = Meaning(k)[spaces[s].image]
  <1>1. Pixel(stream[s], k) = After(k)[spaces[s].src][spaces[s].image]
    BY CarriedByOne, PixelOf
  <1>2. spaces[s].image \in Image
    BY DoneFacts DEF GraphOK
  <1>3. Len(processes) \in Nat
    BY ProcessesCounted
  <1>4. ASSUME IsInput(s)
        PROVE  Pixel(stream[s], k) = <<spaces[s].image, k>>
    <2>1. spaces[s].src = 0 /\ After(k)[0] = AtFirst(k)
      BY <1>3, <1>4, AfterFacts DEF IsInput
    <2>2. AtFirst(k)[spaces[s].image] = <<spaces[s].image, k>>
      BY <1>2 DEF AtFirst
    <2> QED
      BY <1>1, <2>1, <2>2
  <1>5. ASSUME IsLastWriter(spaces[s].src, spaces[s].image, Len(processes))
        PROVE  Pixel(stream[s], k) = Meaning(k)[spaces[s].image]
    <2>1. Len(processes) \in 0..Len(processes)
      BY <1>3
    <2>2. After(k)[Len(processes)][spaces[s].image] =
            After(k)[spaces[s].src][spaces[s].image]
      BY <1>2, <1>3, <1>5, <2>1, AfterLastWriter
    <2> QED
      BY <1>1, <2>2, MeaningIsAfter
  <1> QED
    BY <1>4, <1>5

(* An argument of a call carries what the execution reads.                 *)
LEMMA ArgumentPixel ==
  ASSUME ScheduleInv, Done, OutOfPlace, NEW p \in DOMAIN processes,
         NEW m \in DOMAIN inStreams[p], NEW k
  PROVE  Pixel(inStreams[p][m], k) = After(k)[p - 1][Reads(p, m)]
  <1>1. PICK x : x = inStreams[p][m]
    OBVIOUS
  <1>2. PICK s \in CarriedBy(x) :
          /\ CarriedBy(x) = {s} /\ spaces[s].image = Reads(p, m)
          /\ IsLastWriter(spaces[s].src, Reads(p, m), p - 1)
    BY <1>1, ArgumentCarriesRead DEF CarriesRead
  <1>3. s \in DOMAIN spaces
    BY DEF CarriedBy
  <1>4. Reads(p, m) \in Image
    BY <1>2, <1>3, DoneFacts DEF GraphOK
  <1>5. Len(processes) \in Nat /\ p - 1 \in 0..Len(processes)
    BY ProcessesCounted
  <1>6. After(k)[p - 1][Reads(p, m)] = After(k)[spaces[s].src][Reads(p, m)]
    BY <1>2, <1>4, <1>5, AfterLastWriter
  <1>7. Pixel(x, k) = After(k)[spaces[s].src][spaces[s].image]
    BY <1>2, PixelOf
  <1> QED
    BY <1>1, <1>2, <1>6, <1>7

LEMMA CallComputes ==
  ASSUME ScheduleInv, Done, OutOfPlace, NEW p \in DOMAIN processes, NEW k
  PROVE  Pixel(stream[processes[p].out], k) =
           <<processes[p].kernel,
             [m \in DOMAIN inStreams[p] |-> Pixel(inStreams[p][m], k)]>>
  <1>1. PICK s : s = processes[p].out
    OBVIOUS
  <1>2. s \in DOMAIN spaces /\ spaces[s].src = p /\ spaces[s].image = Writes(p)
    BY <1>1 DEF ScheduleInv, IInv, ProcOK
  <1>3. Writes(p) \in Image
    BY <1>2, DoneFacts DEF GraphOK
  <1>4. Pixel(stream[s], k) = After(k)[p][Writes(p)]
    BY <1>2, CarriedByOne, PixelOf
  <1>5. Len(processes) \in Nat /\ p \in 1..Len(processes)
        /\ p - 1 \in 0..Len(processes)
    BY ProcessesCounted
  <1>6. PICK f : f = After(k)[p - 1]
    OBVIOUS
  <1>7. After(k)[p] = Executed(f, p)
    BY <1>5, <1>6, AfterFacts
  <1>8. Writes(p) \in DOMAIN f
    BY <1>3, <1>5, <1>6, AfterDomain
  <1>9. Executed(f, p)[Writes(p)] =
          <<processes[p].kernel, [m \in DOMAIN AccsOf(p) |-> f[Reads(p, m)]]>>
    BY <1>8 DEF Executed
  <1>10. DOMAIN inStreams[p] = DOMAIN AccsOf(p)
    BY DoneFacts, AccessorsLinked DEF ScheduleInv, Done
  <1>11. \A m \in DOMAIN inStreams[p] : Pixel(inStreams[p][m], k) = f[Reads(p, m)]
    BY <1>6, ArgumentPixel
  <1>12. [m \in DOMAIN AccsOf(p) |-> f[Reads(p, m)]] =
           [m \in DOMAIN inStreams[p] |-> Pixel(inStreams[p][m], k)]
    BY <1>10, <1>11
  <1> QED
    BY <1>1, <1>4, <1>7, <1>9, <1>12

(* The kind of a statement.                                                *)
LEMMA StatementKinds ==
  ASSUME ScheduleInv, Done, OutOfPlace, NEW n \in DOMAIN Code
  PROVE  \/ \E p \in DOMAIN processes :
              /\ NodeAt(n) = ProcessNode(p) /\ NodeAt(n).at = p
              /\ Code[n] = [op |-> "call", outs |-> <<stream[processes[p].out]>>,
                            ins |-> inStreams[p]]
         \/ \E s \in DOMAIN spaces :
              /\ NodeAt(n) = SpaceNode(s) /\ cpyStreams[s] # << >>
              /\ Code[n] = [op |-> "splitStream", outs |-> cpyStreams[s],
                            ins |-> <<stream[s]>>]
         \/ Code[n] = [op |-> "none", outs |-> << >>, ins |-> << >>]
  <1>1. /\ schedule \in Seq(Node) /\ Distinct(schedule)
        /\ \A p \in DOMAIN processes : outStream[p] = stream[processes[p].out]
    BY DoneFacts
  <1>2. Code[n] = Statement(NodeAt(n)) /\ Holds(schedule, NodeAt(n))
    BY <1>1, PrintedOnce
  <1>3. NodeAt(n) \in Node
    BY <1>1, <1>2, ElementType DEF Holds
  <1>4. CASE \E p \in DOMAIN processes : NodeAt(n) = ProcessNode(p)
    <2>1. PICK p \in DOMAIN processes : NodeAt(n) = ProcessNode(p)
      BY <1>4
    <2>2. NodeAt(n).kind = "process" /\ NodeAt(n).at = p
      BY <2>1 DEF ProcessNode
    <2>3. Code[n] = [op |-> "call", outs |-> <<stream[processes[p].out]>>,
                     ins |-> inStreams[p]]
      BY <1>1, <1>2, <2>2 DEF Statement
    <2> QED
      BY <2>1, <2>2, <2>3
  <1>5. CASE \E s \in DOMAIN spaces : NodeAt(n) = SpaceNode(s)
    <2>1. PICK s \in DOMAIN spaces : NodeAt(n) = SpaceNode(s)
      BY <1>5
    <2>2. NodeAt(n).kind = "space" /\ NodeAt(n).at = s
      BY <2>1 DEF SpaceNode
    <2>3. CASE cpyStreams[s] = << >>
      BY <1>2, <2>2, <2>3 DEF Statement
    <2>4. CASE cpyStreams[s] # << >>
      <3>1. Code[n] = [op |-> "splitStream", outs |-> cpyStreams[s],
                       ins |-> <<stream[s]>>]
        BY <1>2, <2>2, <2>4 DEF Statement
      <3> QED
        BY <2>1, <2>4, <3>1
    <2> QED
      BY <2>3, <2>4
  <1> QED
    BY <1>3, <1>4, <1>5, NodeTypes

(* What a statement writes is computed from what it reads, pixel by pixel. *)
LEMMA StatementComputes ==
  ASSUME ScheduleInv, Done, OutOfPlace, NEW n \in DOMAIN Code,
         NEW m \in DOMAIN Code[n].outs, NEW k
  PROVE  /\ Code[n].op = "call" =>
              Pixel(Code[n].outs[m], k) =
                <<processes[NodeAt(n).at].kernel,
                  [j \in DOMAIN Code[n].ins |-> Pixel(Code[n].ins[j], k)]>>
         /\ Code[n].op # "call" =>
              /\ 1 \in DOMAIN Code[n].ins
              /\ Pixel(Code[n].outs[m], k) = Pixel(Code[n].ins[1], k)
  <1>1. CASE \E p \in DOMAIN processes :
               /\ NodeAt(n) = ProcessNode(p) /\ NodeAt(n).at = p
               /\ Code[n] = [op |-> "call", outs |-> <<stream[processes[p].out]>>,
                             ins |-> inStreams[p]]
    <2>1. PICK p \in DOMAIN processes :
            /\ NodeAt(n).at = p
            /\ Code[n] = [op |-> "call", outs |-> <<stream[processes[p].out]>>,
                          ins |-> inStreams[p]]
      BY <1>1
    <2>2. /\ Code[n].op = "call" /\ Code[n].ins = inStreams[p]
          /\ Code[n].outs[m] = stream[processes[p].out]
      BY <2>1
    <2> QED
      BY <2>1, <2>2, CallComputes
  <1>2. CASE \E s \in DOMAIN spaces :
               /\ NodeAt(n) = SpaceNode(s) /\ cpyStreams[s] # << >>
               /\ Code[n] = [op |-> "splitStream", outs |-> cpyStreams[s],
                             ins |-> <<stream[s]>>]
    <2>1. PICK s \in DOMAIN spaces :
            Code[n] = [op |-> "splitStream", outs |-> cpyStreams[s],
                       ins |-> <<stream[s]>>]
      BY <1>2
    <2>2. /\ Code[n].op # "call" /\ 1 \in DOMAIN Code[n].ins
          /\ Code[n].ins[1] = stream[s]
          /\ Holds(cpyStreams[s], Code[n].outs[m])
      BY <2>1 DEF Holds
    <2>3. PICK x : x = Code[n].outs[m]
      OBVIOUS
    <2>4. CarriedBy(x) = {s} /\ CarriedBy(stream[s]) = {s}
      BY <2>2, <2>3, CarriedByOne
    <2>5. Pixel(x, k) = Pixel(stream[s], k)
      BY <2>4, PixelOf
    <2> QED
      BY <2>2, <2>3, <2>5
  <1>3. CASE Code[n] = [op |-> "none", outs |-> << >>, ins |-> << >>]
    BY <1>3
  <1> QED
    BY <1>1, <1>2, <1>3, StatementKinds

-----------------------------------------------------------------------------
(* The statement that writes a stream, and the one that reads it.          *)
Feeds(n, x)  == \E m \in DOMAIN Code[n].outs : Code[n].outs[m] = x
Drains(n, x) == \E m \in DOMAIN Code[n].ins : Code[n].ins[m] = x

LEMMA FeedsAndDrains ==
  ASSUME ScheduleInv, Done, OutOfPlace, NEW n \in DOMAIN Code, NEW x
  PROVE  /\ Feeds(n, x) =>
              \/ \E p \in DOMAIN processes :
                   NodeAt(n) = ProcessNode(p) /\ x = stream[processes[p].out]
              \/ \E s \in DOMAIN spaces :
                   NodeAt(n) = SpaceNode(s) /\ Holds(cpyStreams[s], x)
         /\ Drains(n, x) =>
              \/ \E p \in DOMAIN processes :
                   NodeAt(n) = ProcessNode(p) /\ \E m : ArgIs(p, m, x)
              \/ \E s \in DOMAIN spaces :
                   NodeAt(n) = SpaceNode(s) /\ Shared(s) /\ x = stream[s]
  <1>1. CASE \E p \in DOMAIN processes :
               /\ NodeAt(n) = ProcessNode(p) /\ NodeAt(n).at = p
               /\ Code[n] = [op |-> "call", outs |-> <<stream[processes[p].out]>>,
                             ins |-> inStreams[p]]
    <2>1. PICK p \in DOMAIN processes :
            /\ NodeAt(n) = ProcessNode(p)
            /\ Code[n] = [op |-> "call", outs |-> <<stream[processes[p].out]>>,
                          ins |-> inStreams[p]]
      BY <1>1
    <2>2. Code[n].outs = <<stream[processes[p].out]>> /\ Code[n].ins = inStreams[p]
      BY <2>1
    <2>3. Feeds(n, x) => x = stream[processes[p].out]
      BY <2>2 DEF Feeds
    <2>4. Drains(n, x) => \E m : ArgIs(p, m, x)
      BY <2>2, DoneFacts DEF Drains
    <2> QED
      BY <2>1, <2>3, <2>4
  <1>2. CASE \E s \in DOMAIN spaces :
               /\ NodeAt(n) = SpaceNode(s) /\ cpyStreams[s] # << >>
               /\ Code[n] = [op |-> "splitStream", outs |-> cpyStreams[s],
                             ins |-> <<stream[s]>>]
    <2>1. PICK s \in DOMAIN spaces :
            /\ NodeAt(n) = SpaceNode(s) /\ cpyStreams[s] # << >>
            /\ Code[n] = [op |-> "splitStream", outs |-> cpyStreams[s],
                          ins |-> <<stream[s]>>]
      BY <1>2
    <2>2. Code[n].outs = cpyStreams[s] /\ Code[n].ins = <<stream[s]>>
      BY <2>1
    <2>3. Feeds(n, x) => Holds(cpyStreams[s], x)
      BY <2>2 DEF Feeds, Holds
    <2>4. Drains(n, x) => Shared(s) /\ x = stream[s]
      BY <2>1, <2>2, DoneFacts DEF Drains
    <2> QED
      BY <2>1, <2>3, <2>4
  <1>3. CASE Code[n] = [op |-> "none", outs |-> << >>, ins |-> << >>]
    BY <1>3 DEF Feeds, Drains
  <1> QED
    BY <1>1, <1>2, <1>3, StatementKinds

LEMMA OneWriter ==
  ASSUME ScheduleInv, Done, OutOfPlace, NEW n \in DOMAIN Code, NEW x, Feeds(n, x)
  PROVE  /\ x \notin EntryIns
         /\ \A k \in DOMAIN Code : Feeds(k, x) => k = n
  <1>1. /\ GraphOK /\ schedule \in Seq(Node) /\ Distinct(schedule) /\ CopiesOK
        /\ \A s, t \in DOMAIN spaces : stream[s] = stream[t] => s = t
    BY DoneFacts
  <1>2. \A s, t \in DOMAIN spaces : ~Holds(cpyStreams[s], stream[t])
    BY <1>1 DEF CopiesOK, Holds
  <1>3. \A s, t \in DOMAIN spaces :
          Holds(cpyStreams[s], x) /\ Holds(cpyStreams[t], x) => s = t
    BY <1>1 DEF CopiesOK, Holds
  <1>4. \A p \in DOMAIN processes :
          /\ processes[p].out \in DOMAIN spaces /\ p # 0
          /\ spaces[processes[p].out].src = p
    BY <1>1 DEF GraphOK
  <1>5. \A p, q \in DOMAIN processes :
          stream[processes[p].out] = stream[processes[q].out] => p = q
    <2> SUFFICES ASSUME NEW p \in DOMAIN processes, NEW q \in DOMAIN processes,
                        stream[processes[p].out] = stream[processes[q].out]
                 PROVE  p = q
      OBVIOUS
    <2>1. processes[p].out = processes[q].out
      BY <1>1, <1>4
    <2> QED
      BY <1>4, <2>1
  <1>6. x \notin EntryIns
    <2>1. ASSUME NEW t \in DOMAIN spaces, IsInput(t), x = stream[t] PROVE FALSE
      <3>1. PICK p \in DOMAIN processes : x = stream[processes[p].out]
        BY <1>2, <2>1, FeedsAndDrains
      <3>2. \A u \in DOMAIN spaces : stream[u] = x => u = t
        BY <1>1, <2>1
      <3>3. processes[p].out = t
        BY <1>4, <3>1, <3>2
      <3> QED
        BY <1>4, <2>1, <3>3 DEF IsInput
    <2> QED
      BY <2>1 DEF EntryIns, Inputs
  <1>7. ASSUME NEW k \in DOMAIN Code, Feeds(k, x)
        PROVE  k = n
    <2>1. NodeAt(k) = NodeAt(n)
      <3>1. CASE \E p \in DOMAIN processes :
                   NodeAt(n) = ProcessNode(p) /\ x = stream[processes[p].out]
        <4>1. PICK p \in DOMAIN processes :
                NodeAt(n) = ProcessNode(p) /\ x = stream[processes[p].out]
          BY <3>1
        <4>2. PICK q \in DOMAIN processes :
                NodeAt(k) = ProcessNode(q) /\ x = stream[processes[q].out]
          BY <1>2, <1>4, <1>7, <4>1, FeedsAndDrains
        <4> QED
          BY <1>5, <4>1, <4>2
      <3>2. CASE \E s \in DOMAIN spaces :
                   NodeAt(n) = SpaceNode(s) /\ Holds(cpyStreams[s], x)
        <4>1. PICK s \in DOMAIN spaces :
                NodeAt(n) = SpaceNode(s) /\ Holds(cpyStreams[s], x)
          BY <3>2
        <4>2. PICK t \in DOMAIN spaces :
                NodeAt(k) = SpaceNode(t) /\ Holds(cpyStreams[t], x)
          BY <1>2, <1>4, <1>7, <4>1, FeedsAndDrains
        <4> QED
          BY <1>3, <4>1, <4>2
      <3> QED
        BY <3>1, <3>2, FeedsAndDrains
    <2> QED
      BY <1>1, <2>1, PrintedOnce
  <1> QED
    BY <1>6, <1>7

LEMMA OneReader ==
  ASSUME ScheduleInv, Done, OutOfPlace, NEW n \in DOMAIN Code, NEW x, Drains(n, x)
  PROVE  /\ x \notin EntryOuts
         /\ \A k \in DOMAIN Code : Drains(k, x) => k = n
  <1>1. /\ GraphOK /\ schedule \in Seq(Node) /\ Distinct(schedule)
        /\ CopiesOK /\ ArgsOK
        /\ \A s, t \in DOMAIN spaces : stream[s] = stream[t] => s = t
        /\ \A s \in DOMAIN spaces : Shared(s) => ~Unread(s)
    BY DoneFacts
  <1>2. \A s, t \in DOMAIN spaces : ~Holds(cpyStreams[s], stream[t])
    BY <1>1 DEF CopiesOK, Holds
  <1>3. ASSUME NEW p \in DOMAIN processes, NEW m, ArgIs(p, m, x),
               NEW s \in DOMAIN spaces, x = stream[s]
        PROVE  ~Shared(s) /\ ~Unread(s)
    <2>1. PICK t : t = processes[p].ins[m]
      OBVIOUS
    <2>2. /\ m \in DOMAIN processes[p].ins
          /\ IF Shared(t) THEN Holds(cpyStreams[t], x) ELSE x = stream[t]
      BY <1>1, <1>3, <2>1 DEF ArgsOK
    <2>3. t \in DOMAIN spaces /\ <<p, m>> \in Consumers(t)
      BY <1>1, <2>1, <2>2, ElementType DEF GraphOK, Consumers
    <2>4. t = s /\ ~Shared(t)
      BY <1>1, <1>2, <1>3, <2>2, <2>3
    <2> QED
      BY <1>1, <2>3, <2>4, NoConsumers
  <1>4. x \notin EntryOuts
    <2>1. ASSUME NEW t \in DOMAIN spaces, Unread(t), x = stream[t] PROVE FALSE
      BY <1>1, <1>3, <2>1, FeedsAndDrains
    <2> QED
      BY <2>1 DEF EntryOuts, Outputs, IsOutput, Unread
  <1>5. ASSUME NEW k \in DOMAIN Code, Drains(k, x)
        PROVE  k = n
    <2>1. NodeAt(k) = NodeAt(n)
      <3>1. CASE \E p \in DOMAIN processes :
                   NodeAt(n) = ProcessNode(p) /\ \E m : ArgIs(p, m, x)
        <4>1. PICK p \in DOMAIN processes :
                NodeAt(n) = ProcessNode(p) /\ \E m : ArgIs(p, m, x)
          BY <3>1
        <4>2. PICK q \in DOMAIN processes :
                NodeAt(k) = ProcessNode(q) /\ \E j : ArgIs(q, j, x)
          BY <1>3, <1>5, <4>1, FeedsAndDrains
        <4> QED
          BY <1>1, <4>1, <4>2 DEF ArgsOK
      <3>2. CASE \E s \in DOMAIN spaces :
                   NodeAt(n) = SpaceNode(s) /\ Shared(s) /\ x = stream[s]
        <4>1. PICK s \in DOMAIN spaces :
                NodeAt(n) = SpaceNode(s) /\ Shared(s) /\ x = stream[s]
          BY <3>2
        <4>2. PICK t \in DOMAIN spaces : NodeAt(k) = SpaceNode(t) /\ x = stream[t]
          BY <1>3, <1>5, <4>1, FeedsAndDrains
        <4> QED
          BY <1>1, <4>1, <4>2
      <3> QED
        BY <3>1, <3>2, FeedsAndDrains
    <2> QED
      BY <1>1, <2>1, PrintedOnce
  <1> QED
    BY <1>4, <1>5

(* No statement waits for itself.                                          *)
LEMMA FeedsNotItself ==
  ASSUME ScheduleInv, Done, OutOfPlace, NEW n \in DOMAIN Code, NEW x,
         Feeds(n, x), Drains(n, x)
  PROVE  FALSE
  <1>1. PICK m \in DOMAIN Code[n].ins : x = Code[n].ins[m]
    BY DEF Drains
  <1>2. x \notin EntryIns
    BY OneWriter
  <1>3. PICK k \in 1..(n - 1) : Occurs(x, Code[k].outs) # {}
    BY <1>1, <1>2, ReadAfterWritten
  <1>4. n \in 1..Len(schedule) /\ Len(schedule) \in Nat
    BY DoneFacts DEF Code
  <1>5. k \in DOMAIN Code /\ k # n
    BY <1>4 DEF Code
  <1>6. Feeds(k, x)
    BY <1>3 DEF Occurs, Feeds
  <1> QED
    BY <1>5, <1>6, OneWriter

(* A result is the output of a call.                                       *)
LEMMA ResultIsWritten ==
  ASSUME ScheduleInv, Done, OutOfPlace, NEW s \in Outputs
  PROVE  \E n \in DOMAIN Code : Code[n].op = "call" /\ Feeds(n, stream[s])
  <1>1. /\ GraphOK /\ schedule \in Seq(Node) /\ Distinct(schedule)
        /\ \A p \in DOMAIN processes : Scheduled(p)
    BY DoneFacts
  <1>2. s \in DOMAIN spaces /\ spaces[s].dst = << >>
    BY DEF Outputs, IsOutput
  <1>3. PICK p \in DOMAIN processes : processes[p].out = s
    BY <1>1, <1>2 DEF GraphOK
  <1>4. PICK n \in DOMAIN Code : NodeAt(n) = ProcessNode(p)
    BY <1>1, PrintedOnce DEF Scheduled
  <1>5. Code[n] = Statement(ProcessNode(p))
    BY <1>1, <1>4, PrintedOnce
  <1>6. Code[n].op = "call"
    BY <1>5 DEF Statement, ProcessNode
  <1>7. 1 \in DOMAIN Code[n].outs /\ Code[n].outs[1] = stream[s]
    <2>1. NodeGives(ProcessNode(p), 1, stream[s])
      BY <1>3, StatementsOf
    <2> QED
      BY <1>5, <2>1 DEF NodeGives
  <1> QED
    BY <1>6, <1>7 DEF Feeds

-----------------------------------------------------------------------------
(* The invariant of the region.  A stream that got pixels so far and from  *)
(* which some were taken holds the piece of its pixels in between.         *)
Piece(x, g, p) == [k \in 1..(p - g) |-> Pixel(x, g + k)]

WriterAt(x) == CHOOSE n \in DOMAIN Code : Feeds(n, x)
ReaderAt(x) == CHOOSE n \in DOMAIN Code : Drains(n, x)

Put(its, x) ==
  IF \E n \in DOMAIN Code : Feeds(n, x)
  THEN GivenAt(its[WriterAt(x)], Delay(WriterAt(x)))
  ELSE IF x \in EntryIns THEN Size ELSE 0
Got(its, x) ==
  IF \E n \in DOMAIN Code : Drains(n, x)
  THEN TakenAt(its[ReaderAt(x)], Delay(ReaderAt(x)))
  ELSE 0

FirstOf(n, T) == [m \in DOMAIN Code[n].ins |-> Piece(Code[n].ins[m], 0, T)]

StatementFlows(n, it, tk) ==
  /\ it \in Nat
  /\ it <= (Height + Delay(n).y) * (Width + Delay(n).x)
  /\ tk = FirstOf(n, TakenAt(it, Delay(n)))

StreamFlows(x, ff, its) ==
  /\ Put(its, x) \in Nat /\ Got(its, x) \in Nat
  /\ Got(its, x) <= Put(its, x)
  /\ ff = Piece(x, Got(its, x), Put(its, x))

Flowing(ff, tk, its) ==
  /\ DOMAIN its = DOMAIN Code /\ DOMAIN tk = DOMAIN Code
  /\ \A n \in DOMAIN Code : StatementFlows(n, its[n], tk[n])
  /\ DOMAIN ff = StreamsUsed
  /\ \A x \in StreamsUsed : StreamFlows(x, ff[x], its)

LEMMA IndexedSeq ==
  ASSUME NEW len \in Nat, NEW q, DOMAIN q = 1..len, q = [k \in 1..len |-> q[k]]
  PROVE  \E T : q \in Seq(T) /\ Len(q) = len
  <1> DEFINE T == {q[k] : k \in 1..len}
  <1>1. q \in [1..len -> T]
    <2>1. \A k \in 1..len : q[k] \in T
      OBVIOUS
    <2> HIDE DEF T
    <2> QED
      BY <2>1
  <1>2. q \in Seq(T) /\ Len(q) = len
    <2> HIDE DEF T
    <2> QED
      BY <1>1
  <1> QED
    BY <1>2

Something(q) == q # << >>

LEMMA PieceTail ==
  ASSUME NEW x, NEW g \in Nat, NEW p \in Nat, g <= p,
         Something(Piece(x, g, p))
  PROVE  /\ g + 1 <= p
         /\ Head(Piece(x, g, p)) = Pixel(x, g + 1)
         /\ Tail(Piece(x, g, p)) = Piece(x, g + 1, p)
  <1>1. PICK q : q = Piece(x, g, p)
    OBVIOUS
  <1>2. PICK len \in Nat : len = p - g
    OBVIOUS
  <1>3. q = [k \in 1..len |-> Pixel(x, g + k)]
    BY <1>1, <1>2 DEF Piece
  <1>4. len # 0
    <2>1. len = 0 => q = << >>
      BY <1>3
    <2> QED
      BY <1>1, <2>1 DEF Something
  <1>5. p - (g + 1) = len - 1 /\ len - 1 \in Nat /\ g + 1 <= p
    BY <1>2, <1>4
  <1>6. PICK T : q \in Seq(T) /\ Len(q) = len
    <2>1. DOMAIN q = 1..len /\ q = [k \in 1..len |-> q[k]]
      BY <1>3
    <2> QED
      BY <2>1, IndexedSeq
  <1>7. Head(q) = Pixel(x, g + 1)
    BY <1>3, <1>4, <1>6
  <1>8. Tail(q) = [k \in 1..(len - 1) |-> q[k + 1]]
    <2>1. /\ Tail(q) \in Seq(T) /\ Len(Tail(q)) = len - 1
          /\ \A k \in 1..Len(Tail(q)) : Tail(q)[k] = q[k + 1]
      BY <1>1, <1>6, HeadTailProperties DEF Something
    <2>2. PICK t \in Seq(T) : t = Tail(q)
      BY <2>1
    <2>3. t = [k \in 1..Len(t) |-> t[k]]
      OBVIOUS
    <2> QED
      BY <2>1, <2>2, <2>3
  <1>9. \A k \in 1..(len - 1) : q[k + 1] = Pixel(x, (g + 1) + k)
    <2> TAKE k \in 1..(len - 1)
    <2>1. k + 1 \in 1..len /\ g + (k + 1) = (g + 1) + k
      OBVIOUS
    <2> QED
      BY <1>3, <2>1
  <1>10. Tail(q) = Piece(x, g + 1, p)
    BY <1>5, <1>8, <1>9 DEF Piece
  <1> QED
    BY <1>1, <1>5, <1>7, <1>10

LEMMA PieceAppend ==
  ASSUME NEW x, NEW g \in Nat, NEW p \in Nat, g <= p
  PROVE  /\ g <= p + 1
         /\ Append(Piece(x, g, p), Pixel(x, p + 1)) = Piece(x, g, p + 1)
  <1>1. PICK q : q = Piece(x, g, p)
    OBVIOUS
  <1>2. PICK len \in Nat : len = p - g
    OBVIOUS
  <1>3. q = [k \in 1..len |-> Pixel(x, g + k)]
    BY <1>1, <1>2 DEF Piece
  <1>4. (p + 1) - g = len + 1 /\ g + (len + 1) = p + 1
    BY <1>2
  <1>5. PICK T : q \in Seq(T) /\ Len(q) = len
    <2>1. DOMAIN q = 1..len /\ q = [k \in 1..len |-> q[k]]
      BY <1>3
    <2> QED
      BY <2>1, IndexedSeq
  <1>6. Append(q, Pixel(x, p + 1)) =
          [k \in 1..(len + 1) |-> IF k = len + 1 THEN Pixel(x, p + 1) ELSE q[k]]
    BY <1>5 DEF Append
  <1>7. \A k \in 1..(len + 1) :
          (IF k = len + 1 THEN Pixel(x, p + 1) ELSE q[k]) = Pixel(x, g + k)
    <2> TAKE k \in 1..(len + 1)
    <2>1. k # len + 1 => k \in 1..len
      OBVIOUS
    <2> QED
      BY <1>3, <1>4, <2>1
  <1>8. Append(q, Pixel(x, p + 1)) = Piece(x, g, p + 1)
    BY <1>4, <1>6, <1>7 DEF Piece
  <1> QED
    BY <1>1, <1>4, <1>8

LEMMA PieceAt ==
  ASSUME NEW x, NEW p \in Nat, NEW k \in 1..p
  PROVE  Piece(x, 0, p)[k] = Pixel(x, k)
  <1>1. k \in 1..(p - 0) /\ 0 + k = k
    OBVIOUS
  <1> QED
    BY <1>1 DEF Piece

LEMMA DelayType ==
  ASSUME ScheduleInv, Done, OutOfPlace, NEW n \in DOMAIN Code
  PROVE  Delay(n) \in Delays
  <1>1. CASE \E p \in DOMAIN processes :
               /\ NodeAt(n) = ProcessNode(p) /\ NodeAt(n).at = p
               /\ Code[n] = [op |-> "call", outs |-> <<stream[processes[p].out]>>,
                             ins |-> inStreams[p]]
    <2>1. PICK p \in DOMAIN processes : NodeAt(n).at = p /\ Code[n].op = "call"
      BY <1>1
    <2>2. processes[p].kernel \in Kernel
      <3>1. processes \in Seq(ProcessRec)
        BY DEF ScheduleInv, IInv, TypeOK
      <3>2. processes[p] \in ProcessRec
        BY <3>1, ElementType
      <3> QED
        BY <3>2 DEF ProcessRec
    <2> QED
      BY <2>1, <2>2, DelaysAreNat DEF Delay, DelayOf, Delays
  <1>2. CASE Code[n].op # "call"
    BY <1>2 DEF Delay, Delays
  <1> QED
    BY <1>1, <1>2, StatementKinds

LEMMA UsedByStatement ==
  ASSUME NEW n \in DOMAIN Code, NEW x, Feeds(n, x) \/ Drains(n, x)
  PROVE  x \in StreamsUsed
  BY DEF Feeds, Drains, StreamsUsed

(* Only the ends of the streams of a statement move in its iteration.      *)
Advanced(n, its, its1) ==
  /\ DOMAIN its = DOMAIN Code
  /\ its1 = [its EXCEPT ![n] = its[n] + 1]

LEMMA EndsOf ==
  ASSUME ScheduleInv, Done, OutOfPlace, NEW n \in DOMAIN Code, NEW its, NEW x
  PROVE  /\ Feeds(n, x) => /\ WriterAt(x) = n
                           /\ Put(its, x) = GivenAt(its[n], Delay(n))
         /\ Drains(n, x) => /\ ReaderAt(x) = n
                            /\ Got(its, x) = TakenAt(its[n], Delay(n))
  <1>1. /\ Feeds(n, x) => WriterAt(x) = n
        /\ Drains(n, x) => ReaderAt(x) = n
    BY OneWriter, OneReader DEF WriterAt, ReaderAt
  <1> QED
    BY <1>1 DEF Put, Got

LEMMA EndsMove ==
  ASSUME ScheduleInv, Done, OutOfPlace, NEW n \in DOMAIN Code,
         NEW its, NEW its1, Advanced(n, its, its1), NEW x
  PROVE  /\ Put(its1, x) = IF Feeds(n, x) THEN GivenAt(its[n] + 1, Delay(n))
                           ELSE Put(its, x)
         /\ Got(its1, x) = IF Drains(n, x) THEN TakenAt(its[n] + 1, Delay(n))
                           ELSE Got(its, x)
  <1>1. its1[n] = its[n] + 1 /\ \A k \in DOMAIN Code : k # n => its1[k] = its[k]
    BY DEF Advanced
  <1>2. /\ Feeds(n, x) => Put(its1, x) = GivenAt(its1[n], Delay(n))
        /\ Drains(n, x) => Got(its1, x) = TakenAt(its1[n], Delay(n))
    BY EndsOf
  <1>3. Put(its1, x) = IF Feeds(n, x) THEN GivenAt(its[n] + 1, Delay(n))
                       ELSE Put(its, x)
    <2>1. (\E k \in DOMAIN Code : Feeds(k, x)) /\ ~Feeds(n, x) =>
            WriterAt(x) \in DOMAIN Code /\ WriterAt(x) # n
      BY DEF WriterAt
    <2> QED
      BY <1>1, <1>2, <2>1 DEF Put
  <1>4. Got(its1, x) = IF Drains(n, x) THEN TakenAt(its[n] + 1, Delay(n))
                       ELSE Got(its, x)
    <2>1. (\E k \in DOMAIN Code : Drains(k, x)) /\ ~Drains(n, x) =>
            ReaderAt(x) \in DOMAIN Code /\ ReaderAt(x) # n
      BY DEF ReaderAt
    <2> QED
      BY <1>1, <1>2, <2>1 DEF Got
  <1> QED
    BY <1>3, <1>4

(* The pixel that a statement writes is the next of the stream.            *)
LEMMA NextPixel ==
  ASSUME ScheduleInv, Done, OutOfPlace, NEW n \in DOMAIN Code, NEW x, Feeds(n, x),
         NEW T \in Nat, NEW c \in 1..T, c = Centre(n)
  PROVE  Computed(n, FirstOf(n, T)) = Pixel(x, c)
  <1>0. PICK got : got = FirstOf(n, T)
    OBVIOUS
  <1>1. PICK m \in DOMAIN Code[n].outs : x = Code[n].outs[m]
    BY DEF Feeds
  <1>2. DOMAIN got = DOMAIN Code[n].ins
    BY <1>0 DEF FirstOf
  <1>3. \A j \in DOMAIN Code[n].ins : got[j][c] = Pixel(Code[n].ins[j], c)
    BY <1>0, PieceAt DEF FirstOf
  <1>4. CASE Code[n].op = "call"
    <2>1. Pixel(x, c) = <<processes[NodeAt(n).at].kernel,
                          [j \in DOMAIN Code[n].ins |-> Pixel(Code[n].ins[j], c)]>>
      BY <1>1, <1>4, StatementComputes
    <2>2. Computed(n, got) = <<processes[NodeAt(n).at].kernel,
                               [j \in DOMAIN got |-> got[j][c]]>>
      BY <1>4 DEF Computed
    <2>3. [j \in DOMAIN got |-> got[j][c]] =
            [j \in DOMAIN Code[n].ins |-> Pixel(Code[n].ins[j], c)]
      BY <1>2, <1>3
    <2> QED
      BY <1>0, <2>1, <2>2, <2>3
  <1>5. CASE Code[n].op # "call"
    <2>1. 1 \in DOMAIN Code[n].ins /\ Pixel(x, c) = Pixel(Code[n].ins[1], c)
      BY <1>1, <1>5, StatementComputes
    <2>2. Computed(n, got) = [j \in DOMAIN got |-> got[j][c]][1]
      BY <1>5 DEF Computed
    <2> QED
      BY <1>0, <1>2, <1>3, <2>1, <2>2
  <1> QED
    BY <1>0, <1>4, <1>5

(* One iteration: what it takes and gives, and what is left alone.         *)
TakenOf(n) ==
  [m \in DOMAIN taken[n] |->
     IF Takes(n) THEN Append(taken[n][m], Head(fifo[Code[n].ins[m]]))
     ELSE taken[n][m]]

IterationStep(n) ==
  /\ n \in DOMAIN Code
  /\ Row(n) # Height + Delay(n).y
  /\ iteration' = [iteration EXCEPT ![n] = iteration[n] + 1]
  /\ taken' = [taken EXCEPT ![n] = TakenOf(n)]
  /\ \A x : Drains(n, x) /\ Takes(n) => fifo[x] # << >>
  /\ fifo' = [x \in DOMAIN fifo |->
                IF Drains(n, x) /\ Takes(n) THEN Tail(fifo[x])
                ELSE IF Feeds(n, x) /\ Gives(n)
                THEN Append(fifo[x], Computed(n, TakenOf(n)))
                ELSE fifo[x]]

LEMMA StreamsNow ==
  ASSUME NEW n
  PROVE  /\ \A x : x \in InsNow(n) <=> Drains(n, x) /\ Takes(n)
         /\ \A x : x \in OutsNow(n) <=> Feeds(n, x) /\ Gives(n)
  BY DEF InsNow, OutsNow, Drains, Feeds

LEMMA IterateSteps ==
  ASSUME NEW n, Iterate(n)
  PROVE  IterationStep(n)
  <1>1. /\ n \in DOMAIN Code /\ ~LoopEnds(n)
        /\ iteration' = [iteration EXCEPT ![n] = iteration[n] + 1]
        /\ \A x \in InsNow(n) : fifo[x] # << >>
        /\ taken' = [taken EXCEPT ![n] = TakenOf(n)]
        /\ fifo' = [x \in DOMAIN fifo |->
                      IF x \in InsNow(n) THEN Tail(fifo[x])
                      ELSE IF x \in OutsNow(n)
                      THEN Append(fifo[x], Computed(n, TakenOf(n)))
                      ELSE fifo[x]]
    BY DEF Iterate, Ready, TakenOf
  <1>2. Row(n) # Height + Delay(n).y
    BY <1>1 DEF LoopEnds
  <1>3. fifo' = [x \in DOMAIN fifo |->
                   IF Drains(n, x) /\ Takes(n) THEN Tail(fifo[x])
                   ELSE IF Feeds(n, x) /\ Gives(n)
                   THEN Append(fifo[x], Computed(n, TakenOf(n)))
                   ELSE fifo[x]]
    BY <1>1, StreamsNow
  <1> QED
    BY <1>1, <1>2, <1>3, StreamsNow DEF IterationStep

(* What the statement takes, per input.                                    *)
LEMMA StepTakes ==
  ASSUME ScheduleInv, Done, OutOfPlace, Flowing(fifo, taken, iteration),
         NEW n, IterationStep(n)
  PROVE  LET it == iteration[n] IN
         /\ StatementFlows(n, it + 1, TakenOf(n))
         /\ TakenAt(it + 1, Delay(n)) =
              TakenAt(it, Delay(n)) + (IF Takes(n) THEN 1 ELSE 0)
         /\ GivenAt(it + 1, Delay(n)) =
              GivenAt(it, Delay(n)) + (IF Gives(n) THEN 1 ELSE 0)
         /\ TakenAt(it, Delay(n)) \in Nat /\ GivenAt(it, Delay(n)) \in Nat
         /\ Gives(n) => /\ Centre(n) = GivenAt(it, Delay(n)) + 1
                        /\ Centre(n) \in 1..TakenAt(it + 1, Delay(n))
  <1> DEFINE d == Delay(n)
  <1>1. n \in DOMAIN Code /\ Row(n) # Height + d.y
    BY DEF IterationStep
  <1>2. StatementFlows(n, iteration[n], taken[n])
    BY <1>1 DEF Flowing
  <1>3. PICK it \in Nat : it = iteration[n]
    BY <1>2 DEF StatementFlows
  <1>4. it <= (Height + d.y) * (Width + d.x) /\ d \in Delays
    BY <1>1, <1>2, <1>3, DelayType DEF StatementFlows
  <1>5. Row(n) = RowAt(it, d) /\ Col(n) = ColAt(it, d)
    BY <1>3 DEF Row, Col, RowAt, ColAt
  <1>6. /\ TakenAt(it, d) \in Nat /\ GivenAt(it, d) \in Nat
        /\ it + 1 <= (Height + d.y) * (Width + d.x)
        /\ TakenAt(it + 1, d) = TakenAt(it, d) + (IF Takes(n) THEN 1 ELSE 0)
        /\ GivenAt(it + 1, d) = GivenAt(it, d) + (IF Gives(n) THEN 1 ELSE 0)
        /\ Gives(n) => /\ Centre(n) = GivenAt(it, d) + 1
                       /\ GivenAt(it, d) + 1 <= TakenAt(it + 1, d)
    <2> HIDE DEF d
    <2>1. RowAt(it, d) # Height + d.y
      BY <1>1, <1>5
    <2>2. /\ TakenAt(it, d) \in Nat /\ GivenAt(it, d) \in Nat
          /\ it + 1 <= (Height + d.y) * (Width + d.x)
          /\ TakenAt(it + 1, d) = TakenAt(it, d) +
               (IF ColAt(it, d) < Width /\ RowAt(it, d) < Height THEN 1 ELSE 0)
          /\ GivenAt(it + 1, d) = GivenAt(it, d) +
               (IF ColAt(it, d) >= d.x /\ RowAt(it, d) >= d.y THEN 1 ELSE 0)
          /\ ColAt(it, d) >= d.x /\ RowAt(it, d) >= d.y =>
               /\ (RowAt(it, d) - d.y) * Width + ColAt(it, d) - d.x + 1 =
                    GivenAt(it, d) + 1
               /\ GivenAt(it, d) + 1 <= TakenAt(it + 1, d)
      BY <1>4, <2>1, OneIteration
    <2>3. /\ Takes(n) <=> ColAt(it, d) < Width /\ RowAt(it, d) < Height
          /\ Gives(n) <=> ColAt(it, d) >= d.x /\ RowAt(it, d) >= d.y
          /\ Centre(n) = (RowAt(it, d) - d.y) * Width + ColAt(it, d) - d.x + 1
      BY <1>5 DEF Takes, Gives, Centre, d
    <2> QED
      BY <2>2, <2>3
  <1>7. TakenOf(n) = FirstOf(n, TakenAt(it + 1, d))
    <2>1. taken[n] = [m \in DOMAIN Code[n].ins |->
                        Piece(Code[n].ins[m], 0, TakenAt(it, d))]
      BY <1>2, <1>3 DEF StatementFlows, FirstOf
    <2>2. DOMAIN taken[n] = DOMAIN Code[n].ins
      BY <2>1
    <2>3. ASSUME NEW m \in DOMAIN Code[n].ins
          PROVE  (IF Takes(n) THEN Append(taken[n][m], Head(fifo[Code[n].ins[m]]))
                  ELSE taken[n][m])
                   = Piece(Code[n].ins[m], 0, TakenAt(it + 1, d))
      <3>1. PICK x : x = Code[n].ins[m]
        OBVIOUS
      <3>2. taken[n][m] = Piece(x, 0, TakenAt(it, d))
        BY <2>1, <3>1
      <3>3. CASE ~Takes(n)
        <4>1. TakenAt(it + 1, d) = TakenAt(it, d)
          BY <1>6, <3>3
        <4> QED
          BY <3>1, <3>2, <3>3, <4>1
      <3>4. CASE Takes(n)
        <4>1. Drains(n, x) /\ x \in StreamsUsed
          BY <1>1, <3>1, UsedByStatement DEF Drains
        <4>2. fifo[x] # << >>
          BY <3>4, <4>1 DEF IterationStep
        <4>3. StreamFlows(x, fifo[x], iteration)
          BY <4>1 DEF Flowing
        <4>5. Got(iteration, x) = TakenAt(it, d)
          BY <1>1, <1>3, <4>1, EndsOf
        <4>6. Head(fifo[x]) = Pixel(x, TakenAt(it, d) + 1)
          <5>1. PICK g \in Nat : g = Got(iteration, x)
            BY <4>3 DEF StreamFlows
          <5>2. PICK p \in Nat : p = Put(iteration, x)
            BY <4>3 DEF StreamFlows
          <5>3. g <= p /\ fifo[x] = Piece(x, g, p)
            BY <4>3, <5>1, <5>2 DEF StreamFlows
          <5>4. Something(Piece(x, g, p))
            BY <4>2, <5>3 DEF Something
          <5> QED
            BY <4>5, <5>1, <5>3, <5>4, PieceTail
        <4>7. PICK t \in Nat : t = TakenAt(it, d)
          BY <1>6
        <4>8. 0 <= t /\ TakenAt(it + 1, d) = t + 1
          BY <1>6, <3>4, <4>7
        <4>9. Append(Piece(x, 0, t), Pixel(x, t + 1)) = Piece(x, 0, t + 1)
          BY <4>8, PieceAppend
        <4> QED
          BY <3>1, <3>2, <3>4, <4>6, <4>7, <4>8, <4>9
      <3> QED
        BY <3>3, <3>4
    <2> QED
      BY <2>2, <2>3 DEF TakenOf, FirstOf
  <1>8. StatementFlows(n, it + 1, TakenOf(n))
    BY <1>6, <1>7 DEF StatementFlows
  <1>9. Gives(n) => Centre(n) \in 1..TakenAt(it + 1, d)
    <2>1. TakenAt(it + 1, d) \in Nat
      BY <1>6
    <2> QED
      BY <1>6, <2>1
  <1> QED
    BY <1>3, <1>6, <1>8, <1>9

LEMMA IterationKeepsFlow ==
  ASSUME ScheduleInv, Done, OutOfPlace, Flowing(fifo, taken, iteration),
         NEW n, IterationStep(n)
  PROVE  Flowing(fifo', taken', iteration')
  <1>1. /\ n \in DOMAIN Code
        /\ iteration' = [iteration EXCEPT ![n] = iteration[n] + 1]
        /\ taken' = [taken EXCEPT ![n] = TakenOf(n)]
        /\ \A x : Drains(n, x) /\ Takes(n) => fifo[x] # << >>
        /\ fifo' = [x \in DOMAIN fifo |->
                      IF Drains(n, x) /\ Takes(n) THEN Tail(fifo[x])
                      ELSE IF Feeds(n, x) /\ Gives(n)
                      THEN Append(fifo[x], Computed(n, TakenOf(n)))
                      ELSE fifo[x]]
    BY DEF IterationStep
  <1>2. /\ DOMAIN iteration = DOMAIN Code /\ DOMAIN taken = DOMAIN Code
        /\ \A k \in DOMAIN Code : StatementFlows(k, iteration[k], taken[k])
        /\ DOMAIN fifo = StreamsUsed
        /\ \A x \in StreamsUsed : StreamFlows(x, fifo[x], iteration)
    BY DEF Flowing
  <1>3. PICK it \in Nat : it = iteration[n]
    BY <1>1, <1>2 DEF StatementFlows
  <1>4. PICK T \in Nat : T = TakenAt(it, Delay(n))
    BY <1>3, StepTakes
  <1>5. PICK G \in Nat : G = GivenAt(it, Delay(n))
    BY <1>3, StepTakes
  <1>6. /\ StatementFlows(n, it + 1, TakenOf(n))
        /\ TakenAt(it + 1, Delay(n)) = T + (IF Takes(n) THEN 1 ELSE 0)
        /\ GivenAt(it + 1, Delay(n)) = G + (IF Gives(n) THEN 1 ELSE 0)
        /\ Gives(n) => Centre(n) = G + 1
                       /\ Centre(n) \in 1..TakenAt(it + 1, Delay(n))
    BY <1>3, <1>4, <1>5, StepTakes
  <1>7. \A k \in DOMAIN Code : StatementFlows(k, iteration'[k], taken'[k])
    <2> TAKE k \in DOMAIN Code
    <2>1. CASE k = n
      <3>1. iteration'[k] = it + 1 /\ taken'[k] = TakenOf(n)
        BY <1>1, <1>2, <1>3, <2>1
      <3> QED
        BY <1>6, <2>1, <3>1
    <2>2. CASE k # n
      <3>1. iteration'[k] = iteration[k] /\ taken'[k] = taken[k]
        BY <1>1, <1>2, <2>2
      <3> QED
        BY <1>2, <3>1
    <2> QED
      BY <2>1, <2>2
  <1>8. ASSUME NEW x, x \in StreamsUsed
        PROVE  StreamFlows(x, fifo'[x], iteration')
    <2>1. StreamFlows(x, fifo[x], iteration)
      BY <1>2, <1>8
    <2>2. PICK p \in Nat : p = Put(iteration, x)
      BY <2>1 DEF StreamFlows
    <2>3. PICK g \in Nat : g = Got(iteration, x)
      BY <2>1 DEF StreamFlows
    <2>4. g <= p /\ fifo[x] = Piece(x, g, p)
      BY <2>1, <2>2, <2>3 DEF StreamFlows
    <2>5. /\ Put(iteration', x) = IF Feeds(n, x) THEN GivenAt(it + 1, Delay(n)) ELSE p
          /\ Got(iteration', x) = IF Drains(n, x) THEN TakenAt(it + 1, Delay(n)) ELSE g
          /\ Feeds(n, x) => p = G
          /\ Drains(n, x) => g = T
      <3>1. PICK its1 : its1 = iteration'
        OBVIOUS
      <3>2. Advanced(n, iteration, its1)
        BY <1>1, <1>2, <3>1 DEF Advanced
      <3>3. /\ Put(its1, x) = IF Feeds(n, x) THEN GivenAt(iteration[n] + 1, Delay(n))
                              ELSE Put(iteration, x)
            /\ Got(its1, x) = IF Drains(n, x) THEN TakenAt(iteration[n] + 1, Delay(n))
                              ELSE Got(iteration, x)
        BY <1>1, <3>2, EndsMove
      <3>4. /\ Feeds(n, x) => Put(iteration, x) = GivenAt(iteration[n], Delay(n))
            /\ Drains(n, x) => Got(iteration, x) = TakenAt(iteration[n], Delay(n))
        BY <1>1, EndsOf
      <3> QED
        BY <1>3, <1>4, <1>5, <2>2, <2>3, <3>1, <3>3, <3>4
    <2>6. CASE Drains(n, x) /\ Takes(n)
      <3>1. ~Feeds(n, x)
        BY <1>1, <2>6, FeedsNotItself
      <3>2. Put(iteration', x) = p /\ Got(iteration', x) = g + 1
        BY <1>6, <2>5, <2>6, <3>1
      <3>3. fifo'[x] = Tail(fifo[x]) /\ fifo[x] # << >>
        BY <1>1, <1>2, <1>8, <2>6
      <3>4. g + 1 <= p /\ fifo'[x] = Piece(x, g + 1, p)
        <4>1. Something(Piece(x, g, p)) /\ g <= p
          BY <2>4, <3>3 DEF Something
        <4>2. g + 1 <= p /\ Tail(Piece(x, g, p)) = Piece(x, g + 1, p)
          BY <4>1, PieceTail
        <4> QED
          BY <2>4, <3>3, <4>2
      <3> QED
        BY <3>2, <3>4 DEF StreamFlows
    <2>7. CASE Feeds(n, x) /\ Gives(n)
      <3>1. ~Drains(n, x)
        BY <1>1, <2>7, FeedsNotItself
      <3>2. Put(iteration', x) = p + 1 /\ Got(iteration', x) = g
        BY <1>6, <2>5, <2>7, <3>1
      <3>3. fifo'[x] = Append(fifo[x], Computed(n, TakenOf(n)))
        BY <1>1, <1>2, <1>8, <2>7, <3>1
      <3>4. Computed(n, TakenOf(n)) = Pixel(x, p + 1)
        <4>1. PICK c : c = Centre(n)
          OBVIOUS
        <4>2. PICK T1 \in Nat : T1 = TakenAt(it + 1, Delay(n))
          BY <1>6
        <4>3. c = p + 1 /\ c \in 1..T1
          BY <1>6, <2>5, <2>7, <4>1, <4>2
        <4>4. TakenOf(n) = FirstOf(n, T1)
          BY <1>6, <4>2 DEF StatementFlows
        <4>5. Computed(n, FirstOf(n, T1)) = Pixel(x, c)
          BY <1>1, <2>7, <4>1, <4>3, NextPixel
        <4> QED
          BY <4>3, <4>4, <4>5
      <3>5. g <= p + 1 /\ fifo'[x] = Piece(x, g, p + 1)
        BY <2>4, <3>3, <3>4, PieceAppend
      <3> QED
        BY <3>2, <3>5 DEF StreamFlows
    <2>8. CASE ~(Drains(n, x) /\ Takes(n)) /\ ~(Feeds(n, x) /\ Gives(n))
      <3>1. Put(iteration', x) = p /\ Got(iteration', x) = g
        BY <1>6, <2>5, <2>8
      <3>2. fifo'[x] = fifo[x]
        BY <1>1, <1>2, <1>8, <2>8
      <3> QED
        BY <2>4, <3>1, <3>2 DEF StreamFlows
    <2> QED
      BY <2>6, <2>7, <2>8
  <1>9. /\ DOMAIN iteration' = DOMAIN Code /\ DOMAIN taken' = DOMAIN Code
        /\ DOMAIN fifo' = StreamsUsed
    BY <1>1, <1>2
  <1> QED
    BY <1>7, <1>8, <1>9 DEF Flowing

-----------------------------------------------------------------------------
(* Filling the inputs, and the call.                                       *)
InputsFilled ==
  /\ filled \subseteq Inputs
  /\ DOMAIN fifo = {stream[s] : s \in filled}
  /\ \A s \in filled : fifo[stream[s]] = InputPixels(spaces[s].image)

LEMMA StreamsOfSpacesDiffer ==
  ASSUME ScheduleInv, Done, OutOfPlace
  PROVE  \A s, t \in DOMAIN spaces : stream[s] = stream[t] => s = t
  BY DoneFacts

LEMMA SizeIsNat == Size \in Nat
  <1>1. PICK w \in Nat, h \in Nat : w = Width /\ h = Height
    BY ImageIsNotEmpty
  <1>2. w * h \in Nat
    OBVIOUS
  <1> QED
    BY <1>1, <1>2 DEF Size

LEMMA InputPiece ==
  ASSUME ScheduleInv, Done, OutOfPlace, NEW s \in Inputs
  PROVE  InputPixels(spaces[s].image) = Piece(stream[s], 0, Size)
  <1>1. PICK S \in Nat : S = Size
    BY SizeIsNat
  <1>2. S - 0 = S /\ \A k \in 1..S : 0 + k = k
    OBVIOUS
  <1>3. s \in DOMAIN spaces /\ IsInput(s)
    BY DEF Inputs
  <1>4. \A k : Pixel(stream[s], k) = <<spaces[s].image, k>>
    BY <1>3, EndsCarry
  <1> QED
    BY <1>1, <1>2, <1>4 DEF InputPixels, Piece

LEMMA WriteKeepsFilled ==
  ASSUME ScheduleInv, Done, OutOfPlace, InputsFilled, NEW s, WriteMemory(s)
  PROVE  /\ filled' \subseteq Inputs
         /\ DOMAIN fifo' = {stream[t] : t \in filled'}
         /\ \A t \in filled' : fifo'[stream[t]] = InputPixels(spaces[t].image)
  <1>1. /\ s \in Inputs /\ s \notin filled /\ filled' = filled \cup {s}
        /\ fifo' = Bind(fifo, stream[s],
                        Contents(stream[s]) \o InputPixels(spaces[s].image))
    BY DEF WriteMemory
  <1>2. \A t, r \in Inputs : stream[t] = stream[r] => t = r
    BY StreamsOfSpacesDiffer DEF Inputs
  <1>3. stream[s] \notin DOMAIN fifo
    BY <1>1, <1>2 DEF InputsFilled
  <1>4. Contents(stream[s]) \o InputPixels(spaces[s].image)
          = InputPixels(spaces[s].image)
    <2>1. PICK S \in Nat : S = Size
      BY SizeIsNat
    <2>2. PICK q : q = InputPixels(spaces[s].image)
      OBVIOUS
    <2>3. DOMAIN q = 1..S /\ q = [k \in 1..S |-> q[k]]
      BY <2>1, <2>2 DEF InputPixels
    <2>4. PICK T : q \in Seq(T)
      BY <2>3, IndexedSeq
    <2>5. << >> \o q = q
      BY <2>4, ConcatEmptySeq
    <2> QED
      BY <1>3, <2>2, <2>5 DEF Contents
  <1>5. fifo' = Bind(fifo, stream[s], InputPixels(spaces[s].image))
    BY <1>1, <1>4
  <1>6. DOMAIN fifo' = {stream[t] : t \in filled'}
    BY <1>1, <1>5 DEF Bind, InputsFilled
  <1>7. ASSUME NEW t \in filled'
        PROVE  fifo'[stream[t]] = InputPixels(spaces[t].image)
    <2>1. CASE t = s
      BY <1>5, <2>1 DEF Bind
    <2>2. CASE t # s
      <3>1. t \in filled /\ stream[t] # stream[s] /\ stream[t] \in DOMAIN fifo
        BY <1>1, <1>2, <1>7, <2>2 DEF InputsFilled
      <3>2. fifo'[stream[t]] = fifo[stream[t]]
        BY <1>5, <3>1 DEF Bind
      <3> QED
        BY <3>1, <3>2 DEF InputsFilled
    <2> QED
      BY <2>1, <2>2
  <1> QED
    BY <1>1, <1>6, <1>7 DEF InputsFilled

LEMMA CallBeginsFlow ==
  ASSUME ScheduleInv, Done, OutOfPlace, InputsFilled, NEW i, CallEntry(i)
  PROVE  Flowing(fifo', taken', iteration')
  <1>1. /\ filled = Inputs
        /\ fifo' = [x \in StreamsUsed |-> Contents(x)]
        /\ taken' = [n \in DOMAIN Code |-> [m \in DOMAIN Code[n].ins |-> << >>]]
        /\ iteration' = [n \in DOMAIN Code |-> 0]
    BY DEF CallEntry
  <1>2. \A n \in DOMAIN Code :
          /\ iteration'[n] = 0
          /\ TakenAt(0, Delay(n)) = 0 /\ GivenAt(0, Delay(n)) = 0
          /\ 0 <= (Height + Delay(n).y) * (Width + Delay(n).x)
    BY <1>1, DelayType, BeforeFirstIteration
  <1>3. \A x : Piece(x, 0, 0) = << >>
    BY DEF Piece
  <1>4. \A n \in DOMAIN Code : StatementFlows(n, iteration'[n], taken'[n])
    <2> TAKE n \in DOMAIN Code
    <2>1. iteration'[n] = 0 /\ TakenAt(0, Delay(n)) = 0
          /\ 0 <= (Height + Delay(n).y) * (Width + Delay(n).x)
      BY <1>2
    <2>2. taken'[n] = FirstOf(n, 0)
      BY <1>1, <1>3 DEF FirstOf
    <2> QED
      BY <2>1, <2>2 DEF StatementFlows
  <1>5. ASSUME NEW x \in StreamsUsed
        PROVE  StreamFlows(x, fifo'[x], iteration')
    <2>1. Got(iteration', x) = 0
      <3>1. (\E n \in DOMAIN Code : Drains(n, x)) => ReaderAt(x) \in DOMAIN Code
        BY DEF ReaderAt
      <3> QED
        BY <1>2, <3>1 DEF Got
    <2>2. fifo'[x] = Contents(x)
      BY <1>1
    <2>3. PICK S \in Nat : S = Size
      BY SizeIsNat
    <2>4. CASE x \in EntryIns
      <3>1. PICK s \in Inputs : x = stream[s]
        BY <2>4 DEF EntryIns
      <3>2. \A n \in DOMAIN Code : ~Feeds(n, x)
        BY <2>4, OneWriter
      <3>3. Put(iteration', x) = S
        BY <2>3, <2>4, <3>2 DEF Put
      <3>4. Contents(x) = Piece(x, 0, S)
        BY <1>1, <2>3, <3>1, InputPiece DEF Contents, InputsFilled
      <3>5. 0 <= S
        OBVIOUS
      <3> QED
        BY <2>1, <2>2, <3>3, <3>4, <3>5 DEF StreamFlows
    <2>5. CASE x \notin EntryIns
      <3>1. Put(iteration', x) = 0
        <4>1. (\E n \in DOMAIN Code : Feeds(n, x)) => WriterAt(x) \in DOMAIN Code
          BY DEF WriterAt
        <4> QED
          BY <1>2, <2>5, <4>1 DEF Put
      <3>2. Contents(x) = << >>
        BY <1>1, <2>5 DEF Contents, InputsFilled, EntryIns
      <3> QED
        BY <1>3, <2>1, <2>2, <3>1, <3>2 DEF StreamFlows
    <2> QED
      BY <2>4, <2>5
  <1>6. /\ DOMAIN iteration' = DOMAIN Code /\ DOMAIN taken' = DOMAIN Code
        /\ DOMAIN fifo' = StreamsUsed
    BY <1>1
  <1> QED
    BY <1>4, <1>5, <1>6 DEF Flowing

-----------------------------------------------------------------------------
(* Once the schedule is made nothing of the compiler changes, and nothing  *)
(* that is said of the region but what its streams hold.                   *)
LEMMA NothingToCompile ==
  ASSUME ScheduleInv, Done, ScheduleNext
  PROVE  FALSE
  <1>1. phase = "done" /\ stack = << >>
    BY DEF ScheduleInv, Done
  <1>2. ~Track /\ ~CreateSchedule
    BY <1>1 DEF Track, CreateSchedule
  <1>3. ~Mark
    BY <1>1 DEF Mark, MarkOutput, MarkInput, PushInStream, ReturnFromMarkProcess,
                FinishSchedule
  <1> QED
    BY <1>2, <1>3 DEF ScheduleNext

LEMMA SameProgram ==
  ASSUME UNCHANGED vars
  PROVE  /\ Code' = Code /\ StreamsUsed' = StreamsUsed
         /\ Inputs' = Inputs /\ Outputs' = Outputs
         /\ EntryIns' = EntryIns /\ stream' = stream /\ spaces' = spaces
         /\ \A n : Delay(n)' = Delay(n)
         /\ \A x, k : Pixel(x, k)' = Pixel(x, k)
         /\ \A k : Meaning(k)' = Meaning(k)
         /\ \A i : OutputStream(i)' = OutputStream(i)
         /\ Fetchable' = Fetchable /\ Runnable' = Runnable
  <1>1. /\ spaces' = spaces /\ processes' = processes /\ stream' = stream
        /\ cpyStreams' = cpyStreams /\ inStreams' = inStreams
        /\ outStream' = outStream /\ schedule' = schedule /\ phase' = phase
        /\ imgMap' = imgMap /\ kernelMap' = kernelMap /\ accMap' = accMap
        /\ iterMap' = iterMap
    BY DEF vars, hostVars, declVars, graphVars, markVars
  <1>2. \A n : NodeAt(n)' = NodeAt(n)
    BY <1>1 DEF NodeAt
  <1>3. \A d : Statement(d)' = Statement(d)
    BY <1>1 DEF Statement
  <1>4. Code' = Code
    BY <1>1, <1>2, <1>3 DEF Code
  <1>5. Inputs' = Inputs /\ Outputs' = Outputs
    BY <1>1 DEF Inputs, Outputs, IsInput, IsOutput
  <1>6. EntryIns' = EntryIns /\ EntryOuts' = EntryOuts
    BY <1>1, <1>5 DEF EntryIns, EntryOuts
  <1>7. StreamsUsed' = StreamsUsed
    BY <1>4, <1>6 DEF StreamsUsed
  <1>8. \A n : Delay(n)' = Delay(n)
    BY <1>1, <1>2, <1>4 DEF Delay, DelayOf
  <1>9. \A p : /\ AccsOf(p)' = AccsOf(p) /\ Writes(p)' = Writes(p)
              /\ \A m : Reads(p, m)' = Reads(p, m)
    BY <1>1 DEF AccsOf, Writes, Reads
  <1>10. \A images, n : Executed(images, n)' = Executed(images, n)
    BY <1>1, <1>9 DEF Executed
  <1>11. \A f, N, k : RunsUpTo(f, N, k)' <=> RunsUpTo(f, N, k)
    BY <1>10 DEF RunsUpTo, AtFirst
  <1>12. \A k : After(k)' = After(k)
    BY <1>1, <1>11 DEF After
  <1>13. \A x : CarriedBy(x)' = CarriedBy(x)
    BY <1>1 DEF CarriedBy, Occurs
  <1>14. \A x : CarriedSpace(x)' = CarriedSpace(x)
    BY <1>13 DEF CarriedSpace
  <1>15. \A x, k : Pixel(x, k)' = Pixel(x, k)
    BY <1>1, <1>12, <1>14 DEF Pixel
  <1>16. \A k : Meaning(k)' = Meaning(k)
    <2>1. \A k : Meaning(k)' = (After(k)[Len(processes)])'
      BY DEF Meaning, After, RunsUpTo, Executed, AtFirst
    <2>2. \A k : Meaning(k) = After(k)[Len(processes)]
      BY MeaningIsAfter
    <2>3. \A k : (After(k)[Len(processes)])' = After(k)[Len(processes)]
      BY <1>1, <1>12
    <2> QED
      BY <2>1, <2>2, <2>3
  <1>17. \A i : OutputStream(i)' = OutputStream(i)
    BY <1>1, <1>5 DEF OutputStream
  <1>18. \A w, i, n : IsLastWriter(w, i, n)' <=> IsLastWriter(w, i, n)
    BY <1>9 DEF IsLastWriter
  <1>19. Fetchable' = Fetchable
    BY <1>1, <1>5, <1>18 DEF Fetchable
  <1>20. Runnable' = Runnable
    <2>1. Done' = Done /\ OutOfPlace' = OutOfPlace
      BY <1>1, <1>9 DEF Done, OutOfPlace
    <2>2. OneStreamPerImage' = OneStreamPerImage /\ SplitsInTwo' = SplitsInTwo
      BY <1>1, <1>4, <1>5 DEF OneStreamPerImage, SplitsInTwo
    <2> QED
      BY <2>1, <2>2 DEF Runnable
  <1> QED
    BY <1>1, <1>4, <1>5, <1>6, <1>7, <1>8, <1>15, <1>16, <1>17, <1>19, <1>20

LEMMA SameFlow ==
  ASSUME UNCHANGED vars
  PROVE  \A ff, tk, its : Flowing(ff, tk, its)' <=> Flowing(ff, tk, its)
  <1>1. /\ Code' = Code /\ StreamsUsed' = StreamsUsed /\ EntryIns' = EntryIns
        /\ \A n : Delay(n)' = Delay(n)
        /\ \A x, k : Pixel(x, k)' = Pixel(x, k)
    BY SameProgram
  <1>2. \A n, x : (Feeds(n, x)' <=> Feeds(n, x)) /\ (Drains(n, x)' <=> Drains(n, x))
    BY <1>1 DEF Feeds, Drains
  <1>3. \A x : WriterAt(x)' = WriterAt(x) /\ ReaderAt(x)' = ReaderAt(x)
    BY <1>1, <1>2 DEF WriterAt, ReaderAt
  <1>4. \A its, x : Put(its, x)' = Put(its, x)
    BY <1>1, <1>2, <1>3 DEF Put
  <1>5. \A its, x : Got(its, x)' = Got(its, x)
    BY <1>1, <1>2, <1>3 DEF Got
  <1>6. \A x, g, p : Piece(x, g, p)' = Piece(x, g, p)
    BY <1>1 DEF Piece
  <1>7. \A n, T : FirstOf(n, T)' = FirstOf(n, T)
    BY <1>1, <1>6 DEF FirstOf
  <1>8. \A n, it, tk : StatementFlows(n, it, tk)' <=> StatementFlows(n, it, tk)
    BY <1>1, <1>7 DEF StatementFlows
  <1>9. \A x, ff, its : StreamFlows(x, ff, its)' <=> StreamFlows(x, ff, its)
    BY <1>4, <1>5, <1>6 DEF StreamFlows
  <1> QED
    BY <1>1, <1>8, <1>9 DEF Flowing

-----------------------------------------------------------------------------
(* The invariant of the printed program.                                   *)
RegionInv ==
  /\ ScheduleInv
  /\ running \in {"no", "region", "over"}
  /\ filled # {} \/ running # "no" => Runnable
  /\ running = "no" => InputsFilled
  /\ running = "region" => /\ Flowing(fifo, taken, iteration)
                           /\ result \in [image : Fetchable, pixels : {<< >>}]
  /\ ResultIsSequential

LEMMA RegionInvBegins ==
  ASSUME Init, MarkInit, RunInit
  PROVE  RegionInv
  <1>1. ScheduleInv
    BY InitScheduleInv
  <1>2. filled = {} /\ running = "no" /\ fifo = << >>
    BY DEF RunInit
  <1>3. InputsFilled
    BY <1>2 DEF InputsFilled
  <1> QED
    BY <1>1, <1>2, <1>3 DEF RegionInv, ResultIsSequential

LEMMA ScheduleInvKept ==
  ASSUME ScheduleInv, ScheduleNext \/ UNCHANGED vars
  PROVE  ScheduleInv'
  BY TrackKeepsScheduleInv, CreateKeepsScheduleInv, MarkKeepsScheduleInv,
     StutterKeepsScheduleInv DEF ScheduleNext

(* The compiler goes on.                                                   *)
LEMMA CompileKeepsRegionInv ==
  ASSUME RegionInv, Compile
  PROVE  RegionInv'
  <1>1. ScheduleInv /\ ScheduleNext
    BY DEF RegionInv, Compile
  <1>2. ~Done
    BY <1>1, NothingToCompile
  <1>3. filled = {} /\ running = "no"
    BY <1>2 DEF RegionInv, Runnable
  <1>4. fifo' = fifo /\ filled' = filled /\ running' = running
    BY DEF Compile, runVars
  <1>5. DOMAIN fifo = {}
    BY <1>3 DEF RegionInv, InputsFilled
  <1>6. InputsFilled'
    BY <1>3, <1>4, <1>5 DEF InputsFilled
  <1>7. ScheduleInv'
    BY <1>1, ScheduleInvKept
  <1> QED
    BY <1>3, <1>4, <1>6, <1>7 DEF RegionInv, ResultIsSequential

LEMMA WriteKeepsRegionInv ==
  ASSUME RegionInv, Runnable, UNCHANGED vars, NEW s, WriteMemory(s)
  PROVE  RegionInv'
  <1>1. ScheduleInv /\ Done /\ OutOfPlace
    BY DEF RegionInv, Runnable
  <1>2. running = "no" /\ running' = running
    BY DEF WriteMemory
  <1>3. InputsFilled
    BY <1>2 DEF RegionInv
  <1>4. /\ filled' \subseteq Inputs
        /\ DOMAIN fifo' = {stream[t] : t \in filled'}
        /\ \A t \in filled' : fifo'[stream[t]] = InputPixels(spaces[t].image)
    BY <1>1, <1>3, WriteKeepsFilled
  <1>5. Inputs' = Inputs /\ stream' = stream /\ spaces' = spaces
        /\ Runnable' = Runnable
    BY SameProgram
  <1>6. \A i : InputPixels(i)' = InputPixels(i)
    BY DEF InputPixels
  <1>7. InputsFilled'
    BY <1>4, <1>5, <1>6 DEF InputsFilled
  <1>8. ScheduleInv'
    BY <1>1, ScheduleInvKept
  <1> QED
    BY <1>2, <1>5, <1>7, <1>8 DEF RegionInv, ResultIsSequential

LEMMA CallKeepsRegionInv ==
  ASSUME RegionInv, Runnable, UNCHANGED vars, NEW i \in Fetchable, CallEntry(i)
  PROVE  RegionInv'
  <1>1. ScheduleInv /\ Done /\ OutOfPlace
    BY DEF RegionInv, Runnable
  <1>2. running = "no" /\ running' = "region"
        /\ result' = [image |-> i, pixels |-> << >>]
    BY DEF CallEntry
  <1>3. InputsFilled
    BY <1>2 DEF RegionInv
  <1>4. Flowing(fifo', taken', iteration')
    BY <1>1, <1>3, CallBeginsFlow
  <1>5. Flowing(fifo, taken, iteration)'
    BY <1>4, SameFlow
  <1>6. Fetchable' = Fetchable /\ Runnable' = Runnable
    BY SameProgram
  <1>7. result' \in [image : Fetchable', pixels : {<< >>}]
    BY <1>2, <1>6
  <1>8. ScheduleInv'
    BY <1>1, ScheduleInvKept
  <1> QED
    BY <1>2, <1>5, <1>6, <1>7, <1>8 DEF RegionInv, ResultIsSequential

LEMMA RegionKeepsRegionInv ==
  ASSUME RegionInv, Runnable, UNCHANGED vars, Region
  PROVE  RegionInv'
  <1>1. ScheduleInv /\ Done /\ OutOfPlace
    BY DEF RegionInv, Runnable
  <1>2. PICK n \in DOMAIN Code : Iterate(n)
    BY DEF Region
  <1>3. running = "region" /\ running' = running /\ result' = result
        /\ filled' = filled
    BY <1>2 DEF Region, Iterate
  <1>4. Flowing(fifo, taken, iteration)
        /\ result \in [image : Fetchable, pixels : {<< >>}]
    BY <1>3 DEF RegionInv
  <1>5. Flowing(fifo', taken', iteration')
    BY <1>1, <1>2, <1>4, IterateSteps, IterationKeepsFlow
  <1>6. Flowing(fifo, taken, iteration)'
    BY <1>5, SameFlow
  <1>7. Fetchable' = Fetchable /\ Runnable' = Runnable
    BY SameProgram
  <1>8. ScheduleInv'
    BY <1>1, ScheduleInvKept
  <1>9. result' \in [image : Fetchable', pixels : {<< >>}]
    BY <1>3, <1>4, <1>7
  <1> QED
    BY <1>3, <1>6, <1>7, <1>8, <1>9 DEF RegionInv, ResultIsSequential

(* What the host reads, when all loops have ended.                         *)
LEMMA EndOfRegion ==
  ASSUME ScheduleInv, Done, OutOfPlace, Flowing(fifo, taken, iteration),
         NEW i \in Fetchable, AllEnded
  PROVE  /\ Len(fifo[OutputStream(i)]) = Size
         /\ SubSeq(fifo[OutputStream(i)], 1, Size) =
              [k \in 1..Size |-> Meaning(k)[i]]
  <1>1. PICK s \in Outputs :
          spaces[s].image = i /\ IsLastWriter(spaces[s].src, i, Len(processes))
    BY DEF Fetchable
  <1>2. OutputStream(i) = stream[s]
    BY <1>1, OutputIsLast
  <1>3. s \in DOMAIN spaces
    BY DEF Outputs
  <1>4. \A k : Pixel(stream[s], k) = Meaning(k)[i]
    BY <1>1, <1>3, EndsCarry
  <1>5. PICK x : x = stream[s]
    OBVIOUS
  <1>6. x \in EntryOuts /\ x \in StreamsUsed
    BY <1>5 DEF EntryOuts, StreamsUsed
  <1>7. PICK n \in DOMAIN Code : Code[n].op = "call" /\ Feeds(n, x)
    BY <1>5, ResultIsWritten
  <1>8. PICK S \in Nat : S = Size
    BY SizeIsNat
  <1>9. Put(iteration, x) = S
    <2>1. LoopEnds(n)
      BY <1>7 DEF AllEnded
    <2>2. StatementFlows(n, iteration[n], taken[n])
      BY DEF Flowing
    <2>3. PICK it \in Nat : it = iteration[n]
      BY <2>2 DEF StatementFlows
    <2>4. RowAt(it, Delay(n)) = Height + Delay(n).y /\ Delay(n) \in Delays
          /\ it <= (Height + Delay(n).y) * (Width + Delay(n).x)
      BY <2>1, <2>2, <2>3, DelayType DEF LoopEnds, Row, RowAt, StatementFlows
    <2>5. GivenAt(it, Delay(n)) = Size
      BY <2>4, AfterLastIteration
    <2> QED
      BY <1>7, <1>8, <2>3, <2>5, EndsOf
  <1>10. Got(iteration, x) = 0
    BY <1>6, OneReader DEF Got
  <1>11. fifo[x] = Piece(x, 0, S)
    BY <1>6, <1>9, <1>10 DEF Flowing, StreamFlows
  <1>12. PICK q : q = fifo[x]
    OBVIOUS
  <1>13. q = [k \in 1..S |-> Pixel(x, k)]
    <2>1. S - 0 = S /\ \A k \in 1..S : 0 + k = k
      OBVIOUS
    <2> QED
      BY <1>11, <1>12, <2>1 DEF Piece
  <1>14. PICK T : q \in Seq(T) /\ Len(q) = S
    <2>1. DOMAIN q = 1..S /\ q = [k \in 1..S |-> q[k]]
      BY <1>13
    <2> QED
      BY <2>1, IndexedSeq
  <1>15. SubSeq(q, 1, S) = q
    BY <1>14, SubSeqFull
  <1> QED
    BY <1>2, <1>4, <1>5, <1>8, <1>12, <1>13, <1>14, <1>15

LEMMA ReadKeepsRegionInv ==
  ASSUME RegionInv, Runnable, UNCHANGED vars, ReadMemory
  PROVE  RegionInv'
  <1>1. ScheduleInv /\ Done /\ OutOfPlace
    BY DEF RegionInv, Runnable
  <1>2. /\ running = "region" /\ running' = "over"
        /\ AllEnded
        /\ result' = [result EXCEPT !.pixels =
                        SubSeq(fifo[OutputStream(result.image)], 1, Size)]
    BY DEF ReadMemory, ResultReady
  <1>3. Flowing(fifo, taken, iteration)
        /\ result \in [image : Fetchable, pixels : {<< >>}]
    BY <1>2 DEF RegionInv
  <1>4. PICK i \in Fetchable : i = result.image
    BY <1>3
  <1>5. SubSeq(fifo[OutputStream(i)], 1, Size) = [k \in 1..Size |-> Meaning(k)[i]]
    BY <1>1, <1>2, <1>3, EndOfRegion
  <1>6. /\ result'.image = i
        /\ result'.pixels = SubSeq(fifo[OutputStream(i)], 1, Size)
    <2>1. PICK q : q = SubSeq(fifo[OutputStream(i)], 1, Size)
      OBVIOUS
    <2>2. result' = [result EXCEPT !.pixels = q]
      BY <1>2, <1>4, <2>1
    <2>3. result = [image |-> i, pixels |-> << >>]
      BY <1>3, <1>4
    <2>4. result' = [image |-> i, pixels |-> q]
      BY <2>2, <2>3
    <2> QED
      BY <2>1, <2>4
  <1>7. (\A k : Meaning(k)' = Meaning(k)) /\ Runnable' = Runnable
    BY SameProgram
  <1>8. ScheduleInv'
    BY <1>1, ScheduleInvKept
  <1>9. ResultIsSequential'
    BY <1>5, <1>6, <1>7 DEF ResultIsSequential, Size
  <1> QED
    BY <1>2, <1>7, <1>8, <1>9 DEF RegionInv

LEMMA StutterKeepsRegionInv ==
  ASSUME RegionInv, UNCHANGED allVars
  PROVE  RegionInv'
  <1>1. /\ UNCHANGED vars
        /\ fifo' = fifo /\ taken' = taken /\ iteration' = iteration
        /\ filled' = filled /\ running' = running /\ result' = result
    BY DEF allVars, runVars
  <1>2. ScheduleInv'
    BY <1>1, ScheduleInvKept DEF RegionInv
  <1>3. /\ Inputs' = Inputs /\ stream' = stream /\ spaces' = spaces
        /\ Fetchable' = Fetchable /\ Runnable' = Runnable
        /\ \A k : Meaning(k)' = Meaning(k)
    BY <1>1, SameProgram
  <1>4. InputsFilled' <=> InputsFilled
    BY <1>1, <1>3 DEF InputsFilled, InputPixels, Size
  <1>5. Flowing(fifo, taken, iteration)' <=> Flowing(fifo, taken, iteration)
    BY <1>1, SameFlow
  <1>6. ResultIsSequential' <=> ResultIsSequential
    BY <1>1, <1>3 DEF ResultIsSequential, Size
  <1> QED
    BY <1>1, <1>2, <1>3, <1>4, <1>5, <1>6 DEF RegionInv

LEMMA StepKeepsRegionInv ==
  ASSUME RegionInv, [RegionNext]_allVars
  PROVE  RegionInv'
  <1>1. CASE Compile
    BY <1>1, CompileKeepsRegionInv
  <1>2. CASE Run
    <2>1. Runnable /\ UNCHANGED vars
      BY <1>2 DEF Run
    <2>2. CASE \E s \in DOMAIN spaces : WriteMemory(s)
      BY <2>1, <2>2, WriteKeepsRegionInv
    <2>3. CASE \E i \in Fetchable : CallEntry(i)
      BY <2>1, <2>3, CallKeepsRegionInv
    <2>4. CASE Region
      BY <2>1, <2>4, RegionKeepsRegionInv
    <2>5. CASE ReadMemory
      BY <2>1, <2>5, ReadKeepsRegionInv
    <2> QED
      BY <1>2, <2>2, <2>3, <2>4, <2>5 DEF Run
  <1>3. CASE UNCHANGED allVars
    BY <1>3, StutterKeepsRegionInv
  <1> QED
    BY <1>1, <1>2, <1>3 DEF RegionNext

(* For every host program and every interleaving of the statements of its  *)
(* entry function, whatever the delays of the operators and the depth of   *)
(* the streams: if main() gets an image, its pixels are those that the     *)
(* program computes when it is run sequentially.                           *)
THEOREM RegionComputesProgram == RegionSpec => []ResultIsSequential
  <1>1. Init /\ MarkInit /\ RunInit => RegionInv
    BY RegionInvBegins
  <1>2. RegionInv /\ [RegionNext]_allVars => RegionInv'
    BY StepKeepsRegionInv
  <1>3. RegionInv => ResultIsSequential
    BY DEF RegionInv
  <1> QED
    BY <1>1, <1>2, <1>3, PTL DEF RegionSpec

-----------------------------------------------------------------------------
(* The region does not block.  A statement lags behind its input by its    *)
(* window, GroupDelay, and never more.                                     *)
LagOf(d) == d.y * Width + d.x

LEMMA LagInLoop ==
  ASSUME NEW d \in Delays, NEW r \in Nat, NEW c \in Nat,
         c < Width + d.x, r < Height + d.y
  PROVE  /\ LagOf(d) \in Nat
         /\ GivenUpTo(r, c, d) <= TakenUpTo(r, c)
         /\ TakenUpTo(r, c) <= GivenUpTo(r, c, d) + LagOf(d)
         /\ c < Width /\ r < Height => TakenUpTo(r, c) < Size
  <1>1. PICK x \in Nat, y \in Nat : x = d.x /\ y = d.y
    BY DEF Delays
  <1>2. PICK H \in Nat \ {0}, W \in Nat \ {0} : H = Height /\ W = Width
    BY ImageIsNotEmpty
  <1>3. PICK P \in Int, Q \in Int, S \in Int, L \in Int :
          P = r * W /\ Q = (r - y) * W /\ S = H * W /\ L = y * W
    OBVIOUS
  <1>4. Size = S
    BY <1>2, <1>3 DEF Size
  <1>5. P = Q + L
    <2>1. PICK e \in Int : e = r - y
      OBVIOUS
    <2>2. r = e + y /\ (e + y) * W = e * W + y * W
      BY <2>1
    <2> QED
      BY <1>3, <2>1, <2>2
  <1>6. L >= 0 /\ P >= 0 /\ S >= 0
    BY <1>3
  <1>7. r < H => P + W <= S
    BY <1>3, Products
  <1>8. r >= H => S <= P
    BY <1>3, Products
  <1>9. r >= y => Q >= 0
    BY <1>3
  <1>10. r < y => P + W <= L
    BY <1>3, Products
  <1>11. Q + W <= S
    <2>1. r - y \in Int /\ r - y < H
      BY <1>1, <1>2
    <2> QED
      BY <1>3, <2>1, Products
  <1>12. LagOf(d) = L + x
    BY <1>1, <1>2, <1>3 DEF LagOf
  <1>13. TakenUpTo(r, c) = IF r < H THEN P + (IF c < W THEN c ELSE W) ELSE S
    BY <1>2, <1>3 DEF TakenUpTo
  <1>14. GivenUpTo(r, c, d) = IF r < y THEN 0 ELSE Q + (IF c < x THEN 0 ELSE c - x)
    BY <1>1, <1>2, <1>3 DEF GivenUpTo
  <1>15. c < W + x
    BY <1>1, <1>2
  <1>16. PICK T \in Int : T = TakenUpTo(r, c)
    BY <1>2, <1>13
  <1>17. PICK G \in Int : G = GivenUpTo(r, c, d)
    BY <1>1, <1>14
  <1>18. G <= T
    BY <1>5, <1>6, <1>7, <1>9, <1>11, <1>13, <1>14, <1>15, <1>16, <1>17
  <1>19. T <= G + L + x
    <2>1. CASE r < y
      <3>1. G = 0
        BY <1>14, <1>17, <2>1
      <3>2. T <= P + W
        BY <1>8, <1>13, <1>16
      <3> QED
        BY <1>10, <2>1, <3>1, <3>2
    <2>2. CASE r >= y
      <3>1. G = Q + (IF c < x THEN 0 ELSE c - x)
        BY <1>14, <1>17, <2>2
      <3>2. CASE r < H
        <4>1. T = P + (IF c < W THEN c ELSE W)
          BY <1>13, <1>16, <3>2
        <4> QED
          BY <1>5, <3>1, <4>1
      <3>3. CASE r >= H
        <4>1. T = S /\ S <= P
          BY <1>8, <1>13, <1>16, <3>3
        <4> QED
          BY <1>5, <3>1, <4>1
      <3> QED
        BY <3>2, <3>3
    <2> QED
      BY <2>1, <2>2
  <1>20. c < W /\ r < H => T < S
    BY <1>7, <1>13, <1>16
  <1> QED
    BY <1>2, <1>4, <1>6, <1>12, <1>16, <1>17, <1>18, <1>19, <1>20

LEMMA LagOfIteration ==
  ASSUME NEW it \in Nat, NEW d \in Delays,
         it <= (Height + d.y) * (Width + d.x)
  PROVE  /\ TakenAt(it, d) \in Nat /\ TakenAt(it, d) <= Size
         /\ GivenAt(it, d) \in Nat /\ LagOf(d) \in Nat
         /\ GivenAt(it, d) <= TakenAt(it, d)
         /\ TakenAt(it, d) <= GivenAt(it, d) + LagOf(d)
         /\ RowAt(it, d) # Height + d.y /\ ColAt(it, d) < Width
              /\ RowAt(it, d) < Height => TakenAt(it, d) < Size
         /\ RowAt(it, d) = Height + d.y =>
              TakenAt(it, d) = Size /\ GivenAt(it, d) = Size
  <1>1. LagOf(d) \in Nat
    <2>1. PICK x \in Nat, y \in Nat, W \in Nat : x = d.x /\ y = d.y /\ W = Width
      BY ImageIsNotEmpty DEF Delays
    <2>2. y * W \in Nat
      OBVIOUS
    <2> QED
      BY <2>1, <2>2 DEF LagOf
  <1>2. CASE RowAt(it, d) = Height + d.y
    <2>1. TakenAt(it, d) = Size /\ GivenAt(it, d) = Size
      BY <1>2, AfterLastIteration
    <2>2. PICK S \in Nat, L \in Nat : S = Size /\ L = LagOf(d)
      BY <1>1, SizeIsNat
    <2> QED
      BY <1>2, <2>1, <2>2
  <1>3. CASE RowAt(it, d) # Height + d.y
    <2>1. /\ TakenAt(it, d) \in Nat /\ TakenAt(it, d) <= Size
          /\ GivenAt(it, d) \in Nat
      BY <1>3, OneIteration
    <2>2. PICK b \in Nat \ {0}, h \in Nat : b = Width + d.x /\ h = Height + d.y
      BY ImageIsNotEmpty DEF Delays
    <2>3. PICK r \in Int, c \in Int : r = it \div b /\ c = it % b
      OBVIOUS
    <2>4. r = RowAt(it, d) /\ c = ColAt(it, d) /\ r # h /\ it <= h * b
      BY <1>3, <2>2, <2>3 DEF RowAt, ColAt
    <2>5. r \in Nat /\ c \in 0..(b - 1) /\ it = b * r + c
      BY <2>3, NextQuotient
    <2>6. b * r = r * b /\ r * b \in Int /\ h * b \in Int
      OBVIOUS
    <2>7. r < h
      <3>1. h < r => h * b + b <= r * b
        BY <2>5, Products
      <3> QED
        BY <2>4, <2>5, <2>6, <3>1
    <2>8. r \in Nat /\ c \in Nat /\ c < Width + d.x /\ r < Height + d.y
      BY <2>2, <2>5, <2>7
    <2>9. /\ GivenUpTo(r, c, d) <= TakenUpTo(r, c)
          /\ TakenUpTo(r, c) <= GivenUpTo(r, c, d) + LagOf(d)
          /\ c < Width /\ r < Height => TakenUpTo(r, c) < Size
      BY <2>8, LagInLoop
    <2>10. TakenAt(it, d) = TakenUpTo(r, c) /\ GivenAt(it, d) = GivenUpTo(r, c, d)
      BY <2>4 DEF TakenAt, GivenAt
    <2> QED
      BY <1>1, <1>3, <2>1, <2>4, <2>9, <2>10
  <1> QED
    BY <1>2, <1>3

(* The lags before each call: LagBefore is a recursive function, which has *)
(* to exist before anything can be said about it.                          *)
LagsUpTo(f, N) ==
  f = [p \in 0..N |-> IF p < 2 THEN 0 ELSE f[p - 1] + Lag(p - 1)]

LEMMA LagsExist ==
  ASSUME NEW N \in Nat
  PROVE  \E f : LagsUpTo(f, N)
  <1> DEFINE S == {n \in Nat : \E f : LagsUpTo(f, n)}
  <1>1. 0 \in S
    <2>1. LagsUpTo([n \in 0..0 |-> 0], 0)
      BY DEF LagsUpTo
    <2> QED
      BY <2>1
  <1>2. ASSUME NEW n \in Nat, n \in S
        PROVE  n + 1 \in S
    <2>1. PICK f : LagsUpTo(f, n)
      BY <1>2
    <2> DEFINE last == IF n + 1 < 2 THEN 0 ELSE f[n] + Lag(n)
               g    == [p \in 0..(n + 1) |-> IF p = n + 1 THEN last ELSE f[p]]
    <2>2. \A p \in 0..n : f[p] = IF p < 2 THEN 0 ELSE f[p - 1] + Lag(p - 1)
      BY <2>1 DEF LagsUpTo
    <2>3. ASSUME NEW p \in 0..(n + 1)
          PROVE  g[p] = IF p < 2 THEN 0 ELSE g[p - 1] + Lag(p - 1)
      <3>1. CASE p = n + 1
        <4>1. p - 1 = n /\ n \in 0..(n + 1) /\ n # n + 1
          BY <3>1
        <4>2. g[p] = last /\ g[p - 1] = f[n]
          BY <3>1, <4>1
        <4> QED
          BY <3>1, <4>1, <4>2
      <3>2. CASE p # n + 1
        <4>1. p \in 0..n /\ g[p] = f[p]
          BY <3>2
        <4>2. p >= 2 => p - 1 \in 0..(n + 1) /\ p - 1 # n + 1
          BY <4>1
        <4>3. p >= 2 => g[p - 1] = f[p - 1]
          BY <4>2
        <4> QED
          BY <2>2, <4>1, <4>3
      <3> QED
        BY <3>1, <3>2
    <2>4. LagsUpTo(g, n + 1)
      <3>1. PICK h : h = g
        OBVIOUS
      <3>2. h = [p \in 0..(n + 1) |-> h[p]]
        BY <3>1
      <3>3. \A p \in 0..(n + 1) : h[p] = IF p < 2 THEN 0 ELSE h[p - 1] + Lag(p - 1)
        BY <2>3, <3>1
      <3>4. h = [p \in 0..(n + 1) |-> IF p < 2 THEN 0 ELSE h[p - 1] + Lag(p - 1)]
        BY <3>2, <3>3
      <3> QED
        BY <3>1, <3>4 DEF LagsUpTo
    <2> QED
      BY <2>4
  <1>3. Nat \subseteq S
    <2> HIDE DEF S
    <2> QED
      BY <1>1, <1>2, NatSetInduction
  <1> QED
    BY <1>3

LEMMA LagType ==
  ASSUME ScheduleInv, NEW p \in DOMAIN processes
  PROVE  DelayOf(p) \in Delays /\ Lag(p) = LagOf(DelayOf(p)) /\ Lag(p) \in Nat
  <1>1. processes[p] \in ProcessRec
    <2>1. processes \in Seq(ProcessRec)
      BY DEF ScheduleInv, IInv, TypeOK
    <2> QED
      BY <2>1, ElementType
  <1>2. DelayOf(p) \in Delays
    BY <1>1, DelaysAreNat DEF DelayOf, Delays, ProcessRec
  <1>3. Lag(p) = LagOf(DelayOf(p))
    BY DEF Lag, LagOf
  <1>4. LagOf(DelayOf(p)) \in Nat
    <2>1. PICK d \in Delays : d = DelayOf(p)
      BY <1>2
    <2>2. PICK x \in Nat, y \in Nat, W \in Nat : x = d.x /\ y = d.y /\ W = Width
      BY ImageIsNotEmpty DEF Delays
    <2>3. y * W \in Nat
      OBVIOUS
    <2> QED
      BY <2>1, <2>2, <2>3 DEF LagOf
  <1> QED
    BY <1>2, <1>3, <1>4

LEMMA LagsAdd ==
  ASSUME ScheduleInv
  PROVE  /\ \A p \in 0..Len(processes) :
              p < 2 => LagBefore[p] = 0
         /\ \A p \in 1..(Len(processes) - 1) :
              LagBefore[p + 1] = LagBefore[p] + Lag(p)
  <1>1. PICK N \in Nat : N = Len(processes)
    BY ProcessesCounted
  <1>2. PICK f : f = LagBefore
    OBVIOUS
  <1>3. LagsUpTo(f, N)
    BY <1>1, <1>2, LagsExist DEF LagBefore, LagsUpTo
  <1>4. \A p \in 0..N : f[p] = IF p < 2 THEN 0 ELSE f[p - 1] + Lag(p - 1)
    BY <1>3 DEF LagsUpTo
  <1>5. \A p \in 0..N : p < 2 => f[p] = 0
    BY <1>4
  <1>6. ASSUME NEW p \in 1..(N - 1)
        PROVE  f[p + 1] = f[p] + Lag(p)
    <2>1. p + 1 \in 0..N /\ ~(p + 1 < 2) /\ (p + 1) - 1 = p
      OBVIOUS
    <2> QED
      BY <1>4, <2>1
  <1> QED
    BY <1>1, <1>2, <1>5, <1>6

LEMMA LagsGrow ==
  ASSUME ScheduleInv
  PROVE  \A p, q \in 0..Len(processes) :
           /\ LagBefore[p] \in Nat
           /\ p <= q => LagBefore[p] <= LagBefore[q]
  <1>1. PICK N \in Nat : N = Len(processes)
    BY ProcessesCounted
  <1> DEFINE S == {n \in Nat : \A q \in 0..N : q <= n =>
                     /\ LagBefore[q] \in Nat
                     /\ \A p \in 0..q : LagBefore[p] <= LagBefore[q]}
  <1>2. 0 \in S
    <2>1. ASSUME NEW q \in 0..N, q <= 0
          PROVE  /\ LagBefore[q] \in Nat
                 /\ \A p \in 0..q : LagBefore[p] <= LagBefore[q]
      <3>1. q = 0 /\ LagBefore[0] = 0
        BY <1>1, <2>1, LagsAdd
      <3>2. \A p \in 0..q : p = 0
        BY <3>1
      <3> QED
        BY <3>1, <3>2
    <2> QED
      BY <2>1
  <1>3. ASSUME NEW n \in Nat, n \in S
        PROVE  n + 1 \in S
    <2>1. ASSUME NEW q \in 0..N, q <= n + 1
          PROVE  /\ LagBefore[q] \in Nat
                 /\ \A p \in 0..q : LagBefore[p] <= LagBefore[q]
      <3>1. CASE q <= n
        BY <1>3, <3>1
      <3>2. CASE q = n + 1 /\ n = 0
        <4>1. LagBefore[0] = 0 /\ LagBefore[q] = 0 /\ \A p \in 0..q : p < 2 /\ p \in 0..N
          BY <1>1, <3>2, LagsAdd
        <4>2. \A p \in 0..q : LagBefore[p] = 0
          BY <1>1, <4>1, LagsAdd
        <4> QED
          BY <4>1, <4>2
      <3>3. CASE q = n + 1 /\ n # 0
        <4>1. n \in 1..(N - 1) /\ n \in 0..N /\ n \in 1..N
          BY <3>3
        <4>2. LagBefore[q] = LagBefore[n] + Lag(n)
          BY <1>1, <3>3, <4>1, LagsAdd
        <4>3. Lag(n) \in Nat
          BY <1>1, <4>1, LagType, ProcessesCounted
        <4>4. LagBefore[n] \in Nat /\ \A p \in 0..n : LagBefore[p] <= LagBefore[n]
          BY <1>3, <4>1
        <4>5. PICK a \in Nat, b \in Nat : a = LagBefore[n] /\ b = Lag(n)
          BY <4>3, <4>4
        <4>6. LagBefore[q] = a + b
          BY <4>2, <4>5
        <4>7. ASSUME NEW p \in 0..q PROVE LagBefore[p] <= LagBefore[q]
          <5>1. CASE p = q
            BY <4>6, <5>1
          <5>2. CASE p # q
            <6>1. p \in 0..n
              BY <3>3, <5>2
            <6>2. PICK e \in Nat : e = LagBefore[p]
              <7>1. p \in 0..N /\ p <= n
                BY <4>1, <6>1
              <7> QED
                BY <1>3, <7>1
            <6>3. e <= a
              BY <4>4, <4>5, <6>1, <6>2
            <6> QED
              BY <4>6, <6>2, <6>3
          <5> QED
            BY <5>1, <5>2
        <4> QED
          BY <4>6, <4>7
      <3> QED
        BY <2>1, <3>1, <3>2, <3>3
    <2> QED
      BY <2>1
  <1>4. Nat \subseteq S
    <2> HIDE DEF S
    <2> QED
      BY <1>2, <1>3, NatSetInduction
  <1>5. ASSUME NEW p \in 0..N, NEW q \in 0..N
        PROVE  LagBefore[p] \in Nat /\ (p <= q => LagBefore[p] <= LagBefore[q])
    <2>1. p \in S /\ q \in S /\ p \in Nat /\ q \in Nat
      BY <1>4
    <2>2. LagBefore[p] \in Nat
      BY <2>1
    <2>3. p <= q => p \in 0..q
      OBVIOUS
    <2> QED
      BY <2>1, <2>2, <2>3
  <1> QED
    BY <1>1, <1>5

(* How far a statement has come, and the lags of the calls printed before  *)
(* the stream that it reads is written.                                    *)
TakenBy(n) == TakenAt(iteration[n], Delay(n))
GivenBy(n) == GivenAt(iteration[n], Delay(n))
LagBy(n)   == LagOf(Delay(n))

LagUpTo(n) ==
  IF Code[n].op = "call" THEN LagBefore[NodeAt(n).at]
  ELSE LagBefore[spaces[NodeAt(n).at].src + 1]

Unfinished == {n \in DOMAIN Code : Code[n].op # "none" /\ ~LoopEnds(n)}

LEMMA StatementLags ==
  ASSUME ScheduleInv, Done, OutOfPlace, Flowing(fifo, taken, iteration),
         NEW n \in DOMAIN Code
  PROVE  /\ TakenBy(n) \in Nat /\ TakenBy(n) <= Size
         /\ GivenBy(n) \in Nat /\ LagBy(n) \in Nat
         /\ GivenBy(n) <= TakenBy(n) /\ TakenBy(n) <= GivenBy(n) + LagBy(n)
         /\ ~LoopEnds(n) /\ Takes(n) => TakenBy(n) < Size
         /\ LoopEnds(n) => TakenBy(n) = Size /\ GivenBy(n) = Size
  <1>1. PICK d \in Delays : d = Delay(n)
    BY DelayType
  <1>2. PICK it \in Nat : it = iteration[n] /\ it <= (Height + d.y) * (Width + d.x)
    BY <1>1 DEF Flowing, StatementFlows
  <1>3. /\ TakenBy(n) = TakenAt(it, d) /\ GivenBy(n) = GivenAt(it, d)
        /\ LagBy(n) = LagOf(d)
    BY <1>1, <1>2 DEF TakenBy, GivenBy, LagBy
  <1>4. /\ LoopEnds(n) <=> RowAt(it, d) = Height + d.y
        /\ Takes(n) <=> ColAt(it, d) < Width /\ RowAt(it, d) < Height
    BY <1>1, <1>2 DEF LoopEnds, Takes, Row, Col, RowAt, ColAt
  <1> QED
    BY <1>2, <1>3, <1>4, LagOfIteration

(* A value is read by executions after the one that wrote it.              *)
LEMMA ReadLater ==
  ASSUME ScheduleInv, Done, OutOfPlace, NEW s \in DOMAIN spaces,
         NEW p \in DOMAIN processes, NEW m \in DOMAIN processes[p].ins,
         processes[p].ins[m] = s
  PROVE  spaces[s].src \in 0..(p - 1)
  <1>1. IInv /\ link = 0
    BY DEF ScheduleInv, Done
  <1>2. Reads(p, m) # Writes(p)
    BY <1>1, AccessorsLinked DEF OutOfPlace
  <1>3. FedByLastWriter(p, m)
    BY <1>1, <1>2 DEF IInv, ReadsLatestWrite
  <1> QED
    BY <1>3 DEF FedByLastWriter, IsLastWriter

LEMMA WriterLag ==
  ASSUME ScheduleInv, Done, OutOfPlace, NEW n \in DOMAIN Code, NEW x, Feeds(n, x)
  PROVE  \E s \in DOMAIN spaces :
           /\ CarriedBy(x) = {s}
           /\ spaces[s].src < Len(processes) =>
                LagUpTo(n) + LagBy(n) = LagBefore[spaces[s].src + 1]
  <1>1. PICK N \in Nat : N = Len(processes) /\ DOMAIN processes = 1..N
    BY ProcessesCounted
  <1>2. GraphOK
    BY DoneFacts
  <1>3. CASE \E p \in DOMAIN processes :
               /\ NodeAt(n) = ProcessNode(p) /\ NodeAt(n).at = p
               /\ Code[n] = [op |-> "call", outs |-> <<stream[processes[p].out]>>,
                             ins |-> inStreams[p]]
    <2>1. PICK p \in DOMAIN processes :
            /\ NodeAt(n).at = p
            /\ Code[n] = [op |-> "call", outs |-> <<stream[processes[p].out]>>,
                          ins |-> inStreams[p]]
      BY <1>3
    <2>2. PICK s : s = processes[p].out
      OBVIOUS
    <2>3. s \in DOMAIN spaces /\ spaces[s].src = p
      BY <1>2, <2>2 DEF GraphOK
    <2>4. Code[n].op = "call" /\ x = stream[s]
      BY <2>1, <2>2 DEF Feeds
    <2>5. CarriedBy(x) = {s}
      BY <2>3, <2>4, CarriedByOne
    <2>6. LagUpTo(n) = LagBefore[p] /\ LagBy(n) = Lag(p)
      BY <2>1, <2>4, LagType DEF LagUpTo, LagBy, Delay
    <2>7. p < N => LagBefore[p + 1] = LagBefore[p] + Lag(p)
      <3>1. p < N => p \in 1..(N - 1)
        BY <1>1
      <3> QED
        BY <1>1, <3>1, LagsAdd
    <2> QED
      BY <1>1, <2>3, <2>5, <2>6, <2>7
  <1>4. CASE \E s \in DOMAIN spaces :
               /\ NodeAt(n) = SpaceNode(s) /\ cpyStreams[s] # << >>
               /\ Code[n] = [op |-> "splitStream", outs |-> cpyStreams[s],
                             ins |-> <<stream[s]>>]
    <2>1. PICK s \in DOMAIN spaces :
            /\ NodeAt(n) = SpaceNode(s)
            /\ Code[n] = [op |-> "splitStream", outs |-> cpyStreams[s],
                          ins |-> <<stream[s]>>]
      BY <1>4
    <2>2. /\ Code[n].op # "call" /\ NodeAt(n).at = s
          /\ Holds(cpyStreams[s], x)
      BY <2>1 DEF Feeds, Holds, SpaceNode
    <2>3. CarriedBy(x) = {s}
      BY <2>2, CarriedByOne
    <2>4. Delay(n) = [x |-> 0, y |-> 0]
      BY <2>2 DEF Delay
    <2>5. LagBy(n) = 0
      <3>1. PICK W \in Nat : W = Width
        BY ImageIsNotEmpty
      <3>2. LagBy(n) = 0 * W + 0
        BY <2>4, <3>1 DEF LagBy, LagOf
      <3>3. 0 * W = 0
        OBVIOUS
      <3> QED
        BY <3>2, <3>3
    <2>6. LagUpTo(n) = LagBefore[spaces[s].src + 1]
      BY <2>2 DEF LagUpTo
    <2>7. spaces[s].src < N => LagBefore[spaces[s].src + 1] \in Nat
      <3>1. spaces[s].src \in Nat
        BY <1>2 DEF GraphOK
      <3>2. spaces[s].src < N => spaces[s].src + 1 \in 0..N
        BY <3>1
      <3> QED
        BY <1>1, <3>2, LagsGrow
    <2>8. PICK k : k = LagBefore[spaces[s].src + 1]
      OBVIOUS
    <2>9. k \in Nat => k + 0 = k
      OBVIOUS
    <2> QED
      BY <1>1, <2>3, <2>5, <2>6, <2>7, <2>8, <2>9
  <1>5. CASE Code[n] = [op |-> "none", outs |-> << >>, ins |-> << >>]
    BY <1>5 DEF Feeds
  <1> QED
    BY <1>3, <1>4, <1>5, StatementKinds

LEMMA ReaderLag ==
  ASSUME ScheduleInv, Done, OutOfPlace, NEW n \in DOMAIN Code, NEW x, Drains(n, x)
  PROVE  \E s \in DOMAIN spaces :
           /\ CarriedBy(x) = {s}
           /\ spaces[s].src \in Nat /\ spaces[s].src < Len(processes)
           /\ LagBefore[spaces[s].src + 1] <= LagUpTo(n)
           /\ LagUpTo(n) \in Nat /\ LagUpTo(n) <= LagBefore[Len(processes)]
  <1>1. PICK N \in Nat : N = Len(processes) /\ DOMAIN processes = 1..N
    BY ProcessesCounted
  <1>2. GraphOK /\ ArgsOK
    BY DoneFacts
  <1>3. CASE \E p \in DOMAIN processes :
               /\ NodeAt(n) = ProcessNode(p) /\ NodeAt(n).at = p
               /\ Code[n] = [op |-> "call", outs |-> <<stream[processes[p].out]>>,
                             ins |-> inStreams[p]]
    <2>1. PICK p \in DOMAIN processes :
            /\ NodeAt(n).at = p
            /\ Code[n] = [op |-> "call", outs |-> <<stream[processes[p].out]>>,
                          ins |-> inStreams[p]]
      BY <1>3
    <2>2. Code[n].op = "call" /\ Code[n].ins = inStreams[p]
      BY <2>1
    <2>3. PICK m \in DOMAIN inStreams[p] : x = inStreams[p][m]
      BY <2>2 DEF Drains
    <2>4. PICK s \in CarriedBy(x) :
            CarriedBy(x) = {s} /\ IsLastWriter(spaces[s].src, Reads(p, m), p - 1)
      BY <2>3, ArgumentCarriesRead DEF CarriesRead
    <2>5. s \in DOMAIN spaces /\ spaces[s].src \in 0..(p - 1)
      BY <2>4 DEF CarriedBy, IsLastWriter
    <2>6. PICK q \in Nat : q = spaces[s].src /\ q < N /\ q + 1 <= p
                           /\ q + 1 \in 0..N /\ p \in 0..N
      BY <1>1, <2>5
    <2>7. LagUpTo(n) = LagBefore[p]
      BY <2>1, <2>2 DEF LagUpTo
    <2>8. LagBefore[q + 1] <= LagBefore[p] /\ LagBefore[p] \in Nat
          /\ LagBefore[p] <= LagBefore[N]
      BY <1>1, <2>6, LagsGrow
    <2> QED
      BY <1>1, <2>4, <2>5, <2>6, <2>7, <2>8
  <1>4. CASE \E s \in DOMAIN spaces :
               /\ NodeAt(n) = SpaceNode(s) /\ cpyStreams[s] # << >>
               /\ Code[n] = [op |-> "splitStream", outs |-> cpyStreams[s],
                             ins |-> <<stream[s]>>]
    <2>1. PICK s \in DOMAIN spaces :
            /\ NodeAt(n) = SpaceNode(s) /\ cpyStreams[s] # << >>
            /\ Code[n] = [op |-> "splitStream", outs |-> cpyStreams[s],
                          ins |-> <<stream[s]>>]
      BY <1>4
    <2>2. Code[n].op # "call" /\ NodeAt(n).at = s /\ x = stream[s]
      BY <2>1 DEF Drains, SpaceNode
    <2>3. CarriedBy(x) = {s}
      BY <2>2, CarriedByOne
    <2>4. Shared(s) /\ Consumers(s) # {}
      BY <2>1, DoneFacts
    <2>5. PICK p \in DOMAIN processes :
            \E m \in DOMAIN processes[p].ins : processes[p].ins[m] = s
      BY <2>4 DEF Consumers
    <2>6. spaces[s].src \in 0..(p - 1)
      BY <2>5, ReadLater
    <2>7. PICK q \in Nat : q = spaces[s].src /\ q < N /\ q + 1 \in 0..N
      BY <1>1, <2>6
    <2>8. LagUpTo(n) = LagBefore[q + 1]
      BY <2>2, <2>7 DEF LagUpTo
    <2>9. LagBefore[q + 1] \in Nat /\ LagBefore[q + 1] <= LagBefore[N]
      <3>1. N \in 0..N /\ q + 1 <= N
        BY <2>7
      <3> QED
        BY <1>1, <2>7, <3>1, LagsGrow
    <2> QED
      BY <1>1, <2>3, <2>7, <2>8, <2>9
  <1>5. CASE Code[n] = [op |-> "none", outs |-> << >>, ins |-> << >>]
    BY <1>5 DEF Drains
  <1> QED
    BY <1>3, <1>4, <1>5, StatementKinds

LEMMA PieceLength ==
  ASSUME NEW x, NEW g \in Nat, NEW p \in Nat, g <= p
  PROVE  Len(Piece(x, g, p)) = p - g /\ (Piece(x, g, p) = << >> => g = p)
  <1>1. PICK len \in Nat : len = p - g
    OBVIOUS
  <1>2. PICK q : q = Piece(x, g, p)
    OBVIOUS
  <1>3. DOMAIN q = 1..len /\ q = [k \in 1..len |-> q[k]]
    BY <1>1, <1>2 DEF Piece
  <1>4. PICK T : q \in Seq(T) /\ Len(q) = len
    BY <1>3, IndexedSeq
  <1>5. q = << >> => len = 0
    BY <1>4
  <1> QED
    BY <1>1, <1>2, <1>4, <1>5

LEMMA EndsAreStatements ==
  ASSUME ScheduleInv, Done, OutOfPlace, NEW n \in DOMAIN Code, NEW x,
         Feeds(n, x) \/ Drains(n, x)
  PROVE  Code[n].op # "none"
  BY StatementKinds DEF Feeds, Drains

LEMMA LeastNat ==
  ASSUME NEW S, S # {}, S \subseteq Nat
  PROVE  \E x \in S : \A y \in S : x <= y
  <1> DEFINE R == {ss \in Nat \X Nat : ss[1] < ss[2]}
  <1>1. IsWellFoundedOn(R, Nat)
    BY NatLessThanWellFounded DEF OpToRel
  <1>2. PICK x \in S : \A y \in S : <<y, x>> \notin R
    <2> HIDE DEF R
    <2> QED
      BY <1>1, WFMin
  <1>3. \A y \in S : y \in Nat /\ x \in Nat
    OBVIOUS
  <1>4. \A y \in S : ~(y < x)
    BY <1>2, <1>3
  <1> QED
    BY <1>3, <1>4

(* A statement waits for an input whose writer is printed before it and    *)
(* has given no more than was taken, ...                                   *)
LEMMA EmptyInput ==
  ASSUME ScheduleInv, Done, OutOfPlace, Flowing(fifo, taken, iteration),
         NEW n \in Unfinished, Takes(n), NEW x, Drains(n, x), ~Something(fifo[x])
  PROVE  \E w \in Unfinished :
           /\ w < n /\ GivenBy(w) = TakenBy(n)
           /\ LagUpTo(w) + LagBy(w) <= LagUpTo(n)
  <1>1. n \in DOMAIN Code /\ ~LoopEnds(n)
    BY DEF Unfinished
  <1>2. TakenBy(n) \in Nat /\ TakenBy(n) < Size
    BY <1>1, StatementLags
  <1>3. Got(iteration, x) = TakenBy(n)
    BY <1>1, EndsOf DEF TakenBy
  <1>4. StreamFlows(x, fifo[x], iteration)
    BY <1>1, UsedByStatement DEF Flowing
  <1>5. Put(iteration, x) = TakenBy(n)
    <2>1. PICK g \in Nat, p \in Nat :
            g = Got(iteration, x) /\ p = Put(iteration, x) /\ g <= p
      BY <1>4 DEF StreamFlows
    <2>2. fifo[x] = Piece(x, g, p)
      BY <1>4, <2>1 DEF StreamFlows
    <2>3. Piece(x, g, p) = << >>
      BY <2>2 DEF Something
    <2>4. g = p
      BY <2>1, <2>3, PieceLength
    <2> QED
      BY <1>3, <2>1, <2>4
  <1>6. PICK m \in DOMAIN Code[n].ins : x = Code[n].ins[m]
    BY DEF Drains
  <1>7. x \notin EntryIns
    <2>1. ASSUME x \in EntryIns PROVE FALSE
      <3>1. ~\E k \in DOMAIN Code : Feeds(k, x)
        BY <2>1, OneWriter
      <3>2. Put(iteration, x) = Size
        BY <2>1, <3>1 DEF Put
      <3> QED
        BY <1>2, <1>5, <3>2, SizeIsNat
    <2> QED
      BY <2>1
  <1>8. PICK w \in 1..(n - 1) : Occurs(x, Code[w].outs) # {}
    BY <1>1, <1>6, <1>7, ReadAfterWritten
  <1>9. w \in DOMAIN Code /\ w < n
    <2>1. n \in 1..Len(schedule) /\ Len(schedule) \in Nat
      BY <1>1, DoneFacts DEF Code
    <2> QED
      BY <2>1 DEF Code
  <1>10. Feeds(w, x)
    BY <1>8 DEF Occurs, Feeds
  <1>11. GivenBy(w) = TakenBy(n)
    BY <1>5, <1>9, <1>10, EndsOf DEF GivenBy
  <1>12. ~LoopEnds(w)
    BY <1>2, <1>9, <1>11, StatementLags, SizeIsNat
  <1>13. w \in Unfinished
    BY <1>9, <1>10, <1>12, EndsAreStatements DEF Unfinished
  <1>14. PICK s \in DOMAIN spaces :
           /\ CarriedBy(x) = {s}
           /\ spaces[s].src < Len(processes) =>
                LagUpTo(w) + LagBy(w) = LagBefore[spaces[s].src + 1]
    BY <1>9, <1>10, WriterLag
  <1>15. PICK t \in DOMAIN spaces :
           /\ CarriedBy(x) = {t}
           /\ spaces[t].src < Len(processes)
           /\ LagBefore[spaces[t].src + 1] <= LagUpTo(n)
    BY <1>1, ReaderLag
  <1>16. s = t
    BY <1>14, <1>15
  <1> QED
    BY <1>9, <1>11, <1>13, <1>14, <1>15, <1>16

(* ... or for room in an output whose reader is Depth pixels behind.       *)
LEMMA FullOutput ==
  ASSUME ScheduleInv, Done, OutOfPlace, Flowing(fifo, taken, iteration),
         NEW n \in DOMAIN Code, NEW x, Feeds(n, x), ~HasRoom(x)
  PROVE  \E r \in Unfinished : TakenBy(r) + Depth <= GivenBy(n)
  <1>1. x \in StreamsUsed
    BY UsedByStatement
  <1>2. x \notin EntryOuts /\ ~(Len(fifo[x]) < Depth)
    BY DEF HasRoom
  <1>3. PICK r \in DOMAIN Code : Drains(r, x)
    <2>1. ReadersOf(x) # {}
      BY <1>1, StreamEnds, FS_EmptySet
    <2>2. \A s \in Outputs : stream[s] # x
      BY <1>2 DEF EntryOuts
    <2>3. {s \in Outputs : stream[s] = x} = {}
      BY <2>2
    <2>4. PICK e : e \in UNION {{k} \X Occurs(x, Code[k].ins) : k \in DOMAIN Code}
      BY <2>1, <2>3 DEF ReadersOf
    <2>5. PICK k \in DOMAIN Code : e \in {k} \X Occurs(x, Code[k].ins)
      BY <2>4
    <2>6. Occurs(x, Code[k].ins) # {}
      BY <2>5
    <2> QED
      BY <2>6 DEF Occurs, Drains
  <1>4. /\ Put(iteration, x) = GivenBy(n) /\ Got(iteration, x) = TakenBy(r)
    BY <1>3, EndsOf DEF GivenBy, TakenBy
  <1>5. StreamFlows(x, fifo[x], iteration)
    BY <1>1 DEF Flowing
  <1>6. PICK g \in Nat, p \in Nat :
          g = TakenBy(r) /\ p = GivenBy(n) /\ g <= p /\ fifo[x] = Piece(x, g, p)
    BY <1>4, <1>5 DEF StreamFlows
  <1>7. Len(fifo[x]) = p - g
    BY <1>6, PieceLength
  <1>8. PICK D \in Nat \ {0} : D = Depth
    BY ImageIsNotEmpty
  <1>9. g + D <= p
    BY <1>2, <1>7, <1>8
  <1>10. p <= Size
    <2>1. /\ GivenBy(n) <= TakenBy(n) /\ TakenBy(n) <= Size
          /\ GivenBy(n) \in Nat /\ TakenBy(n) \in Nat
      BY StatementLags
    <2> QED
      BY <1>6, <2>1, SizeIsNat
  <1>11. ~LoopEnds(r)
    <2>1. g # Size
      BY <1>8, <1>9, <1>10, SizeIsNat
    <2> QED
      BY <1>3, <1>6, <2>1, StatementLags
  <1>12. r \in Unfinished
    BY <1>3, <1>11, EndsAreStatements DEF Unfinished
  <1> QED
    BY <1>6, <1>8, <1>9, <1>12

(* Of the statements that are unfinished, take one that has taken least,   *)
(* and then the first printed of those that are not further ahead of it    *)
(* than the lags of the calls printed after theirs.  It can go on.         *)
NotAhead(k, n) ==
  TakenBy(n) + LagUpTo(n) <= TakenBy(k) + LagBefore[Len(processes)]

LEMMA LagUpToType ==
  ASSUME ScheduleInv, Done, OutOfPlace, NEW n \in DOMAIN Code, Code[n].op # "none"
  PROVE  LagUpTo(n) \in Nat /\ LagUpTo(n) <= LagBefore[Len(processes)]
  <1>1. PICK N \in Nat : N = Len(processes) /\ DOMAIN processes = 1..N
    BY ProcessesCounted
  <1>2. CASE \E p \in DOMAIN processes :
               /\ NodeAt(n) = ProcessNode(p) /\ NodeAt(n).at = p
               /\ Code[n] = [op |-> "call", outs |-> <<stream[processes[p].out]>>,
                             ins |-> inStreams[p]]
    <2>1. PICK p \in DOMAIN processes : NodeAt(n).at = p /\ Code[n].op = "call"
      BY <1>2
    <2>2. p \in 0..N /\ N \in 0..N /\ p <= N /\ LagUpTo(n) = LagBefore[p]
      BY <1>1, <2>1 DEF LagUpTo
    <2> QED
      BY <1>1, <2>2, LagsGrow
  <1>3. CASE \E s \in DOMAIN spaces :
               /\ NodeAt(n) = SpaceNode(s) /\ cpyStreams[s] # << >>
               /\ Code[n] = [op |-> "splitStream", outs |-> cpyStreams[s],
                             ins |-> <<stream[s]>>]
    <2>1. PICK s \in DOMAIN spaces : Code[n].ins = <<stream[s]>>
      BY <1>3
    <2>2. Drains(n, stream[s])
      BY <2>1 DEF Drains
    <2> QED
      BY <2>2, ReaderLag
  <1> QED
    BY <1>2, <1>3, StatementKinds

LEMMA SomeoneIsReady ==
  ASSUME ScheduleInv, Done, OutOfPlace, StreamsHoldLags,
         Flowing(fifo, taken, iteration), Unfinished # {}
  PROVE  \E n \in DOMAIN Code : Ready(n)
  <1>1. PICK L \in Nat, D \in Nat :
          L = LagBefore[Len(processes)] /\ D = Depth /\ L < D
    <2>1. PICK N \in Nat : N = Len(processes)
      BY ProcessesCounted
    <2>2. N \in 0..N
      OBVIOUS
    <2>3. LagBefore[N] \in Nat
      BY <2>1, <2>2, LagsGrow
    <2> QED
      BY <2>1, <2>3, ImageIsNotEmpty DEF StreamsHoldLags
  <1>2. ASSUME NEW n \in Unfinished
        PROVE  /\ n \in DOMAIN Code /\ Code[n].op # "none" /\ ~LoopEnds(n)
               /\ n \in Nat
               /\ TakenBy(n) \in Nat /\ GivenBy(n) \in Nat /\ LagBy(n) \in Nat
               /\ GivenBy(n) <= TakenBy(n) /\ TakenBy(n) <= GivenBy(n) + LagBy(n)
               /\ LagUpTo(n) \in Nat /\ LagUpTo(n) <= L
    <2>1. n \in DOMAIN Code /\ Code[n].op # "none" /\ ~LoopEnds(n)
      BY DEF Unfinished
    <2>2. n \in Nat
      BY <2>1, DoneFacts DEF Code
    <2> QED
      BY <1>1, <2>1, <2>2, StatementLags, LagUpToType
  <1>3. PICK k \in Unfinished : \A n \in Unfinished : TakenBy(k) <= TakenBy(n)
    <2> DEFINE T == {TakenBy(n) : n \in Unfinished}
    <2>1. T # {} /\ T \subseteq Nat
      BY <1>2
    <2>2. PICK t \in T : \A u \in T : t <= u
      BY <2>1, LeastNat
    <2> QED
      BY <2>2
  <1>4. PICK n \in Unfinished :
          /\ NotAhead(k, n)
          /\ \A w \in Unfinished : NotAhead(k, w) => n <= w
    <2> DEFINE B == {n \in Unfinished : NotAhead(k, n)}
    <2>1. NotAhead(k, k)
      <3>1. PICK t \in Nat, l \in Nat : t = TakenBy(k) /\ l = LagUpTo(k) /\ l <= L
        BY <1>2
      <3>2. t + l <= t + L
        BY <3>1
      <3> QED
        BY <1>1, <3>1, <3>2 DEF NotAhead
    <2>2. B # {} /\ B \subseteq Nat
      BY <1>2, <2>1
    <2>3. PICK n \in B : \A w \in B : n <= w
      BY <2>2, LeastNat
    <2> QED
      BY <2>3
  <1>5. PICK T \in Nat, G \in Nat, U \in Nat, K \in Nat :
          /\ T = TakenBy(n) /\ G = GivenBy(n) /\ U = LagUpTo(n) /\ K = TakenBy(k)
          /\ G <= T
    BY <1>2
  <1>6. T + U <= K + L
    BY <1>1, <1>4, <1>5 DEF NotAhead
  <1>7. \A x \in InsNow(n) : fifo[x] # << >>
    <2>1. ASSUME NEW x, Drains(n, x), Takes(n), ~Something(fifo[x]) PROVE FALSE
      <3>1. PICK w \in Unfinished :
              /\ w < n /\ GivenBy(w) = TakenBy(n)
              /\ LagUpTo(w) + LagBy(w) <= LagUpTo(n)
        BY <2>1, EmptyInput
      <3>2. PICK t \in Nat, l \in Nat, u \in Nat :
              /\ t = TakenBy(w) /\ l = LagBy(w) /\ u = LagUpTo(w)
              /\ t <= T + l
        BY <1>2, <1>5, <3>1
      <3>3. u + l <= U
        BY <1>5, <3>1, <3>2
      <3>4. t + u <= K + L
        BY <1>6, <3>2, <3>3
      <3>5. NotAhead(k, w)
        BY <1>1, <1>5, <3>2, <3>4 DEF NotAhead
      <3>6. n <= w /\ n \in Nat /\ w \in Nat
        BY <1>2, <1>4, <3>5
      <3> QED
        BY <3>1, <3>6
    <2> QED
      BY <2>1, StreamsNow DEF Something
  <1>8. \A x \in OutsNow(n) : HasRoom(x)
    <2>1. ASSUME NEW x, Feeds(n, x), ~HasRoom(x) PROVE FALSE
      <3>1. PICK r \in Unfinished : TakenBy(r) + Depth <= GivenBy(n)
        BY <1>2, <2>1, FullOutput
      <3>2. PICK t \in Nat : t = TakenBy(r)
        BY <1>2
      <3>3. K <= t
        BY <1>3, <1>5, <3>2
      <3>4. t + D <= G
        BY <1>1, <1>5, <3>1, <3>2
      <3>5. T <= K + L /\ G <= T /\ L < D
        BY <1>1, <1>5, <1>6
      <3> QED
        BY <3>3, <3>4, <3>5
    <2> QED
      BY <2>1, StreamsNow
  <1>9. Ready(n)
    BY <1>2, <1>7, <1>8 DEF Ready
  <1> QED
    BY <1>2, <1>9

LEMMA RegionGoesOn ==
  ASSUME RegionInv
  PROVE  RegionNeverBlocks
  <1> SUFFICES ASSUME running = "region", StreamsHoldLags
               PROVE  (\E n \in DOMAIN Code : Ready(n)) \/ ResultReady
    BY DEF RegionNeverBlocks
  <1>1. ScheduleInv /\ Done /\ OutOfPlace /\ StreamsHoldLags
    BY DEF RegionInv, Runnable
  <1>2. Flowing(fifo, taken, iteration) /\ result.image \in Fetchable
    BY DEF RegionInv
  <1>3. CASE Unfinished # {}
    BY <1>1, <1>2, <1>3, SomeoneIsReady
  <1>4. CASE Unfinished = {}
    <2>1. AllEnded
      BY <1>4 DEF AllEnded, Unfinished
    <2>2. Len(fifo[OutputStream(result.image)]) = Size
      BY <1>1, <1>2, <2>1, EndOfRegion
    <2> QED
      BY <2>1, <2>2, SizeIsNat DEF ResultReady
  <1> QED
    BY <1>3, <1>4

(* For every host program, image, window and depth of the streams: where   *)
(* the streams of the region hold the lags of its operators and one pixel  *)
(* more, the statements never wait for each other in a circle, whatever    *)
(* paths meet and whatever order the statements ran in so far.             *)
THEOREM RegionHasNoDeadlock == RegionSpec => []RegionNeverBlocks
  <1>1. Init /\ MarkInit /\ RunInit => RegionInv
    BY RegionInvBegins
  <1>2. RegionInv /\ [RegionNext]_allVars => RegionInv'
    BY StepKeepsRegionInv
  <1> QED
    BY <1>1, <1>2, RegionGoesOn, PTL DEF RegionSpec
=============================================================================
