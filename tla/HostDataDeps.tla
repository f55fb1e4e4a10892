---------------------------- MODULE HostDataDeps ----------------------------
(***************************************************************************)
(* The data flow graph that HostDataDeps (lib/Analysis/HostDataDeps.cpp)   *)
(* builds while DependencyTracker walks the statements of main(): images,  *)
(* boundary conditions, accessors, iteration spaces and kernels are        *)
(* declared, and every Kernel::execute() call adds a Process that writes a *)
(* new Space and reads the spaces its accessors resolve to.                *)
(*                                                                         *)
(* A declaration is its ValueDecl; a Space or Process is its position in   *)
(* spaces_ or processes_ (the C++ pointers never change after push_back).  *)
(* The visitor runs to completion on one statement before the next; the    *)
(* accessor loop of runKernel is one action per iteration, and link says   *)
(* that it is still running.                                               *)
(***************************************************************************)
EXTENDS Naturals, Sequences

CONSTANTS
  Image, BoundaryCondition, Accessor, IterationSpace, Kernel,
  Ctor,        \* argument lists a kernel declaration may have
  MaxAccs,     \* bound: accessors of a kernel
  MaxRuns      \* bound: executions in the host program

ASSUME CtorType ==
  /\ Ctor \subseteq [iter : IterationSpace, accs : Seq(Accessor)]
  /\ \A c \in Ctor : Len(c.accs) <= MaxAccs
ASSUME BoundsAreNat == MaxAccs \in Nat /\ MaxRuns \in Nat

VARIABLES
  imgMap,      \* imgMap_: the declared images
  bcMap,       \* bcMap_: boundary condition -> image
  accMap,      \* accMap_: accessor -> image
  iterMap,     \* iterMap_: iteration space -> image
  kernelMap,   \* kernelMap_: kernel -> its constructor arguments
  spaces,      \* spaces_: image, producing process (0: none), consumers
  processes,   \* processes_: kernel, output space, input spaces
  link         \* accessor that runKernel links next; 0 outside runKernel

declVars  == <<imgMap, bcMap, accMap, iterMap, kernelMap>>
graphVars == <<spaces, processes, link>>
hostVars  == <<declVars, graphVars>>

PartialFcn(S, T) == UNION {[D -> T] : D \in SUBSET S}

SpaceRec   == [image : Image, src : Nat, dst : Seq(Nat)]
ProcessRec == [kernel : Kernel, out : Nat, ins : Seq(Nat)]

TypeOK ==
  /\ imgMap \subseteq Image
  /\ bcMap \in PartialFcn(BoundaryCondition, imgMap)
  /\ accMap \in PartialFcn(Accessor, imgMap)
  /\ iterMap \in PartialFcn(IterationSpace, imgMap)
  /\ kernelMap \in PartialFcn(Kernel, Ctor)
  /\ spaces \in Seq(SpaceRec)
  /\ processes \in Seq(ProcessRec)
  /\ link \in Nat

Init ==
  /\ imgMap = {}
  /\ bcMap = << >>
  /\ accMap = << >>
  /\ iterMap = << >>
  /\ kernelMap = << >>
  /\ spaces = << >>
  /\ processes = << >>
  /\ link = 0

-----------------------------------------------------------------------------
(* Declarations.  The guards are the assertions of the add functions.      *)

(* map[key] = value                                                        *)
Bind(map, key, value) ==
  [x \in DOMAIN map \cup {key} |-> IF x = key THEN value ELSE map[x]]

AddImage(i) ==
  /\ link = 0
  /\ i \notin imgMap
  /\ imgMap' = imgMap \cup {i}
  /\ UNCHANGED <<bcMap, accMap, iterMap, kernelMap, graphVars>>

AddBoundaryCondition(b, i) ==
  /\ link = 0
  /\ i \in imgMap
  /\ b \notin DOMAIN bcMap
  /\ bcMap' = Bind(bcMap, b, i)
  /\ UNCHANGED <<imgMap, accMap, iterMap, kernelMap, graphVars>>

(* An accessor is declared on an image ...                                 *)
AddImageAccessor(a, i) ==
  /\ link = 0
  /\ i \in imgMap
  /\ a \notin DOMAIN accMap
  /\ accMap' = Bind(accMap, a, i)
  /\ UNCHANGED <<imgMap, bcMap, iterMap, kernelMap, graphVars>>

AddAccessorUnresolved(a, b) ==        \* mutant: bcMap_ is not consulted
  /\ link = 0
  /\ b \in DOMAIN bcMap
  /\ a \notin DOMAIN accMap
  /\ accMap' = Bind(accMap, a, b)
  /\ UNCHANGED <<imgMap, bcMap, iterMap, kernelMap, graphVars>>

(* ... or on a boundary condition, and then reads the image of that.       *)
AddBoundaryAccessor(a, b) ==
  /\ link = 0
  /\ b \in DOMAIN bcMap
  /\ a \notin DOMAIN accMap
  /\ accMap' = Bind(accMap, a, bcMap[b])
  /\ UNCHANGED <<imgMap, bcMap, iterMap, kernelMap, graphVars>>

AddIterationSpace(is, i) ==
  /\ link = 0
  /\ i \in imgMap
  /\ is \notin DOMAIN iterMap
  /\ iterMap' = Bind(iterMap, is, i)
  /\ UNCHANGED <<imgMap, bcMap, accMap, kernelMap, graphVars>>

AddKernel(k, c) ==
  /\ link = 0
  /\ c.iter \in DOMAIN iterMap
  /\ k \notin DOMAIN kernelMap
  /\ \A n \in DOMAIN c.accs : c.accs[n] \in DOMAIN accMap
  /\ kernelMap' = Bind(kernelMap, k, c)
  /\ UNCHANGED <<imgMap, bcMap, accMap, iterMap, graphVars>>

-----------------------------------------------------------------------------
(* Kernel execution.                                                       *)

AccsOf(p)   == kernelMap[processes[p].kernel].accs
Reads(p, n) == accMap[AccsOf(p)[n]]                  \* image accessor n reads
Writes(p)   == iterMap[kernelMap[processes[p].kernel].iter]
Holding(i)  == {s \in DOMAIN spaces : spaces[s].image = i}

RunKernelReusing(k) ==                \* mutant: the image's space is reused
  LET image == iterMap[kernelMap[k].iter]
      out   == IF Holding(image) = {} THEN Len(spaces) + 1
               ELSE CHOOSE s \in Holding(image) : TRUE
      new   == [image |-> image, src |-> Len(processes) + 1, dst |-> << >>]
  IN
  /\ link = 0
  /\ Len(processes) < MaxRuns
  /\ k \in DOMAIN kernelMap
  /\ spaces' = IF Holding(image) = {} THEN Append(spaces, new)
               ELSE [spaces EXCEPT ![out].src = Len(processes) + 1]
  /\ processes' = Append(processes, [kernel |-> k, out |-> out, ins |-> << >>])
  /\ link' = IF kernelMap[k].accs = << >> THEN 0 ELSE 1
  /\ UNCHANGED declVars

(* runKernel up to its loop: the output space is pushed first.             *)
RunKernel(k) ==
  /\ link = 0
  /\ Len(processes) < MaxRuns
  /\ k \in DOMAIN kernelMap
  /\ spaces' = Append(spaces, [image |-> iterMap[kernelMap[k].iter],
                               src |-> Len(processes) + 1, dst |-> << >>])
  /\ processes' = Append(processes, [kernel |-> k, out |-> Len(spaces) + 1,
                                     ins |-> << >>])
  /\ link' = IF kernelMap[k].accs = << >> THEN 0 ELSE 1
  /\ UNCHANGED declVars

(* One iteration of the loop found or created space s: the process becomes *)
(* a destination of s and s an input of the process.                       *)
Connect(sp, s) ==
  LET p == Len(processes) IN
  /\ spaces' = [sp EXCEPT ![s].dst = Append(@, p)]
  /\ processes' = [processes EXCEPT ![p].ins = Append(@, s)]
  /\ link' = IF link < Len(AccsOf(p)) THEN link + 1 ELSE 0
  /\ UNCHANGED declVars

LinkOldestSpace ==                    \* mutant: the search starts in front
  /\ link # 0
  /\ \E s \in Holding(Reads(Len(processes), link)) :
       /\ \A t \in Holding(Reads(Len(processes), link)) : t >= s
       /\ Connect(spaces, s)

(* The search from the back of spaces_ stops at the youngest space of the  *)
(* accessor's image.                                                       *)
LinkYoungestSpace ==
  /\ link # 0
  /\ \E s \in Holding(Reads(Len(processes), link)) :
       /\ \A t \in Holding(Reads(Len(processes), link)) : t <= s
       /\ Connect(spaces, s)

LinkAlwaysNewInput ==                 \* mutant: no test of the search result
  /\ link # 0
  /\ Connect(Append(spaces, [image |-> Reads(Len(processes), link),
                             src |-> 0, dst |-> << >>]),
             Len(spaces) + 1)

(* No space of that image: it is an input of the program.                  *)
LinkNewInput ==
  /\ link # 0
  /\ Holding(Reads(Len(processes), link)) = {}
  /\ Connect(Append(spaces, [image |-> Reads(Len(processes), link),
                             src |-> 0, dst |-> << >>]),
             Len(spaces) + 1)

Declare ==
  \/ \E i \in Image : AddImage(i)
  \/ \E b \in BoundaryCondition, i \in Image : AddBoundaryCondition(b, i)
  \/ \E a \in Accessor, i \in Image : AddImageAccessor(a, i)
  \/ \E a \in Accessor, b \in BoundaryCondition : AddBoundaryAccessor(a, b)
  \/ \E is \in IterationSpace, i \in Image : AddIterationSpace(is, i)
  \/ \E k \in Kernel, c \in Ctor : AddKernel(k, c)

Execute ==
  \/ \E k \in Kernel : RunKernel(k)
  \/ LinkYoungestSpace
  \/ LinkNewInput

Next == Declare \/ Execute

Spec == Init /\ [][Next]_hostVars

-----------------------------------------------------------------------------
(* The results of the analysis, in the order the code returns them.        *)

(* Input and output spaces: no producer, no consumer.                      *)
IsInput(s)  == spaces[s].src = 0
IsOutput(s) == spaces[s].dst = << >>

(* Executions completely recorded in the graph.                            *)
Recorded == IF link = 0 THEN Len(processes) ELSE Len(processes) - 1

(* w is the youngest of the first n executions that writes image i, or 0.  *)
IsLastWriter(w, i, n) ==
  /\ w \in 0..n
  /\ w # 0 => Writes(w) = i
  /\ \A q \in (w + 1)..n : Writes(q) # i

LastWriter(i, n) == CHOOSE w \in 0..n : IsLastWriter(w, i, n)

(* Every accessor of an execution is fed by the space of its own image     *)
(* that holds the value a sequential run would read: the one produced by   *)
(* the last earlier execution writing the image, or the host's input.      *)
(* Excluded is an accessor on the image the kernel itself writes: it is    *)
(* wired to the kernel's own output space, which runKernel pushes first.   *)
FedByLastWriter(p, n) ==
  /\ spaces[processes[p].ins[n]].image = Reads(p, n)
  /\ IsLastWriter(spaces[processes[p].ins[n]].src, Reads(p, n), p - 1)

ReadsLatestWrite ==
  \A p \in DOMAIN processes : \A n \in DOMAIN processes[p].ins :
    Reads(p, n) # Writes(p) => FedByLastWriter(p, n)

(* The program has at most one input stream per image: the lookup by image *)
(* name in getInputStream cannot pick the wrong one.                       *)
OneInputPerImage ==
  \A s, t \in DOMAIN spaces :
    IsInput(s) /\ IsInput(t) /\ spaces[s].image = spaces[t].image => s = t

(* Later statements never rewire an execution already recorded: its inputs *)
(* keep their space, and the spaces keep their image and producer.         *)
NeverRewired ==
  [][ /\ \A s \in DOMAIN spaces :
           /\ s \in DOMAIN spaces'
           /\ spaces'[s].image = spaces[s].image
           /\ spaces'[s].src = spaces[s].src
      /\ \A p \in 1..Recorded : processes'[p] = processes[p] ]_hostVars

-----------------------------------------------------------------------------
(* What accessor n of execution p reads, as the graph has it.  The edges    *)
(* of an in-place accessor say nothing of the value it reads (see          *)
(* ReadsLatestWrite); it is read back as the value it should be.           *)
ValueRead(p, n) ==
  IF Reads(p, n) = Writes(p) THEN LastWriter(Reads(p, n), p - 1)
  ELSE spaces[processes[p].ins[n]].src

(* The graph read back as a sequential program: every step of the analysis *)
(* is a step of the host program or none, whatever is declared in between. *)
Host == INSTANCE HostProgram WITH
  content <- [i \in Image |-> LastWriter(i, Recorded)],
  runs    <- [p \in 1..Recorded |->
                [image |-> Writes(p),
                 reads |-> [n \in DOMAIN processes[p].ins |-> ValueRead(p, n)]]]

(* The analysis implements the sequential host program of HostProgram:     *)
(* runKernel and its loop over the accessors record exactly one execution  *)
(* with the values it reads, and declarations change no meaning.           *)
HostSpec == Host!Spec
=============================================================================
