--------------------------- MODULE KernelArguments ---------------------------
(***************************************************************************)
(* What the rewriter keeps about one kernel, from its class to its last    *)
(* launch: the members in parameter order, the objects they stand for, the *)
(* thread configuration, the parameter list of the printed kernel, and the *)
(* argument list of every generated launch.  The two lists are made by two *)
(* functions (createArgInfo, createHostArgInfo) and filtered by three      *)
(* others, at different times and for a configuration that changes in      *)
(* between; nothing but their agreement makes a launch meaningful.         *)
(*                                                                         *)
(* A name of the kernel is <<field, part>>: part is "" for the member      *)
(* itself, "width" ... "offset_y" for what comes with an image, and the    *)
(* field is "bh" for the starts of the border regions.                     *)
(***************************************************************************)
EXTENDS Integers, Sequences, FiniteSets, SequencesExt, FiniteSetsExt, Functions

CONSTANTS
  Programs,       \* kernel classes with a declaration: [params, inits, args, idle]
  Targets,        \* options and device: [lang, jit, userConfig, padding, explore,
                  \*   time, ppt, local (threshold of shared memory), texture]
  WarpSize,       \* max_threads_per_warp
  MaxThreads,     \* max_threads_per_block
  DefaultThreads, \* default_num_threads_x, default_num_threads_y: [x, y]
  TileWidth,      \* the 32 columns calcConfig assumes of a block
  MaxShared,      \* max_total_shared_memory, in pixels
  Occupancies,    \* what the occupancy calculator may answer
  MaxUnused,      \* bound: extents and offsets a kernel body does not read
  MaxExecutions   \* bound: calls of execute()

Languages == {"C99", "CUDA", "OpenCL", "Renderscript"}
TextureTypes == {"None", "Linear1D", "Array2D", "Ldg"}
FieldKinds == {"Normal", "Mask", "IterationSpace", "Image"}

IsImage(m) == m.kind \in {"IterationSpace", "Image"}
IsAccessor(o) == o.kind \in {"IterationSpace", "Accessor"}

ASSUME ThreadsAssumption ==
  /\ WarpSize \in Nat \ {0} /\ TileWidth \in Nat \ {0} /\ MaxThreads \in Nat
  /\ DefaultThreads.x \in 1..MaxThreads /\ DefaultThreads.y \in 1..MaxThreads
  /\ MaxShared \in Nat /\ MaxExecutions \in Nat
  /\ Occupancies \subseteq Nat /\ IsFiniteSet(Occupancies)

ASSUME TargetsAssumption ==
  \A t \in Targets : /\ t.lang \in Languages /\ t.texture \in TextureTypes
                     /\ t.ppt \in Nat \ {0}
                     /\ t.jit => t.lang \in {"CUDA", "OpenCL"}
                     /\ t.lang = "C99" => ~t.explore /\ ~t.time

\* A constructor as C++ allows it: every member initialised once, and an argument of
\* the type of the member.  Every parameter initialises a member of its own.
ConstructorOK(c) ==
  /\ Len(c.params) > 0 /\ IsInjective(c.params)
  /\ \A j, k \in DOMAIN c.inits : c.inits[j].field = c.inits[k].field => j = k
  /\ \A n \in DOMAIN c.params : \E k \in DOMAIN c.inits : c.inits[k].param = c.params[n]
  /\ DOMAIN c.args = DOMAIN c.params
  /\ \A n \in DOMAIN c.params, k \in DOMAIN c.inits : c.inits[k].param = c.params[n] =>
       /\ IsImage(c.inits[k]) <=> IsAccessor(c.args[n])
       /\ c.inits[k].kind = "Mask" <=> c.args[n].kind = "Mask"

\* What no name of the user's is: the prefix of a border start and of a temporary.
NamesOK(c) ==
  /\ \A k \in DOMAIN c.inits : c.inits[k].field # "bh"
  /\ \A n \in DOMAIN c.args : c.args[n].name # "tmp"

ASSUME ProgramsAssumption ==
  \A c \in Programs :
    /\ c.params \in Seq(ToSet(c.params)) /\ c.inits \in Seq(ToSet(c.inits))
    /\ c.args \in Seq(ToSet(c.args))
    /\ \A k \in DOMAIN c.inits : c.inits[k].kind \in FieldKinds
    /\ \A n \in DOMAIN c.args : IsAccessor(c.args[n]) =>
         c.args[n].sizeX \in Nat \ {0} /\ c.args[n].sizeY \in Nat \ {0}
    /\ ConstructorOK(c) /\ NamesOK(c)

VARIABLES
  program, target,
  phase,        \* where the rewriter is
  members,      \* HipaccKernelClass::members
  mapping,      \* imgMap and maskMap: fields to accessors and masks
  threads,      \* num_threads_x, num_threads_y
  measured,     \* occVec of the last calcConfig: number of threads -> occupancy
  deviceArgs,   \* deviceArgNames, <<>> when not created
  used,         \* usedVars
  printed,      \* the kernel as printed: parameters, globals, textures, symbols
  infoStrCnt,   \* launch informations named so far
  literalCount, \* temporaries for literals so far
  launch,       \* the last generated launch
  maskKernels,  \* masks whose getKernels() holds the kernel
  symbols       \* the kernel's mask symbols main() writes

vars == <<program, target, phase, members, mapping, threads, measured, deviceArgs,
          used, printed, infoStrCnt, literalCount, launch, maskKernels, symbols>>
declared == <<program, target, members, mapping>>
host == <<infoStrCnt, literalCount, launch, maskKernels, symbols>>

NoBlock == [x |-> 0, y |-> 0]
NoLaunch == [args |-> <<>>, textures |-> {}, block |-> NoBlock, info |-> -1,
             literals |-> <<>>, opened |-> FALSE]
NotPrinted == [params |-> <<>>, globals |-> {}, textures |-> {}, block |-> NoBlock]

When(c, s) == IF c THEN s ELSE <<>>
CeilDiv(a, b) == -((-a) \div b)

\* The elements of s at the positions of I, in the order of s.
Rank(I, i) == Cardinality({j \in I : j <= i})
At(s, I) == [k \in 1..Cardinality(I) |-> s[CHOOSE i \in I : Rank(I, i) = k]]

-----------------------------------------------------------------------------
(* The kernel class: members in the order of the constructor's parameters. *)

\* The member a parameter initialises: the first initialiser that names it.
MemberOf(c, p) ==
  LET mine == {k \in DOMAIN c.inits : c.inits[k].param = p}
  IN [i \in 1..(IF mine = {} THEN 0 ELSE 1) |-> c.inits[Min(mine)]]

MembersOf(c) == FlattenSeq([n \in 1..Len(c.params) |-> MemberOf(c, c.params[n])])

-----------------------------------------------------------------------------
(* The kernel declaration: the n-th accessor of the declaration is that of *)
(* the n-th image member, and likewise for masks.                          *)

FieldsOf(ms) == [n \in 1..Len(ms) |-> ms[n].field]

Mapped(ms, objects) ==
  LET fields == FieldsOf(ms) IN
  [f \in ToSet(fields) |-> objects[CHOOSE n \in 1..Len(fields) : fields[n] = f]]

MappingOf(ms, args) ==
  LET images == Mapped(At(ms, {n \in DOMAIN ms : IsImage(ms[n])}),
                       At(args, {n \in DOMAIN args : IsAccessor(args[n])}))
      masks  == Mapped(At(ms, {n \in DOMAIN ms : ms[n].kind = "Mask"}),
                       At(args, {n \in DOMAIN args : args[n].kind = "Mask"}))
  IN [f \in DOMAIN images \cup DOMAIN masks |->
        IF f \in DOMAIN images THEN images[f] ELSE masks[f]]

ImageFields == {members[n].field : n \in {k \in 1..Len(members) : IsImage(members[k])}}
Member(f) == members[CHOOSE n \in 1..Len(members) : members[n].field = f]

\* calcImgFeature: texture memory for everything with Array2D, else on CUDA for
\* images read with an offset; shared memory for windows above the threshold.
TextureOf(f) ==
  IF \/ target.texture = "Array2D"
     \/ (target.lang = "CUDA" /\ Member(f).strided)
  THEN target.texture ELSE "None"

UseLocalMemory(o) == o.sizeX * o.sizeY >= target.local

\* No parameter stands for a texture or a surface of CUDA; __ldg() needs one.
BoundAsTexture(f) == target.lang = "CUDA" /\ TextureOf(f) \notin {"None", "Ldg"}

\* calcSizes: the largest window with a border mode, over the accessors.
Bordered == {f \in ImageFields : mapping[f].kind = "Accessor" /\ mapping[f].border}
MaxSizeX == Max({0} \cup {mapping[f].sizeX : f \in Bordered})
MaxSizeY == Max({0} \cup {mapping[f].sizeY : f \in Bordered})
RadiusX == MaxSizeX \div 2
RadiusY == MaxSizeY \div 2


-----------------------------------------------------------------------------
(* The parameters of the kernel function and the host's arguments: two     *)
(* functions under the same conditions, run at different times.            *)

ParamsOf(m) ==
  CASE m.kind = "Normal" -> <<<<m.field, "">>>>
    [] m.kind = "Mask"   -> <<<<m.field, "">>>>
    [] IsImage(m) ->
         LET crop == mapping[m.field].crop IN
         <<<<m.field, "">>, <<m.field, "width">>, <<m.field, "height">>>>
           \o When(target.padding \/ crop, <<<<m.field, "stride">>>>)
           \o When(crop, <<<<m.field, "offset_x">>, <<m.field, "offset_y">>>>)

BorderParams(t) ==
  When(RadiusX > 0 \/ target.explore, <<<<"bh", "start_left">>>>)
    \o <<<<"bh", "start_right">>>>
    \o When(RadiusY > 0 \/ target.explore, <<<<"bh", "start_top">>>>)
    \o When(t.y > 1 \/ target.ppt > 1 \/ RadiusY > 0 \/ target.explore,
            <<<<"bh", "start_bottom">>>>)
    \o When(RadiusX > 0 \/ RadiusY > 0 \/ target.explore, <<<<"bh", "fall_back">>>>)

CreateArgInfoAgain(created, t) ==
  created \o FlattenSeq([n \in 1..Len(members) |-> ParamsOf(members[n])]) \o BorderParams(t)

CreateArgInfo(created, t) ==
  IF created # <<>> THEN created
  ELSE FlattenSeq([n \in 1..Len(members) |-> ParamsOf(members[n])]) \o BorderParams(t)

\* setResourceUsage drops the parameters made for the configuration before.
KeptArgInfo(created) == created

ClearArgInfo(created) == <<>>

\* A value given by a variable is passed by name, any other through a temporary.
IsTemporary(n) == members[n].kind = "Normal" /\ ~program.args[n].variable

TemporariesBefore(n) == Cardinality({k \in 1..(n - 1) : IsTemporary(k)})

HostArgsOf(n) ==
  LET m == members[n] IN
  CASE m.kind = "Normal" ->
         <<IF IsTemporary(n) THEN <<"tmp", literalCount + TemporariesBefore(n)>>
           ELSE <<program.args[n].name, "">>>>
    [] m.kind = "Mask" -> <<<<mapping[m.field].name, "">>>>
    [] IsImage(m) ->
         LET o == mapping[m.field] IN
         <<<<o.name, "">>, <<o.name, "width">>, <<o.name, "height">>>>
           \o When(target.padding \/ o.crop, <<<<o.name, "stride">>>>)
           \o When(o.crop, <<<<o.name, "offset_x">>, <<o.name, "offset_y">>>>)

\* setInfoStr names a new launch information, which the last arguments use.
HostBorderArgs ==
  LET Info(part) == <<<<"info", infoStrCnt, part>>>> IN
  When(RadiusX > 0 \/ target.explore, Info("start_left"))
    \o Info("start_right")
    \o When(RadiusY > 0 \/ target.explore, Info("start_top"))
    \o When(threads.y > 1 \/ target.ppt > 1 \/ RadiusY > 0 \/ target.explore,
            Info("start_bottom"))
    \o When(RadiusX > 0 \/ RadiusY > 0 \/ target.explore, Info("fall_back"))

HostArgs ==
  FlattenSeq([n \in 1..Len(members) |-> HostArgsOf(n)]) \o HostBorderArgs

\* The declarations printed before the launch: temporaries with their values.
HostLiterals ==
  LET new == {n \in 1..Len(members) : IsTemporary(n)} IN
  [i \in {literalCount + TemporariesBefore(n) : n \in new} |->
     program.args[CHOOSE n \in new : literalCount + TemporariesBefore(n) = i].name]

-----------------------------------------------------------------------------
(* calcConfig: the number of threads with the best occupancy, and among    *)
(* these the shape with the fewest blocks that need border handling.       *)

Staged == {f \in ImageFields : UseLocalMemory(mapping[f])}

\* The tile calcConfig expects of a block of n threads.
TileEstimate(o, n) ==
  LET rows == n \div TileWidth IN
  (TileWidth * (IF o.sizeX > 1 THEN 3 ELSE 1) + 1)
    * CeilDiv(target.ppt * rows + o.sizeY - 1, rows) * rows

SharedEstimateNarrow(n) ==
  SumFunction([f \in Staged |-> CeilDiv(TileEstimate(mapping[f], n), 3)])

SharedEstimate(n) ==
  SumFunction([f \in Staged |-> TileEstimate(mapping[f], n)])

Candidates ==
  {n \in {WarpSize * k : k \in 1..(MaxThreads \div WarpSize)} :
     Staged # {} => n % TileWidth = 0 /\ SharedEstimate(n) <= MaxShared}

UseShared ==
  \E k \in 1..(MaxThreads \div WarpSize) : Staged # {} /\ (WarpSize * k) % TileWidth = 0

\* sortOccMap: the higher occupancy first, then fewer threads.
First(occ) ==
  CHOOSE n \in DOMAIN occ : \A m \in DOMAIN occ \ {n} :
    occ[m] < occ[n] \/ (occ[m] = occ[n] /\ n < m)

\* The smallest block that covers the border in one row, and in one column.
OptX == WarpSize * Max({1, CeilDiv(RadiusX, WarpSize)})
OptY == Max({1, CeilDiv(RadiusY, target.ppt)})

Widest(n) == IF n >= OptX /\ n % OptX = 0 THEN OptX ELSE WarpSize

FirstShape(n) ==
  LET x == IF UseShared THEN WarpSize ELSE IF MaxSizeY > 1 THEN Widest(n) ELSE n
  IN [x |-> x, y |-> n \div x]

NextShape(n) == [x |-> Widest(n), y |-> n \div Widest(n)]

BorderBlocks(t) ==
  (IF MaxSizeX <= 1 THEN 0 ELSE CeilDiv(RadiusX, t.x))
    + (IF MaxSizeY <= 1 THEN 0 ELSE CeilDiv(RadiusY, t.y * target.ppt))

\* The look-ahead over the configurations of the same occupancy, fewer threads first.
Fewer(t, n) == IF BorderBlocks(NextShape(n)) < BorderBlocks(t) THEN NextShape(n) ELSE t

LookAhead(t, occ) ==
  LET ties == {n \in DOMAIN occ \ {First(occ)} : occ[n] = occ[First(occ)]}
      warps == MaxThreads \div WarpSize
      best[k \in 0..warps] ==
        IF k = 0 THEN t
        ELSE IF WarpSize * k \in ties THEN Fewer(best[k - 1], WarpSize * k) ELSE best[k - 1]
  IN IF MaxSizeY > 1 \/ t.x # OptX \/ t.y # OptY THEN best[warps] ELSE t

CalcConfig(occ) ==
  IF DOMAIN occ = {} \/ target.userConfig THEN DefaultThreads
  ELSE LookAhead(FirstShape(First(occ)), occ)

-----------------------------------------------------------------------------
(* The printed kernel.  A name it does not use is left out; so is, for each *)
(* language, what reaches the kernel another way.                           *)

Kind(a) == IF a[1] = "bh" \/ a[2] # "" THEN "Normal" ELSE Member(a[1]).kind

IsConstantMask(a) == Kind(a) = "Mask" /\ mapping[a[1]].constant

IsParameter(a) ==
  CASE Kind(a) = "Mask" -> target.lang \in {"C99", "OpenCL"} /\ ~IsConstantMask(a)
    [] Kind(a) = "Normal" -> target.lang # "Renderscript"
    [] OTHER -> target.lang # "Renderscript" /\ ~BoundAsTexture(a[1])

\* Renderscript's kernels read script globals; its constant masks are static.
IsGlobal(a) == target.lang = "Renderscript" /\ ~IsConstantMask(a)

IsTexture(a) == Kind(a) \in {"IterationSpace", "Image"} /\ BoundAsTexture(a[1])

PrintedKernel(args, names) ==
  LET kept == ToSet(args) \cap names IN
  [params   |-> At(args, {i \in DOMAIN args : args[i] \in names /\ IsParameter(args[i])}),
   globals  |-> {a \in kept : IsGlobal(a)},
   textures |-> {[as    |-> IF Kind(a) = "Image" THEN "texture" ELSE "surface",
                  field |-> a[1]] : a \in {b \in kept : IsTexture(b)}},
   block    |-> threads]

\* What the translated body may use: every member it names, and all but a few of
\* the extents, offsets and border starts.
UsedNames(args) ==
  LET names == ToSet(args) \ {<<f, "">> : f \in program.idle}
      extra == {a \in names : a[2] # ""}
  IN {names \ gone : gone \in UNION {kSubset(k, extra) : k \in 0..MaxUnused}}

-----------------------------------------------------------------------------
(* The generated launch: the host's arguments of the parameters in use.    *)

HostArg(i) == IF i \in DOMAIN HostArgs THEN HostArgs[i] ELSE <<"undefined", "">>

\* Skipped: masks in CUDA's constant memory, constant masks, CUDA's textures.
IsPassed(a) ==
  /\ a \in used
  /\ Kind(a) = "Mask" => target.lang # "CUDA" /\ ~IsConstantMask(a)
  /\ Kind(a) \in {"IterationSpace", "Image"} => ~BoundAsTexture(a[1])

WriteKernelCall ==
  LET all    == [i \in 1..Len(deviceArgs) |-> [name |-> deviceArgs[i], value |-> HostArg(i)]]
      bound  == {i \in 1..Len(deviceArgs) : deviceArgs[i] \in used /\ IsTexture(deviceArgs[i])}
  IN [args     |-> At(all, {i \in DOMAIN all : IsPassed(all[i].name)}),
      textures |-> {[as    |-> IF Kind(deviceArgs[i]) = "IterationSpace"
                               THEN "surface" ELSE "texture",
                     field |-> deviceArgs[i][1], value |-> HostArg(i)] : i \in bound},
      block    |-> threads,
      info     |-> infoStrCnt,
      literals |-> HostLiterals,
      opened   |-> target.lang = "C99" => IsPassed(deviceArgs[1])]

\* The masks the launch adds the kernel to (CUDA only).
MasksTaken ==
  {mapping[f].name : f \in {g \in DOMAIN mapping :
     target.lang = "CUDA" /\ mapping[g].kind = "Mask" /\ <<g, "">> \in used}}

\* At the end of the program: a mask is written to the symbols of its own kernels, a
\* domain copied from a mask to those of the kernels of that mask.
MaskObjects == {o \in ToSet(program.args) : o.kind = "Mask"}

SymbolsOfCopied ==
  {o.copy : o \in {d \in MaskObjects : d.copy \in maskKernels}}
    \cup {o.name : o \in {m \in MaskObjects : m.copy = "" /\ m.name \in maskKernels}}

SymbolsWritten ==
  {o.name : o \in {d \in MaskObjects : d.copy # "" /\ d.copy \in maskKernels}}
    \cup {o.name : o \in {m \in MaskObjects : m.copy = "" /\ m.name \in maskKernels}}

-----------------------------------------------------------------------------

VisitClass ==
  /\ phase = "class"
  /\ members' = MembersOf(program)
  /\ phase' = "declaration"
  /\ UNCHANGED <<program, target, mapping, threads, measured, deviceArgs, used, printed, host>>

DeclareKernel ==
  /\ phase = "declaration"
  /\ mapping' = MappingOf(members, program.args)
  /\ phase' = "configuration"
  /\ UNCHANGED <<program, target, members, threads, measured, deviceArgs, used, printed, host>>

SetDefaultConfig ==
  /\ phase = "configuration" /\ ~target.jit
  /\ threads' = DefaultThreads
  /\ phase' = "translation"
  /\ UNCHANGED <<declared, measured, deviceArgs, used, printed, host>>

\* Translate the body for the configuration at hand and print the kernel.
Translate(names) ==
  /\ deviceArgs' = CreateArgInfo(deviceArgs, threads)
  /\ used' = names
  /\ printed' = PrintedKernel(deviceArgs', names)

\* The kernel is printed once to learn what the device's compiler makes of it.
EstimateResources ==
  /\ phase = "configuration" /\ target.jit
  /\ \E names \in UsedNames(CreateArgInfo(deviceArgs, threads)) : Translate(names)
  /\ phase' = "estimate"
  /\ UNCHANGED <<declared, threads, measured, host>>

\* Also when the compiler failed: its warning announces the default configuration.
SetResourceUsage ==
  /\ phase = "estimate"
  /\ \E occ \in [Candidates -> Occupancies] :
       /\ measured' = occ
       /\ threads' = CalcConfig(occ)
  /\ deviceArgs' = CreateArgInfo(ClearArgInfo(deviceArgs), threads')
  /\ phase' = "translation"
  /\ UNCHANGED <<declared, used, printed, host>>

TranslateKernel ==
  /\ phase = "translation"
  /\ \E names \in UsedNames(CreateArgInfo(deviceArgs, threads)) : Translate(names)
  /\ phase' = "main"
  /\ UNCHANGED <<declared, threads, measured, host>>

Execute ==
  /\ phase = "main" /\ infoStrCnt < MaxExecutions
  /\ launch' = WriteKernelCall
  /\ infoStrCnt' = infoStrCnt + 1
  /\ literalCount' = literalCount + TemporariesBefore(Len(members) + 1)
  /\ maskKernels' = maskKernels \cup MasksTaken
  /\ UNCHANGED <<declared, phase, threads, measured, deviceArgs, used, printed, symbols>>

EndOfProgram ==
  /\ phase = "main"
  /\ symbols' = IF target.lang = "CUDA" /\ ~target.explore THEN SymbolsWritten ELSE {}
  /\ phase' = "done"
  /\ UNCHANGED <<declared, threads, measured, deviceArgs, used, printed, infoStrCnt,
                 literalCount, launch, maskKernels>>

Init ==
  /\ program \in Programs /\ target \in Targets
  /\ phase = "class" /\ members = <<>> /\ mapping = <<>>
  /\ threads = DefaultThreads /\ measured = <<>>
  /\ deviceArgs = <<>> /\ used = {} /\ printed = NotPrinted
  /\ infoStrCnt = 0 /\ literalCount = 0 /\ launch = NoLaunch
  /\ maskKernels = {} /\ symbols = {}

Next == \/ VisitClass \/ DeclareKernel \/ SetDefaultConfig \/ EstimateResources
        \/ SetResourceUsage \/ TranslateKernel \/ Execute \/ EndOfProgram

Spec == Init /\ [][Next]_vars

-----------------------------------------------------------------------------

\* The type invariant: the parameter list exists from the first use on and has no
\* name twice, and what is used or printed is among its names.
KernelArgsTypeOK ==
  /\ phase \in {"class", "declaration", "configuration", "estimate", "translation",
                "main", "done"}
  /\ IsInjective(deviceArgs)
  /\ phase \in {"estimate", "main", "done"} =>
       /\ Len(deviceArgs) > Len(members)
       /\ used \subseteq ToSet(deviceArgs)
       /\ ToSet(printed.params) \cup printed.globals \subseteq used
  /\ threads.x \in 1..MaxThreads /\ threads.y \in 1..MaxThreads
  /\ infoStrCnt \in 0..MaxExecutions /\ literalCount \in Nat
  /\ launch.info < infoStrCnt

\* What the user's class says a field holds: the argument of the parameter that
\* initialises it.
Given(f) ==
  program.args[CHOOSE n \in 1..Len(program.params) :
    \E k \in 1..Len(program.inits) : /\ program.inits[k].field = f
                                     /\ program.inits[k].param = program.params[n]]

\* What a name in the kernel has to be at this launch.
Meaning(a) == IF a[1] = "bh" THEN <<"info", launch.info, a[2]>> ELSE <<Given(a[1]).name, a[2]>>

Denoted(value) ==
  IF value[1] = "tmp" /\ value[2] \in DOMAIN launch.literals
  THEN <<launch.literals[value[2]], "">> ELSE value

\* C99 opens the call's parenthesis only for the very first parameter.
FirstIsPassed == target.lang = "C99" => IsPassed(deviceArgs[1])

\* A launch gives every parameter, script global and texture of the kernel as printed
\* the object, extent or border start that the user's program means by it, in the
\* order of the parameters and none besides, and runs the block the kernel was compiled
\* for.  createArgInfo and createHostArgInfo (ClassRepresentation.cpp) build the two
\* lists apart, and printKernelArguments (Rewrite.cpp) and writeKernelCall
\* (CreateHostStrings.cpp) filter them apart.
LaunchMatchesKernel ==
  launch.info >= 0 /\ FirstIsPassed =>
    /\ \A p \in ToSet(launch.args) : Denoted(p.value) = Meaning(p.name)
    /\ IF target.lang = "Renderscript"
       THEN {p.name : p \in ToSet(launch.args)} = printed.globals
       ELSE /\ Len(launch.args) = Len(printed.params)
            /\ \A i \in 1..Len(printed.params) :
                 Denoted(launch.args[i].value) = Meaning(printed.params[i])
    /\ {[as |-> t.as, field |-> t.field] : t \in launch.textures} = printed.textures
    /\ \A t \in launch.textures : t.value = Meaning(<<t.field, "">>)
    /\ launch.block = printed.block
    /\ launch.opened

\* The shared memory the printed kernel declares for its tiles (ASTTranslate.cpp).
TileSize(t) ==
  SumFunction([f \in Staged |->
    (t.x * (IF mapping[f].sizeX > 1 THEN 3 ELSE 1) + 1)
      * CeilDiv(target.ppt * t.y + mapping[f].sizeY - 1, t.y) * t.y])

\* The configuration is one whose occupancy was found to be best, the tiles of the
\* kernel compiled for it fit the shared memory, and no other number of threads with
\* that occupancy, one warp wide, needs fewer blocks for the border: the two-pass
\* heuristic of calcConfig (ClassRepresentation.cpp) measures with one shape and
\* compiles another.  It does so for windows within a warp's width on each side.
ConfigurationFits ==
  phase \in {"translation", "main", "done"} /\ DOMAIN measured # {} /\ ~target.userConfig
  /\ RadiusX <= WarpSize /\ WarpSize = TileWidth =>
    LET n == threads.x * threads.y IN
    /\ n \in DOMAIN measured
    /\ TileSize(threads) <= MaxShared
    /\ \A m \in DOMAIN measured :
         /\ measured[m] <= measured[n]
         /\ measured[m] = measured[n] =>
              BorderBlocks(threads) <= BorderBlocks([x |-> WarpSize, y |-> m \div WarpSize])

\* A kernel uses a domain copied from a mask if and only if it uses the mask.
CopiedIsUsed ==
  \A o \in MaskObjects : o.copy # "" =>
    ((\E f \in DOMAIN mapping : mapping[f] = o /\ <<f, "">> \in used) <=>
     (\E g \in DOMAIN mapping : /\ mapping[g].kind = "Mask" /\ mapping[g].name = o.copy
                                /\ <<g, "">> \in used))

\* When the program is complete, main() writes exactly the constant-memory symbols of
\* the masks and domains that a launched kernel reads: addKernel() at the launch
\* decides what HandleTranslationUnit (Rewrite.cpp) writes at the end.
MasksAreWritten ==
  phase = "done" /\ target.lang = "CUDA" /\ ~target.explore /\ CopiedIsUsed =>
    symbols = IF launch.info < 0 THEN {}
              ELSE {mapping[f].name : f \in {g \in DOMAIN mapping :
                      mapping[g].kind = "Mask" /\ <<g, "">> \in used}}

=============================================================================
