--------------------------- MODULE StreamSchedule ---------------------------
(***************************************************************************)
(* HostDataDeps::createSchedule and the entry function printed from it     *)
(* (lib/Analysis/HostDataDeps.cpp).  Once main() has been walked, the data *)
(* flow graph is traversed from the output spaces backwards by the         *)
(* mutually recursive markSpace and markProcess.  The traversal names the  *)
(* hls::streams and collects the schedule; prettyPrint walks the schedule  *)
(* from back to front and prints a stream copy for every space read more   *)
(* than once and a call for every process.                                 *)
(*                                                                         *)
(* The recursion is the explicit stack of markProcess activations; one     *)
(* action is the part of an activation between two recursive calls.        *)
(***************************************************************************)
EXTENDS HostDataDeps, FiniteSets

VARIABLES
  phase,       \* "track" (walking main), "mark" (createSchedule), "done"
  outSpaces,   \* output spaces createSchedule still has to mark
  stack,       \* activations of markProcess
  stream,      \* Space::stream
  cpyStreams,  \* Space::cpyStreams
  inStreams,   \* Process::inStreams
  outStream,   \* Process::outStream
  schedule,    \* schedule
  outId, tmpId \* counters for stream names

markVars == <<outSpaces, stack, stream, cpyStreams, inStreams, outStream,
              schedule, outId, tmpId>>
vars     == <<hostVars, phase, markVars>>

(* Names.  A stream of an input image carries the name of the image, the   *)
(* others a number.                                                        *)
NoName == << >>
Name   == {NoName} \cup ({"_strm"} \X Image)
                   \cup ({"_strmOut", "_strmTmp"} \X Nat)

SpaceNode(s)   == [kind |-> "space", at |-> s]
ProcessNode(p) == [kind |-> "process", at |-> p]

(* An activation: process, next input to mark, and the stream to push once *)
(* the recursive call for the current input has returned.                  *)
Activation == [proc : Nat, next : Nat, call : BOOLEAN, stream : Name]

ScheduleTypeOK ==
  /\ phase \in {"track", "mark", "done"}
  /\ outSpaces \in Seq(DOMAIN spaces)
  /\ stack \in Seq(Activation)
  /\ phase # "track" =>
       /\ stream \in [DOMAIN spaces -> Name]
       /\ cpyStreams \in [DOMAIN spaces -> Seq(Name)]
       /\ inStreams \in [DOMAIN processes -> Seq(Name)]
       /\ outStream \in [DOMAIN processes -> Name]
  /\ schedule \in Seq([kind : {"space"}, at : DOMAIN spaces] \cup
                      [kind : {"process"}, at : DOMAIN processes])
  /\ outId \in Nat
  /\ tmpId \in Nat

MarkInit ==
  /\ phase = "track"
  /\ outSpaces = << >>
  /\ stack = << >>
  /\ stream = << >>
  /\ cpyStreams = << >>
  /\ inStreams = << >>
  /\ outStream = << >>
  /\ schedule = << >>
  /\ outId = 0
  /\ tmpId = 0

-----------------------------------------------------------------------------
Track ==
  /\ phase = "track"
  /\ Next
  /\ UNCHANGED <<phase, markVars>>

Inputs  == {s \in DOMAIN spaces : IsInput(s)}
Outputs == {s \in DOMAIN spaces : IsOutput(s)}

(* getOutputSpaces: from the youngest to the oldest.                       *)
OutputSpaces ==
  [n \in 1..Cardinality(Outputs) |->
     CHOOSE s \in Outputs : Cardinality({t \in Outputs : t >= s}) = n]

CreateSchedule ==
  /\ phase = "track"
  /\ link = 0
  /\ phase' = "mark"
  /\ outSpaces' = OutputSpaces
  /\ stream' = [s \in DOMAIN spaces |-> NoName]
  /\ cpyStreams' = [s \in DOMAIN spaces |-> << >>]
  /\ inStreams' = [p \in DOMAIN processes |-> << >>]
  /\ outStream' = [p \in DOMAIN processes |-> NoName]
  /\ outId' = 0
  /\ tmpId' = 0
  /\ UNCHANGED <<hostVars, stack, schedule>>

(* createStream for a space that has or has not been named yet.            *)
CreateStream(s, named, out, tmp) ==
  IF IsInput(s) /\ ~named THEN <<"_strm", spaces[s].image>>
  ELSE IF IsOutput(s) THEN <<"_strmOut", out>>
  ELSE <<"_strmTmp", tmp>>

MarkAnyProducer(s, planned, activations) ==  \* mutant: no test for no producer
  /\ schedule' = Append(planned, ProcessNode(spaces[s].src))
  /\ stack' = Append(activations, [proc |-> spaces[s].src, next |-> 1,
                                   call |-> FALSE, stream |-> NoName])
  /\ UNCHANGED outStream

(* markSpace after naming: the producer of s is scheduled and markProcess  *)
(* is entered for it; an input of the program ends the recursion.          *)
MarkProducer(s, planned, activations) ==
  IF IsInput(s)
  THEN /\ schedule' = planned
       /\ stack' = activations
       /\ UNCHANGED outStream
  ELSE /\ schedule' = Append(planned, ProcessNode(spaces[s].src))
       /\ stack' = Append(activations, [proc |-> spaces[s].src, next |-> 1,
                                        call |-> FALSE, stream |-> NoName])
       /\ outStream' = [outStream EXCEPT ![spaces[s].src] = stream'[s]]

(* createSchedule calls markSpace for the next output space.               *)
MarkOutput ==
  /\ phase = "mark"
  /\ stack = << >>
  /\ outSpaces # << >>
  /\ LET s == Head(outSpaces) IN
       /\ stream' = [stream EXCEPT ![s] =
                       CreateStream(s, stream[s] # NoName, outId, tmpId)]
       /\ MarkProducer(s, schedule, stack)
  /\ outId' = outId + 1
  /\ outSpaces' = Tail(outSpaces)
  /\ UNCHANGED <<hostVars, phase, cpyStreams, inStreams, tmpId>>

Top == stack[Len(stack)]
WithTop(a) == [stack EXCEPT ![Len(stack)] = a]

PlanEachTime(s, copies) == TRUE              \* mutant: planned per consumer

(* All consumers of space s have come by: it has one, or a copy for each.  *)
PlanNow(s, copies) == Len(spaces[s].dst) \in {1, Len(copies)}

(* One iteration of the loop of markProcess up to its recursive call: the  *)
(* space gets a stream if it has none, and a further one for this consumer *)
(* if there are several.  The space is planned, and its producer marked,   *)
(* once all its consumers have come by.                                    *)
MarkInput ==
  /\ stack # << >>
  /\ ~Top.call
  /\ Top.next <= Len(processes[Top.proc].ins)
  /\ LET s      == processes[Top.proc].ins[Top.next]
         fresh  == stream[s] = NoName
         shared == Len(spaces[s].dst) > 1
         first  == IF fresh THEN CreateStream(s, FALSE, outId, tmpId)
                            ELSE NoName
         named  == IF fresh /\ ~IsInput(s) THEN tmpId + 1 ELSE tmpId
         copy   == CreateStream(s, TRUE, outId, named)
         caller == WithTop([Top EXCEPT !.call = TRUE,
                              !.stream = IF shared THEN copy ELSE first])
     IN
       /\ stream' = IF fresh THEN [stream EXCEPT ![s] = first] ELSE stream
       /\ cpyStreams' = IF shared
                        THEN [cpyStreams EXCEPT ![s] = Append(@, copy)]
                        ELSE cpyStreams
       /\ tmpId' = IF shared THEN named + 1 ELSE named
       /\ IF PlanNow(s, cpyStreams'[s])
          THEN MarkProducer(s, Append(schedule, SpaceNode(s)), caller)
          ELSE /\ stack' = caller
               /\ UNCHANGED <<schedule, outStream>>
  /\ UNCHANGED <<hostVars, phase, outSpaces, inStreams, outId>>

PushInStreamInFront ==                       \* mutant: arguments reversed
  /\ stack # << >>
  /\ Top.call
  /\ inStreams' = [inStreams EXCEPT ![Top.proc] = <<Top.stream>> \o @]
  /\ stack' = WithTop([Top EXCEPT !.call = FALSE, !.next = @ + 1])
  /\ UNCHANGED <<hostVars, phase, outSpaces, stream, cpyStreams, outStream,
                 schedule, outId, tmpId>>

(* The rest of the iteration, after the call has returned.                 *)
PushInStream ==
  /\ stack # << >>
  /\ Top.call
  /\ inStreams' = [inStreams EXCEPT ![Top.proc] = Append(@, Top.stream)]
  /\ stack' = WithTop([Top EXCEPT !.call = FALSE, !.next = @ + 1])
  /\ UNCHANGED <<hostVars, phase, outSpaces, stream, cpyStreams, outStream,
                 schedule, outId, tmpId>>

ReturnFromMarkProcess ==
  /\ stack # << >>
  /\ ~Top.call
  /\ Top.next > Len(processes[Top.proc].ins)
  /\ stack' = SubSeq(stack, 1, Len(stack) - 1)
  /\ UNCHANGED <<hostVars, phase, outSpaces, stream, cpyStreams, inStreams,
                 outStream, schedule, outId, tmpId>>

FinishWhenAllPlanned ==                      \* mutant: waits for every process
  /\ phase = "mark"
  /\ stack = << >>
  /\ outSpaces = << >>
  /\ \A p \in DOMAIN processes :
       \E n \in DOMAIN schedule : schedule[n] = ProcessNode(p)
  /\ phase' = "done"
  /\ UNCHANGED <<hostVars, markVars>>

FinishSchedule ==
  /\ phase = "mark"
  /\ stack = << >>
  /\ outSpaces = << >>
  /\ phase' = "done"
  /\ UNCHANGED <<hostVars, markVars>>

Mark ==
  \/ MarkOutput
  \/ MarkInput
  \/ PushInStream
  \/ ReturnFromMarkProcess
  \/ FinishSchedule

ScheduleNext == Track \/ CreateSchedule \/ Mark

(* The compiler is a sequential program that does not stop in the middle   *)
(* of createSchedule; nothing obliges the host program to go on.           *)
ScheduleSpec ==
  Init /\ MarkInit /\ [][ScheduleNext]_vars /\ WF_vars(Mark)

-----------------------------------------------------------------------------
(* The printed entry function.                                             *)

(* prettyPrint of one node; a space read once prints nothing.              *)
Statement(node) ==
  IF node.kind = "process"
  THEN [op |-> "call", outs |-> <<outStream[node.at]>>,
        ins |-> inStreams[node.at]]
  ELSE IF cpyStreams[node.at] = << >>
  THEN [op |-> "none", outs |-> << >>, ins |-> << >>]
  ELSE [op |-> "splitStream", outs |-> cpyStreams[node.at],
        ins |-> <<stream[node.at]>>]

NodeAtFront(n) == schedule[n]                \* mutant: front to back

(* prettyPrint goes through the schedule from back to front.               *)
NodeAt(n) == schedule[Len(schedule) + 1 - n]
Code == [n \in 1..Len(schedule) |-> Statement(NodeAt(n))]

(* getEntrySignature: the stream parameters.                               *)
EntryIns  == {stream[s] : s \in Inputs}
EntryOuts == {stream[s] : s \in Outputs}

(* getOutputStream: the first space of the image in the order of           *)
(* getOutputSpaces.                                                        *)
OutputStream(i) ==
  LET found == {s \in Outputs : spaces[s].image = i} IN
  IF found = {} THEN NoName
  ELSE stream[CHOOSE s \in found : \A t \in found : t <= s]

-----------------------------------------------------------------------------
(* Properties of the printed code.                                         *)
Done == phase = "done"

(* No kernel reads the image it writes.                                    *)
OutOfPlace ==
  \A p \in DOMAIN processes : \A n \in DOMAIN AccsOf(p) :
    Reads(p, n) # Writes(p)

Occurs(x, seq)  == {n \in DOMAIN seq : seq[n] = x}
WritersOf(x) ==
  (UNION {{n} \X Occurs(x, Code[n].outs) : n \in DOMAIN Code})
  \cup ({0} \X {s \in Inputs : stream[s] = x})
ReadersOf(x) ==
  (UNION {{n} \X Occurs(x, Code[n].ins) : n \in DOMAIN Code})
  \cup ({0} \X {s \in Outputs : stream[s] = x})

StreamsUsed ==
  EntryIns \cup EntryOuts \cup
  UNION {{Code[n].outs[m] : m \in DOMAIN Code[n].outs} \cup
         {Code[n].ins[m] : m \in DOMAIN Code[n].ins} : n \in DOMAIN Code}

(* Every hls::stream of the entry function is a point-to-point channel:    *)
(* one statement or caller writes it and one reads it, which is what       *)
(* HLS dataflow requires.  Names are never empty and never clash.  As each *)
(* execution has a stream for its result, it is printed exactly once.      *)
PointToPoint ==
  Done => \A x \in StreamsUsed :
            /\ x # NoName
            /\ Cardinality(WritersOf(x)) = 1
            /\ Cardinality(ReadersOf(x)) = 1

(* The stream a statement reads is a parameter or written by an earlier    *)
(* statement: the entry function also runs as plain C.                     *)
ProducerPrintedFirst ==
  Done => \A n \in DOMAIN Code : \A m \in DOMAIN Code[n].ins :
            \/ Code[n].ins[m] \in EntryIns
            \/ \E k \in 1..(n - 1) : Occurs(Code[n].ins[m], Code[k].outs) # {}

(* The process whose result a stream carries (0: an input of the program), *)
(* looking through the copies.                                             *)
CarriedBy(x) ==
  {s \in DOMAIN spaces : stream[s] = x \/ Occurs(x, cpyStreams[s]) # {}}

(* The n-th stream argument of a call carries the value that the n-th      *)
(* accessor reads in the host program: the result of the last earlier      *)
(* execution that writes its image.  And IMG.data() reads the stream of    *)
(* the last execution that writes the image, if no kernel read it since.   *)
CarriesRead(x, p, n) ==
  \E s \in CarriedBy(x) :
    /\ CarriedBy(x) = {s}
    /\ spaces[s].image = Reads(p, n)
    /\ IsLastWriter(spaces[s].src, Reads(p, n), p - 1)
    /\ spaces[s].src # 0 => CarriedBy(outStream[spaces[s].src]) = {s}

ArgumentsFollowProgram ==
  Done =>
    /\ \A p \in DOMAIN processes :
         /\ Len(inStreams[p]) = Len(AccsOf(p))
         /\ \A n \in DOMAIN inStreams[p] : CarriesRead(inStreams[p][n], p, n)
    /\ \A s \in Outputs :
         IsLastWriter(spaces[s].src, spaces[s].image, Len(processes)) =>
           OutputStream(spaces[s].image) = stream[s]

(* createSchedule ends.                                                    *)
ScheduleTerminates == phase = "mark" ~> Done

=============================================================================
