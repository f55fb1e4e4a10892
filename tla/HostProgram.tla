---------------------------- MODULE HostProgram ----------------------------
(***************************************************************************)
(* What the data dependency analysis of lib/Analysis/HostDataDeps.cpp has  *)
(* to preserve: the meaning of the host program read as a sequential       *)
(* program.  Every image holds one value.  Executing a kernel reads the    *)
(* current value of the image behind each accessor and then overwrites the *)
(* image of the iteration space.  A value is named by the number of the    *)
(* execution that computed it; 0 is the value the host wrote.              *)
(***************************************************************************)
EXTENDS Naturals, Sequences

CONSTANTS
  Image,       \* the images of the host program
  MaxAccs      \* the most accessors a kernel takes

VARIABLES
  content,     \* content[i]: the execution whose result image i holds
  runs         \* the executions so far: image written and values read

vars == <<content, runs>>

TypeOK ==
  /\ content \in [Image -> 0..Len(runs)]
  /\ runs \in Seq([image : Image, reads : Seq(Nat)])

Init ==
  /\ content = [i \in Image |-> 0]
  /\ runs = << >>

(* Execute a kernel that writes image i and reads the images of rd.        *)
Execute(i, rd) ==
  /\ runs' = Append(runs, [image |-> i,
                           reads |-> [a \in DOMAIN rd |-> content[rd[a]]]])
  /\ content' = [content EXCEPT ![i] = Len(runs) + 1]

Next ==
  \E i \in Image : \E n \in 0..MaxAccs : \E rd \in [1..n -> Image] :
    Execute(i, rd)

Spec == Init /\ [][Next]_vars
=============================================================================
