----------------------------- MODULE RpcMarshal -----------------------------
(***************************************************************************)
(* Values that share objects or contain themselves on the wire: toJSON()   *)
(* walks the object graph, attaches a marker to every object it enters,    *)
(* leaves out what it meets again and lists it as a fixup, a pair of the   *)
(* path left out and the path of the original; applyFixups() of            *)
(* _handleResponse() puts the references back. The bridge of the server    *)
(* has the other half of each of the two; it is taken to be the one of     *)
(* this file. An object is its references to others, in the order in which *)
(* they are visited (attributes and elements of arrays alike: both keep    *)
(* the place of what is left out); simple values are Nil.                  *)
(***************************************************************************)
EXTENDS Integers, Sequences, FiniteSets

CONSTANTS Objects, Root, Nil,
          Width        \* bound: references of an object

Refs == 1 .. Width

(* Nothing is no object, no marker and no path.                            *)
ASSUME MarshalAssumption ==
  /\ IsFiniteSet(Objects) /\ Root \in Objects /\ Width \in Nat \ {0}
  /\ Nil \notin Objects /\ Nil \notin Seq(Nat)
  /\ Nil \notin [parent : Objects \cup {Nil}, ref : 0 .. Width,
                prev : Objects \cup {Nil}]

VARIABLES
  graph,      \* the object graph to send
  circ,       \* JSONRpcClient.fixupCircRefs
  dup,        \* JSONRpcClient.fixupDuplicates
  marker,     \* per object its marker, or Nil
  markerHead, \* the object marked last
  stack,      \* the running calls of subObjToJSON()
  written,    \* the paths of the objects in the json
  fixups,     \* the fixups in the request
  phase,      \* "walk", "unmark", "throw", "sent", "apply", "done", "thrown"
  built       \* what the receiver has made: the references of each path

marshalVars ==
  << graph, circ, dup, marker, markerHead, stack, written, fixups, phase,
     built >>
sender == << graph, circ, dup >>

Frame(o, path) == [obj |-> o, next |-> 1, at |-> path]
Mark_next(p, r) == [parent |-> p, ref |-> r + 1, prev |-> markerHead]
Mark(p, r) == [parent |-> p, ref |-> r, prev |-> markerHead]

(* The chain of parents of a marked object, and the path that it spells.   *)
Marked == { o \in Objects : marker[o] # Nil }
Chain(o) ==
  LET up[x \in Marked] ==
        {x} \cup IF marker[x].parent = Nil THEN {} ELSE up[marker[x].parent]
  IN up[o]
PathOf_last(o) ==
  IF marker[o].parent = Nil THEN <<>> ELSE << marker[o].ref >>
PathOf(o) ==
  LET path[x \in Marked] ==
        IF marker[x].parent = Nil THEN <<>>
        ELSE Append(path[marker[x].parent], marker[x].ref)
  IN path[o]
-----------------------------------------------------------------------------
MarshalInit ==
  /\ graph \in [Objects -> [Refs -> Objects \cup {Nil}]]
  /\ circ \in BOOLEAN /\ dup \in BOOLEAN
  /\ marker = [o \in Objects |-> IF o = Root
                  THEN [parent |-> Nil, ref |-> 0, prev |-> Nil] ELSE Nil]
  /\ markerHead = Root
  /\ stack = << Frame(Root, <<>>) >>
  /\ written = {<<>>} /\ fixups = <<>> /\ phase = "walk" /\ built = Nil

Top == stack[Len(stack)]
Walking == phase = "walk" /\ stack # <<>>
Item == graph[Top.obj][Top.next]
AtItem == Walking /\ Top.next \in Refs
Advanced == [stack EXCEPT ![Len(stack)].next = @ + 1]
Met == AtItem /\ Item # Nil /\ marker[Item] # Nil
Circular_parent == Item = Top.obj
Circular == Item \in Chain(Top.obj)
Fixup == << Append(PathOf(Top.obj), Top.next), PathOf(Item) >>

Simple ==
  /\ AtItem /\ Item = Nil
  /\ stack' = Advanced
  /\ UNCHANGED << sender, marker, markerHead, written, fixups, phase, built >>

(* subObjToJSON() goes into the object.                                    *)
Enter == /\ stack' = Append(Advanced, Frame(Item, Append(Top.at, Top.next)))
         /\ written' = written \cup {Append(Top.at, Top.next)}

First ==
  /\ AtItem /\ Item # Nil /\ marker[Item] = Nil
  /\ marker' = [marker EXCEPT ![Item] = Mark(Top.obj, Top.next)]
  /\ markerHead' = Item
  /\ Enter
  /\ UNCHANGED << sender, fixups, phase, built >>

LeaveOut_lost ==
  /\ Met /\ (IF Circular THEN circ ELSE dup)
  /\ stack' = Advanced
  /\ UNCHANGED << sender, marker, markerHead, written, fixups, phase, built >>
LeaveOut ==
  /\ Met /\ (IF Circular THEN circ ELSE dup)
  /\ fixups' = Append(fixups, Fixup)
  /\ stack' = Advanced
  /\ UNCHANGED << sender, marker, markerHead, written, phase, built >>

Throw_marked ==
  /\ Met /\ Circular /\ ~circ
  /\ phase' = "thrown" /\ stack' = <<>>
  /\ UNCHANGED << sender, marker, markerHead, written, fixups, built >>
Throw ==
  /\ Met /\ Circular /\ ~circ
  /\ phase' = "throw" /\ stack' = <<>>
  /\ UNCHANGED << sender, marker, markerHead, written, fixups, built >>

(* Duplicates that are not combined are written again; the marker of the   *)
(* first time stays.                                                       *)
Again ==
  /\ Met /\ ~Circular /\ ~dup
  /\ Enter
  /\ UNCHANGED << sender, marker, markerHead, fixups, phase, built >>

Leave ==
  /\ Walking /\ Top.next \notin Refs
  /\ stack' = SubSeq(stack, 1, Len(stack) - 1)
  /\ phase' = IF Len(stack) = 1 THEN "unmark" ELSE phase
  /\ UNCHANGED << sender, marker, markerHead, written, fixups, built >>

removeMarkers ==
  /\ phase \in {"unmark", "throw"} /\ markerHead # Nil
  /\ marker' = [marker EXCEPT ![markerHead] = Nil]
  /\ markerHead' = marker[markerHead].prev
  /\ UNCHANGED << sender, stack, written, fixups, phase, built >>

Unmarked ==
  /\ phase \in {"unmark", "throw"} /\ markerHead = Nil
  /\ phase' = IF phase = "unmark" THEN "sent" ELSE "thrown"
  /\ UNCHANGED << sender, marker, markerHead, stack, written, fixups, built >>

(* eval() of the json: one object for each place where one was written.    *)
Receive ==
  /\ phase = "sent" /\ phase' = "apply"
  /\ built' = [p \in written |-> [r \in Refs |->
                 IF Append(p, r) \in written THEN Append(p, r) ELSE Nil]]
  /\ UNCHANGED << sender, marker, markerHead, stack, written, fixups >>

(* The object that a path leads to from a root: findOriginal().            *)
Find(refsOf, root, path) ==
  LET walk[k \in 0 .. Len(path)] ==
        IF k = 0 THEN root
        ELSE IF walk[k - 1] = Nil THEN Nil ELSE refsOf[walk[k - 1]][path[k]]
  IN walk[Len(path)]

Front(path) == SubSeq(path, 1, Len(path) - 1)
applyFixup_first ==
  /\ phase = "apply" /\ fixups # <<>>
  /\ LET fix == Head(fixups)
         holder == Find(built, <<>>, Front(fix[1]))
     IN built' = [built EXCEPT ![holder][fix[1][Len(fix[1])]] =
                    Find(built, <<>>, fix[2])]
  /\ UNCHANGED << sender, marker, markerHead, stack, written, fixups, phase >>
applyFixup ==
  /\ phase = "apply" /\ fixups # <<>>
  /\ LET fix == Head(fixups)
         holder == Find(built, <<>>, Front(fix[1]))
     IN built' = [built EXCEPT ![holder][fix[1][Len(fix[1])]] =
                    Find(built, <<>>, fix[2])]
  /\ fixups' = Tail(fixups)
  /\ UNCHANGED << sender, marker, markerHead, stack, written, phase >>

Applied ==
  /\ phase = "apply" /\ fixups = <<>>
  /\ phase' = "done"
  /\ UNCHANGED << sender, marker, markerHead, stack, written, fixups, built >>

toJSON == \/ Simple \/ First \/ LeaveOut \/ Throw \/ Again \/ Leave
          \/ removeMarkers \/ Unmarked
applyFixups == Receive \/ applyFixup \/ Applied

MarshalNext == toJSON \/ applyFixups

MarshalSpec ==
  MarshalInit /\ [][MarshalNext]_marshalVars /\ WF_marshalVars(MarshalNext)
-----------------------------------------------------------------------------
Paths == UNION { [1 .. k -> Refs] : k \in 0 .. Cardinality(Objects) }
Sent(p) == Find(graph, Root, p)
Got(p) == Find(built, <<>>, p)
Reached == { Sent(p) : p \in Paths } \ {Nil}
Cyclic == \E p, q \in Paths : /\ Sent(p) # Nil /\ Sent(p) = Sent(q)
                              /\ Len(p) < Len(q) /\ SubSeq(q, 1, Len(p)) = p

MarshalTypeOK ==
  /\ marker \in [Objects ->
       [parent : Objects \cup {Nil}, ref : 0 .. Width,
        prev : Objects \cup {Nil}] \cup {Nil}]
  /\ markerHead \in Objects \cup {Nil}
  /\ \A k \in DOMAIN stack : /\ stack[k].obj \in Objects
                             /\ stack[k].next \in 1 .. Width + 1
  /\ phase \in {"walk", "unmark", "throw", "sent", "apply", "done", "thrown"}

(* The conversion does not go round in a circle, even when duplicates are  *)
(* written again: no object is inside itself (jsonrpc.js:213-231).         *)
NoEndless ==
  \A j, k \in DOMAIN stack : stack[j].obj = stack[k].obj => j = k

(* Combined duplicates: the value that arrives has the shape of the value  *)
(* that was sent, circles and all. Two paths lead to one object there      *)
(* exactly if they did here (jsonrpc.js:204-275, 881-904).                 *)
Isomorphic ==
  phase = "done" /\ dup =>
    \A p, q \in Paths : /\ (Sent(p) = Nil) <=> (Got(p) = Nil)
                        /\ (Sent(p) = Sent(q)) <=> (Got(p) = Got(q))

(* Duplicates written again: a value that does not contain itself arrives  *)
(* as a tree that looks the same along every path.                         *)
Unfolded ==
  phase = "done" /\ ~Cyclic =>
    \A p \in Paths : (Sent(p) = Nil) <=> (Got(p) = Nil)

(* Duplicates written again in a value that contains itself: a circular    *)
(* reference met in the second copy of an object is listed with the path   *)
(* of the first, whose marker it reads, so the copy never gets it          *)
(* (jsonrpc.js:205-241, and not what jsonrpc.js:79-91 says). What is left  *)
(* in every setting: no path leads to an object that was not there, and of *)
(* every object one copy arrives with all of its references.               *)
Genuine ==
  phase = "done" =>
    \A p \in Paths : Got(p) # Nil => /\ Sent(p) # Nil
                                     /\ Sent(Got(p)) = Sent(p)
Complete ==
  phase = "done" =>
    \A o \in Reached : \E w \in written :
      /\ Sent(w) = o
      /\ \A r \in Refs : (graph[o][r] = Nil) <=> (built[w][r] = Nil)

(* "an exception will be thrown if a circular reference is detected": that *)
(* and nothing else, and the markers are gone from the application's       *)
(* objects in either case (jsonrpc.js:86, 249-250, 334).                   *)
Verdict ==
  phase \in {"thrown", "sent", "apply", "done"} =>
    /\ \A o \in Objects : marker[o] = Nil
    /\ phase = "thrown" <=> Cyclic /\ ~circ

(* What arrives is what was sent, as far as each of the four settings of   *)
(* the two flags goes, or an exception that is deserved.                   *)
Faithful == /\ MarshalTypeOK /\ NoEndless /\ Isomorphic /\ Unfolded
            /\ Genuine /\ Complete /\ Verdict

(* The conversion and the rebuilding come to an end.                       *)
Ends == <>(phase \in {"done", "thrown"})
=============================================================================
