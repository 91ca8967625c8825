----------------------------- MODULE ObjWalker -----------------------------
(***************************************************************************)
(* Walking over a composite object: walk of src/util/jsonutil.go, with the *)
(* calls of its recursion on a stack.                                      *)
(*                                                                         *)
(* Objects lie on a heap.  A node is [kind, kids]: a "map", a "list", a    *)
(* "leaf" or a "null"; its kids are [key, node], in order, where a key is  *)
(* the sequence of path elements that filepath.Join makes of it: one as a  *)
(* rule, more for a key with a slash, none for an empty key.               *)
(***************************************************************************)
EXTENDS Integers, Sequences, FiniteSets, SequencesExt

VARIABLES
    heap,   \* the objects
    stack   \* the directories that walk is in: [node, path, rest]

IsDir(n) == heap[n].kind \in {"map", "list"}

(* walk enters a node.                                                     *)
Frame(n, path) == [node |-> n, path |-> path, rest |-> heap[n].kids]

(* walk is called on a node, from outside (0).                             *)
Entry(n, path) ==
    <<[node |-> 0, path |-> path, rest |-> <<[key |-> <<>>, node |-> n]>>]>>

Top == Last(stack)

(* The kids that may come next: a map is ranged over in any order.         *)
Turns ==
    IF stack = <<>> \/ Top.rest = <<>> THEN {}
    ELSE IF Top.node # 0 /\ heap[Top.node].kind = "list" THEN {1}
    ELSE DOMAIN Top.rest

KidNode(j) == Top.rest[j].node

KidPath(j) == Top.path \o Top.rest[j].key

(* Mutant: SkipDir from a directory reaches the directory above it.        *)
CalledSkipUp(j, answer) ==
    LET left == [Top EXCEPT !.rest = RemoveAt(@, j)]
        over == [Top EXCEPT !.rest = <<>>]
    IN  stack' = Front(stack) \o
                 IF answer = "skip" THEN <<over>>
                 ELSE IF IsDir(KidNode(j)) THEN <<left, Frame(KidNode(j), KidPath(j))>>
                 ELSE <<left>>

(* walkFunc has answered "nil", "skip" (filepath.SkipDir) or "error" for   *)
(* the kid.  From a leaf SkipDir ends the range of its parent, from a      *)
(* directory only its own; any other error is dropped.                     *)
Called(j, answer) ==
    LET left == [Top EXCEPT !.rest = RemoveAt(@, j)]
        over == [Top EXCEPT !.rest = <<>>]
    IN  stack' = Front(stack) \o
                 IF IsDir(KidNode(j))
                 THEN IF answer = "skip" THEN <<left>>
                      ELSE <<left, Frame(KidNode(j), KidPath(j))>>
                 ELSE IF answer = "skip" THEN <<over>> ELSE <<left>>

(* A range is over and walk returns.                                       *)
Leave == stack # <<>> /\ Top.rest = <<>> /\ stack' = Front(stack)

-----------------------------------------------------------------------------
(* What json.Unmarshal makes: nodes numbered after their parents, each the *)
(* kid of one; only directories have kids.                                 *)
Tree(h) ==
    /\ Len(h) \in Nat \ {0} /\ DOMAIN h = 1 .. Len(h)
    /\ \A n \in DOMAIN h :
          /\ h[n].kids \in Seq([key : Seq(STRING), node : n + 1 .. Len(h)])
          /\ h[n].kids # <<>> => h[n].kind \in {"map", "list"}
    /\ \A n, m \in DOMAIN h :
          \A i \in DOMAIN h[n].kids, j \in DOMAIN h[m].kids :
             h[n].kids[i].node = h[m].kids[j].node => n = m /\ i = j

(* Reference: every node of a heap below another one, with its path.       *)
Below(h, n, path) ==
    LET below[m \in DOMAIN h] ==
          {<<<<>>, m>>} \cup
          UNION {{<<kid.key \o x[1], x[2]>> : x \in below[kid.node]}
                   : kid \in ToSet(h[m].kids)}
    IN  {<<path \o x[1], x[2]>> : x \in below[n]}

At(root, path) == {x[2] : x \in {y \in Below(heap, root, <<>>) : y[1] = path}}
=============================================================================
