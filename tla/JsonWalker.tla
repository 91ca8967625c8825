----------------------------- MODULE JsonWalker -----------------------------
(***************************************************************************)
(* JsonWalker.Walk and Seek: Walk seeks the node at a path, with a walk of *)
(* its own, and then walks it with the caller's function, which answers as *)
(* it likes.  The objects, and who walks over them, are left to modules    *)
(* that extend this one.  src/util/jsonutil.go.                            *)
(***************************************************************************)
EXTENDS ObjWalker

CONSTANT Goals  \* paths asked for, as sequences of elements

VARIABLES
    mode,     \* "idle", "seek", "walk", and "over" or "notFound"
    goal,     \* the path
    result,   \* the node seek has found, 0 for none
    visited   \* history: [node, answer] for the calls of walkFunc

seekVars == <<mode, goal, result, visited>>

(* NewObjWalker: node 1 of the heap is the root.                           *)
WalkerInit ==
    /\ stack = <<>>
    /\ mode = "idle" /\ goal = <<>> /\ result = 0 /\ visited = <<>>

Walk ==
    /\ mode \in {"idle", "over", "notFound"}
    /\ mode' = "seek"
    /\ goal' \in Goals
    /\ stack' = Entry(1, <<>>) /\ result' = 0 /\ visited' = <<>>
    /\ UNCHANGED heap

-----------------------------------------------------------------------------
(* Mutant: a leaf that is not the goal ends the range of its parent.       *)
SeekAnswerLeaf(j) ==
    IF KidPath(j) = goal \/ ~IsDir(KidNode(j)) THEN "skip" ELSE "nil"

(* seek's function: a result that is not nil ends everything.              *)
SeekAnswer(j) ==
    IF (result # 0 /\ heap[result].kind # "null") \/ KidPath(j) = goal
    THEN "skip" ELSE "nil"

SeekCall(j) ==
    /\ mode = "seek"
    /\ Called(j, SeekAnswer(j))
    /\ result' = IF (result = 0 \/ heap[result].kind = "null")
                    /\ KidPath(j) = goal
                 THEN KidNode(j) ELSE result
    /\ UNCHANGED <<heap, mode, goal, visited>>

SeekLeave ==
    /\ mode = "seek" /\ Leave
    /\ UNCHANGED <<heap, mode, goal, result, visited>>

(* NotFound, or the walk proper.                                           *)
SeekDone ==
    /\ mode = "seek" /\ stack = <<>>
    /\ IF result = 0 THEN mode' = "notFound" /\ UNCHANGED stack
                     ELSE mode' = "walk" /\ stack' = Entry(result, goal)
    /\ UNCHANGED <<heap, goal, result, visited>>

WalkCall(j) ==
    /\ mode = "walk"
    /\ \E answer \in {"nil", "skip", "error"} :
          /\ Called(j, answer)
          /\ visited' = Append(visited, [node |-> KidNode(j), answer |-> answer])
    /\ UNCHANGED <<heap, mode, goal, result>>

WalkLeave ==
    /\ mode = "walk" /\ Leave
    /\ UNCHANGED <<heap, mode, goal, result, visited>>

WalkDone ==
    /\ mode = "walk" /\ stack = <<>>
    /\ mode' = "over"
    /\ UNCHANGED <<heap, stack, goal, result, visited>>

Step ==
    \/ \E j \in Turns : SeekCall(j) \/ WalkCall(j)
    \/ SeekLeave \/ SeekDone \/ WalkLeave \/ WalkDone

-----------------------------------------------------------------------------
(* Properties.                                                             *)

(* Seek finds a node exactly when there is one at the path, in whatever    *)
(* order maps are ranged over; when keys with slashes put several nodes at *)
(* one path it finds one of them.                                          *)
SeekCorrect ==
    /\ mode = "notFound" => At(1, goal) = {}
    /\ mode \in {"walk", "over"} => result \in At(1, goal)

KidsOf(n) == {heap[n].kids[i].node : i \in DOMAIN heap[n].kids}

Calls == ToSet(visited)

SkippedBy(n, leaf) ==
    IF heap[n].kind = "map" THEN KidsOf(n)
    ELSE {heap[n].kids[i].node : i \in
            {i \in DOMAIN heap[n].kids :
               \E x \in DOMAIN heap[n].kids : x < i /\ heap[n].kids[x].node = leaf}}

Under(n) == {x[2] : x \in Below(heap, n, <<>>)} \ {n}

(* What a walk has of the semantics of filepath.Walk.  It begins at its    *)
(* root and calls no node twice, and none at any depth under a directory   *)
(* that was answered with SkipDir.  When no call is answered with another  *)
(* error it calls every kid of a directory entered, but for those left out *)
(* for a leaf beside them, in a list before them, that was answered with   *)
(* SkipDir (JsonWalker.Walk, walk).                                        *)
WalkCorrect ==
    mode = "over" =>
        /\ \A x, y \in DOMAIN visited :
              visited[x].node = visited[y].node => x = y
        /\ visited[1].node = result
        /\ \A c, d \in Calls : c.answer = "skip" => d.node \notin Under(c.node)
        /\ (\A c \in Calls : c.answer # "error") =>
              \A c \in Calls : c.answer = "nil" =>
                 \A kid \in KidsOf(c.node) :
                    \/ \E d \in Calls : d.node = kid
                    \/ \E d \in Calls : /\ ~IsDir(d.node) /\ d.answer = "skip"
                                        /\ d.node \in KidsOf(c.node)
                                        /\ kid \in SkippedBy(c.node, d.node)

(* NewObjWalker: the walk has "the same semantics as standard              *)
(* `filepath.Walk`", which calls its function no more once it has answered *)
(* with an error.                                                          *)
ErrorStopsWalk ==
    \A x \in DOMAIN visited : visited[x].answer = "error" => x = Len(visited)
=============================================================================
