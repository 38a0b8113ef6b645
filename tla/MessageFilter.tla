---------------------------- MODULE MessageFilter ----------------------------
(***************************************************************************)
(* The loop that HandleGetConversation runs over the result of a query      *)
(* (controllers/message.controller.go): it ranges over the slice and cuts   *)
(* hidden messages out of it with slices.Delete.  range keeps the length    *)
(* the slice had before the loop and reads the array the cuts move, and     *)
(* slices.Delete clears the place it frees at the end.                      *)
(***************************************************************************)
EXTENDS Integers, Sequences

(* One message of the result, and the flag the loop looks at.  A zero       *)
(* message has a flag that is not set.                                      *)
Item(Ids) == [id : Ids, sees : BOOLEAN]
ZeroItem == [id |-> 0, sees |-> FALSE]

(* arr: the array; n: the length of the slice `messages'; i: the index.     *)
LoopOver(items) == [arr |-> items, n |-> Len(items), i |-> 1]

Looking(l) == l.i <= Len(l.arr)

(* Mutant of Cuts: the condition is turned round.                           *)
CutsVisible(l) == l.arr[l.i].sees

Cuts(l) == ~l.arr[l.i].sees

(* slices.Delete(messages, i, i+1) checks i+1 against the slice's length.   *)
OutOfRange(l) == l.i > l.n

(* Mutant of Cut: the freed place keeps its message.                        *)
CutWithoutClear(l) ==
    [l EXCEPT !.arr = [k \in 1..Len(l.arr) |->
                          IF k \in l.i..(l.n - 1) THEN l.arr[k + 1] ELSE l.arr[k]],
              !.n = @ - 1]

Cut(l) ==
    [l EXCEPT !.arr = [k \in 1..Len(l.arr) |->
                          IF k \in l.i..(l.n - 1) THEN l.arr[k + 1]
                          ELSE IF k = l.n THEN ZeroItem ELSE l.arr[k]],
              !.n = @ - 1]

Advanced(l) == [(IF Cuts(l) THEN Cut(l) ELSE l) EXCEPT !.i = @ + 1]

Result(l) == SubSeq(l.arr, 1, l.n)
==============================================================================
