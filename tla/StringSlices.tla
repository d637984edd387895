---------------------------- MODULE StringSlices ----------------------------
(***************************************************************************)
(* The slice helpers of v2/internal/stores/controller_node_currencies.go.  *)
(* A slice of node uuids is a sequence.  removeString deletes from the     *)
(* slice it is ranging over, so it is only a plain removal when the item   *)
(* is listed once: after a deletion the range skips the element that slid  *)
(* into the hole, and past the shortened end it still reads the stale tail *)
(* of the backing array.  What that amounts to is stated here without the  *)
(* loop; RemoveLoop.tla has the loop and the check that the two agree.     *)
(***************************************************************************)
EXTENDS Integers, Sequences, FiniteSets

\* containsString
ContainsString(slice, item) == \E i \in 1..Len(slice) : slice[i] = item

\* The start of the run of equal elements that position i belongs to.
RunStart(slice, i) ==
  CHOOSE j \in 1..i :
    /\ \A k \in j..i : slice[k] = slice[i]
    /\ j > 1 => slice[j - 1] # slice[i]

EveryOther(slice, item) == { i \in 1..Len(slice) : slice[i] # item }

\* The positions removeString leaves: those of other items, and in every run
\* of the item the second, fourth, ... copy, which the range skips.
KeptPositions(slice, item) ==
  { i \in 1..Len(slice) :
      slice[i] = item => (i - RunStart(slice, i)) % 2 = 1 }

\* The slice removeString returns, as a set with one element: the kept
\* positions in their order.  Alphabet is the set the items are drawn from.
Removals(slice, item, Alphabet) ==
  LET kept == KeptPositions(slice, item)
      rank(i) == Cardinality({ k \in kept : k <= i })
  IN  { result \in [1..Cardinality(kept) -> Alphabet] :
          \A i \in kept : result[rank(i)] = slice[i] }

\* removeIndex is called with an index past the end and slicing panics: the
\* item is the last element and an earlier copy of it was deleted before.
RemovalPanics(slice, item) ==
  /\ slice # << >>
  /\ slice[Len(slice)] = item
  /\ \E i \in 1..Len(slice) - 1 : slice[i] = item

=============================================================================
