----------------------------- MODULE RemoveLoop -----------------------------
(***************************************************************************)
(* removeString of v2/internal/stores/controller_node_currencies.go as the *)
(* loop the compiler runs: the range is over the slice header taken at the *)
(* start, so it visits every position of the original length, while        *)
(* removeIndex shifts the elements of the shared backing array down and    *)
(* shortens s.  The loop is checked against the closed form of             *)
(* StringSlices, which is what the controller's model uses.                *)
(***************************************************************************)
EXTENDS StringSlices

\* removeIndex: append(s[:i-1], s[i:]...) copies in place, and panics when the
\* slice s has become shorter than that.
RemoveIndex(s, i) ==
  IF i > s.len THEN [s EXCEPT !.panicked = TRUE]
  ELSE [s EXCEPT !.len = @ - 1,
                 !.backing = [k \in DOMAIN @ |-> IF k >= i /\ k < s.len THEN @[k + 1] ELSE @[k]]]

\* One position of the range.
Visit(s, item, i) == IF s.panicked \/ s.backing[i] # item THEN s ELSE RemoveIndex(s, i)

\* s after each position of the range.
Ranged(slice, item) ==
  LET after[i \in 0..Len(slice)] ==
        IF i = 0 THEN [backing |-> slice, len |-> Len(slice), panicked |-> FALSE]
        ELSE Visit(after[i - 1], item, i)
  IN  after

RemoveString(slice, item) == Ranged(slice, item)[Len(slice)]

\* What removeString returns is the closed form (everything that is not the item,
\* in order, and the copies the range skipped), and it panics exactly when the
\* item is last in the slice and listed before as well, so never on a slice that
\* lists each node once.
Agrees(slice, item, Alphabet) ==
  LET s == RemoveString(slice, item)
  IN  /\ s.panicked <=> RemovalPanics(slice, item)
      /\ ~s.panicked => Removals(slice, item, Alphabet) = { SubSeq(s.backing, 1, s.len) }

=============================================================================
