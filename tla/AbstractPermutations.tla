------------------------ MODULE AbstractPermutations ------------------------
(***************************************************************************)
(* What main and the walks count on: a call replaces the first elements of *)
(* each array by a permutation of the rows or columns, in one step.        *)
(***************************************************************************)
EXTENDS PerfGeometry

CONSTANT BLOCKS

VARIABLES randrows, randcols

Init ==
  /\ randrows = [k \in RowIndex |-> 0]
  /\ randcols = [k \in ColIndex |-> 0]

Initialize(blocks) ==
  /\ Rows(blocks) <= RANDOM_ROW_RANGE
  /\ randrows' \in Shuffles(randrows, Rows(blocks))
  /\ randcols' \in Shuffles(randcols, Cols(blocks))

Next == \E blocks \in BLOCKS : Initialize(blocks)

Spec == Init /\ [][Next]_<<randrows, randcols>>
=============================================================================
