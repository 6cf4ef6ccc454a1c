---------------------------- MODULE PerfGeometry ----------------------------
(***************************************************************************)
(* The arithmetic the file system benchmarks share: how a file is cut into *)
(* a matrix of blocks, how the two shuffled index arrays name a block, the *)
(* diagonal walk test_write and test_read take through the matrix, and     *)
(* what a write does to the file.                                          *)
(* The same code stands in all four performance programs of the            *)
(* repository; the definitions are mapped to performance_littlefs_norflash.*)
(***************************************************************************)
EXTENDS Integers, Sequences

CONSTANTS
  RANDOM_ROW_RANGE,   \* length of randrows (64 in the code)
  RANDOM_COL_RANGE    \* length of randcols (1024 in the code)

\* randrows is an array of uint8_t, randcols of uint16_t: an index of the
\* array must fit in an element of it.
UINT8_SIZE == 2^8
UINT16_SIZE == 2^16

ASSUME RangesAssumption ==
  /\ RANDOM_ROW_RANGE \in 1 .. UINT8_SIZE
  /\ RANDOM_COL_RANGE \in 1 .. UINT16_SIZE

RowIndex == 0 .. RANDOM_ROW_RANGE - 1
ColIndex == 0 .. RANDOM_COL_RANGE - 1

-----------------------------------------------------------------------------
\* The matrix of a file of `blocks` blocks, and whether main accepts it.
Rows(blocks) ==
  IF blocks > RANDOM_COL_RANGE THEN blocks \div RANDOM_COL_RANGE ELSE 1

Cols(blocks) ==
  IF blocks > RANDOM_COL_RANGE THEN RANDOM_COL_RANGE ELSE blocks

\* Mutant of Accepted: the remainder of the division goes unnoticed.
AcceptedTruncated(blocks) == Rows(blocks) <= RANDOM_ROW_RANGE

Accepted(blocks) ==
  /\ Rows(blocks) * Cols(blocks) = blocks
  /\ Rows(blocks) <= RANDOM_ROW_RANGE

\* perm lists every number of 0..n-1 once in its first n elements.
IsPermutation(perm, n) ==
  /\ \A k \in 0 .. n-1 : perm[k] \in 0 .. n-1
  /\ \A k, l \in 0 .. n-1 : perm[k] = perm[l] => k = l
  /\ \A v \in 0 .. n-1 : \E k \in 0 .. n-1 : perm[k] = v

\* What RandomPermutationsInitialize may leave in an array: a permutation of
\* its first n elements, the rest as it was (RandomPermutations refines it).
Shuffles(array, n) ==
  {f \in [DOMAIN array -> DOMAIN array] :
     /\ IsPermutation(f, n)
     /\ \A k \in DOMAIN array : k >= n => f[k] = array[k]}

-----------------------------------------------------------------------------
\* A place in the walk: the local variables row, row_start and col.
WalkStart == [row |-> 0, row_start |-> 0, col |-> 0]

\* Mutants of WalkNext: the row does not wrap; row_start is not advanced.
WalkNextUnwrapped(at, rows, cols) ==
  IF at.col + 1 = cols
    THEN [row |-> at.row_start + 1, row_start |-> at.row_start + 1, col |-> 0]
    ELSE [row |-> at.row + 1, row_start |-> at.row_start, col |-> at.col + 1]

WalkNextSameDiagonal(at, rows, cols) ==
  IF at.col + 1 = cols
    THEN [row |-> at.row_start, row_start |-> at.row_start, col |-> 0]
    ELSE [row |-> (at.row + 1) % rows, row_start |-> at.row_start, col |-> at.col + 1]

\* One step along the diagonal; at the last column the next diagonal starts.
WalkNext(at, rows, cols) ==
  IF at.col + 1 = cols
    THEN [row |-> at.row_start + 1, row_start |-> at.row_start + 1, col |-> 0]
    ELSE [row |-> (at.row + 1) % rows, row_start |-> at.row_start, col |-> at.col + 1]

\* Mutant of RandomPermutationsGet: row and column change places.
RandomPermutationsGetTransposed(rowPerm, colPerm, at, cols) ==
  rowPerm[at.row] + colPerm[at.col] * cols

\* RandomPermutationsGet: the number of the block at a place of the walk.
RandomPermutationsGet(rowPerm, colPerm, at, cols) ==
  rowPerm[at.row] * cols + colPerm[at.col]

-----------------------------------------------------------------------------
\* A test configuration.  Sizes are counted in units (the smallest block).
Config(file, block, random) ==
  [file |-> file, block |-> block, random |-> random,
   rows |-> Rows(file \div block), cols |-> Cols(file \div block)]

\* A unit of the file holds the tag of the test_write call that wrote it, or
\* Hole if it was skipped over.
Hole == 0

Smaller(a, b) == IF a < b THEN a ELSE b
Larger(a, b) == IF a < b THEN b ELSE a

\* The file after fs_write has stored n units at off.
Overwrite(cells, off, n, tag) ==
  IF n <= 0 THEN cells
  ELSE [k \in 1 .. Larger(Len(cells), off + n) |->
          IF k \in off + 1 .. off + n THEN tag
          ELSE IF k <= Len(cells) THEN cells[k] ELSE Hole]

\* The file holds nothing but what the call with this tag wrote.
WrittenBy(cells, cfg, tag) ==
  Len(cells) >= cfg.file /\ \A k \in 1 .. cfg.file : cells[k] = tag
=============================================================================
