------------------------------ MODULE BlockWalk ------------------------------
(***************************************************************************)
(* The random access pattern of test_write and test_read: main cuts the    *)
(* file into a matrix and has the index arrays shuffled for it, by the     *)
(* calls RandomPermutations describes step by step; each pass then         *)
(* starts at row 0, column 0, runs along the diagonals of the matrix until *)
(* all bytes are transferred, and may be broken off by a failing call.     *)
(* Several passes use the same arrays.                                     *)
(***************************************************************************)
EXTENDS RandomPermutations

VARIABLES
  blocks,               \* blocks of the file under test
  at,                   \* the walk: row, row_start, col
  total,                \* blocks transferred in this pass
  visited,              \* history: the blocks this pass transferred
  phase                 \* "config" | "shuffle" | "walk"

passvars == <<at, total, visited>>
benchvars == <<vars, blocks, passvars, phase>>

rows == Rows(blocks)
cols == Cols(blocks)

PassOK ==
  /\ blocks \in Nat \ {0}
  /\ at \in [row : Nat, row_start : Nat, col : Nat]
  /\ total \in Nat
  /\ visited \subseteq Nat
  /\ phase \in {"config", "shuffle", "walk"}

BenchInit ==
  /\ Init
  /\ blocks \in BLOCKS
  /\ at = WalkStart
  /\ total = 0
  /\ visited = {}
  /\ phase = "config"

BeginPass ==
  /\ at' = WalkStart
  /\ total' = 0
  /\ visited' = {}

\* main has the index arrays shuffled for the matrix of the file.
Configure(b) ==
  /\ phase = "config"
  /\ Accepted(b)
  /\ blocks' = b
  /\ Call(Rows(b), Cols(b))
  /\ phase' = "shuffle"
  /\ UNCHANGED passvars

\* main prints an error and continues with the next configuration.
Refuse(b) ==
  /\ phase = "config"
  /\ ~Accepted(b)
  /\ UNCHANGED benchvars

\* A step of the call; when it returns, the first pass begins.
Shuffle ==
  /\ phase = "shuffle"
  /\ Step
  /\ IF pc' = "idle"
       THEN BeginPass /\ phase' = "walk"
       ELSE UNCHANGED <<passvars, phase>>
  /\ UNCHANGED blocks

Block == RandomPermutationsGet(randrows, randcols, at, cols)

Transfer ==
  /\ phase = "walk"
  /\ total < blocks
  /\ visited' = visited \union {Block}
  /\ total' = total + 1
  /\ at' = WalkNext(at, rows, cols)
  /\ UNCHANGED <<vars, blocks, phase>>

\* The next pass over the same arrays; the last one may have been broken off.
NextPass ==
  /\ phase = "walk"
  /\ BeginPass
  /\ UNCHANGED <<vars, blocks, phase>>

\* row, row_start, col and the count are locals of the passes, which have ended.
LeaveConfiguration ==
  /\ phase = "walk"
  /\ phase' = "config"
  /\ BeginPass
  /\ UNCHANGED <<vars, blocks>>

BenchNext ==
  \/ \E b \in BLOCKS : Configure(b) \/ Refuse(b)
  \/ Shuffle
  \/ Transfer
  \/ NextPass
  \/ LeaveConfiguration

BenchSpec == BenchInit /\ [][BenchNext]_benchvars

-----------------------------------------------------------------------------
\* As long as bytes are left, the walk reads array elements the last shuffle
\* wrote: row never reaches `rows` although row_start ends there.
ReadsShuffledElements ==
  phase = "walk" /\ total < blocks => at.row < rows /\ at.col < cols

\* A block is never transferred twice in one pass, so that no transfer is
\* served from data the same pass has just moved.
NoBlockTwice ==
  phase = "walk" /\ total < blocks => Block \notin visited

\* A pass that is not broken off has transferred exactly the blocks of the
\* file: random writes leave no hole and do not grow the file.
PassCoversFile ==
  phase = "walk" /\ total = blocks => visited = 0 .. blocks - 1

-----------------------------------------------------------------------------
\* The inductive invariant: the blocks visited are those on the diagonals
\* already finished and on the part of the current one left of the column.
Diagonal(r, c) == (r - c) % rows

VisitedPart ==
  {p \in (0 .. rows - 1) \X (0 .. cols - 1) :
     \/ Diagonal(p[1], p[2]) < at.row_start
     \/ Diagonal(p[1], p[2]) = at.row_start /\ p[2] < at.col}

WalkInv ==
  /\ Accepted(blocks)
  /\ IsPermutation(randrows, rows)
  /\ IsPermutation(randcols, cols)
  /\ at.col \in 0 .. cols - 1
  /\ at.row_start \in 0 .. rows
  /\ total = at.row_start * cols + at.col
  /\ at.row_start = rows => at.col = 0
  /\ at.row_start < rows =>
       at.row \in 0 .. rows - 1 /\ Diagonal(at.row, at.col) = at.row_start
  /\ visited = {randrows[p[1]] * cols + randcols[p[2]] : p \in VisitedPart}

\* Together with the invariant of the shuffle.
IInv ==
  /\ PassOK
  /\ phase = "shuffle" <=> pc # "idle"
  /\ phase # "config" => Accepted(blocks) /\ M = rows /\ N = cols
  /\ phase = "walk" => WalkInv
=============================================================================
