-------------------------- MODULE PerfGeometryProofs --------------------------
(***************************************************************************)
(* Facts about the matrix of a file, the diagonal walk through it and the  *)
(* chunks of a loop, for matrices of every size.  Both the walk on its own *)
(* (BlockWalkProofs) and the loops of test_write and test_read in the two  *)
(* programs (LfsPerfProofs, FatPerfProofs) rest on them.                   *)
(***************************************************************************)
EXTENDS PerfGeometry, FiniteSets, FiniteSetTheorems, WellFoundedInduction, TLAPS

-----------------------------------------------------------------------------
(* Arithmetic of the matrix.                                               *)

LEMMA Ranges ==
  /\ RANDOM_ROW_RANGE \in Nat /\ 0 < RANDOM_ROW_RANGE
  /\ RANDOM_COL_RANGE \in Nat /\ 0 < RANDOM_COL_RANGE
<1>1. UINT8_SIZE \in Nat /\ UINT16_SIZE \in Nat
  BY DEF UINT8_SIZE, UINT16_SIZE
<1> QED
  BY <1>1, RangesAssumption

\* Quotient and remainder.
LEMMA Division ==
  ASSUME NEW R \in Nat, R > 0, NEW x \in Int
  PROVE  /\ x \div R \in Int
         /\ x % R \in 0 .. R-1
         /\ x = (R * (x \div R)) + (x % R)
OBVIOUS

LEMMA RemainderUnique ==
  ASSUME NEW R \in Nat, R > 0, NEW x \in 0 .. R-1, NEW y \in 0 .. R-1,
         NEW p \in Int, NEW q \in Int, R*p + x = R*q + y
  PROVE  x = y
<1>1. CASE p < q
  <2>1. R*q >= R*p + R
    BY <1>1
  <2> QED
    BY <2>1
<1>2. CASE q < p
  <2>1. R*p >= R*q + R
    BY <1>2
  <2> QED
    BY <2>1
<1>3. CASE q = p
  BY <1>3
<1> QED
  BY <1>1, <1>2, <1>3

\* A row is determined by its column and its diagonal.
LEMMA RowOfDiagonal ==
  ASSUME NEW R \in Nat, R > 0, NEW x \in 0 .. R-1, NEW y \in 0 .. R-1,
         NEW c \in Nat, (x - c) % R = (y - c) % R
  PROVE  x = y
<1> DEFINE a == (x - c) \div R
           b == (y - c) \div R
           m == (x - c) % R
<1>1. a \in Int /\ m \in Int /\ x - c = R*a + m
  BY Division
<1>2. b \in Int /\ y - c = R*b + m
  BY Division
<1> HIDE DEF a, b, m
<1>3. R*a \in Int /\ R*b \in Int
  BY <1>1, <1>2
<1>4. R*a + y = R*b + x
  BY <1>1, <1>2, <1>3
<1> QED
  BY <1>1, <1>2, <1>4, RemainderUnique

\* Stepping down one row and right one column stays on the diagonal.
LEMMA StepOnDiagonal ==
  ASSUME NEW R \in Nat, R > 0, NEW x \in 0 .. R-1, NEW c \in Nat
  PROVE  /\ (x + 1) % R \in 0 .. R-1
         /\ (((x + 1) % R) - (c + 1)) % R = (x - c) % R
<1>1. CASE x + 1 < R
  BY <1>1
<1>2. CASE x + 1 = R
  <2>1. (x + 1) % R = 0
    BY <1>2
  <2> DEFINE a == (x - c) \div R
             b == (-(c + 1)) \div R
             m == (x - c) % R
             n == (-(c + 1)) % R
  <2>2. a \in Int /\ m \in 0 .. R-1 /\ x - c = R*a + m
    BY Division
  <2>3. b \in Int /\ n \in 0 .. R-1 /\ -(c + 1) = R*b + n
    BY Division
  <2>4. ((x + 1) % R) - (c + 1) = -(c + 1)
    BY <2>1
  <2>5. m = n
    <3> HIDE DEF a, b, m, n
    <3>1. R*(a - 1) = R*a - R /\ R*a \in Int /\ R*b \in Int
      BY <2>2, <2>3
    <3> DEFINE p == a - 1
    <3>2. p \in Int /\ R*p + m = R*b + n
      BY <1>2, <2>2, <2>3, <3>1
    <3> HIDE DEF p
    <3> QED
      BY <2>2, <2>3, <3>2, RemainderUnique
  <2> QED
    BY <2>1, <2>4, <2>5
<1> QED
  BY <1>1, <1>2

\* The number of a block determines its row and column, and every number below
\* the count of blocks is that of a row and a column.
LEMMA MatrixInjective ==
  ASSUME NEW C \in Nat, NEW r \in Nat, NEW s \in Nat,
         NEW c \in 0 .. C-1, NEW d \in 0 .. C-1, r*C + c = s*C + d
  PROVE  r = s /\ c = d
OBVIOUS

LEMMA MatrixSurjective ==
  ASSUME NEW C \in Nat, NEW R \in Nat, C > 0, NEW k \in 0 .. R*C - 1
  PROVE  /\ k \div C \in 0 .. R-1
         /\ k % C \in 0 .. C-1
         /\ k = (k \div C)*C + (k % C)
OBVIOUS

LEMMA MatrixBounds ==
  ASSUME NEW C \in Nat, NEW R \in Nat, NEW r \in 0 .. R-1, NEW c \in 0 .. C-1
  PROVE  r*C + c \in 0 .. R*C - 1
OBVIOUS

\* Position of the walk in terms of the units transferred.
LEMMA WalkPosition ==
  ASSUME NEW C \in Nat, NEW R \in Nat, NEW q \in 0 .. R, NEW c \in 0 .. C-1
  PROVE  /\ q*C + c < R*C => q < R
         /\ q*C + c = R*C => q = R
         /\ c + 1 = C => q*C + c + 1 = (q + 1)*C
<1>1. q*C + c < R*C => q < R
  OBVIOUS
<1>2. q*C + c = R*C => q = R
  OBVIOUS
<1>3. c + 1 = C => q*C + c + 1 = (q + 1)*C
  OBVIOUS
<1> QED
  BY <1>1, <1>2, <1>3

\* The matrix of a file of at least one block.
LEMMA MatrixOfFile ==
  ASSUME NEW b \in Nat \ {0}
  PROVE  /\ Rows(b) \in Nat /\ Rows(b) > 0
         /\ Cols(b) \in Nat /\ Cols(b) > 0 /\ Cols(b) <= RANDOM_COL_RANGE
<1>1. CASE b > RANDOM_COL_RANGE
  <2>1. b \div RANDOM_COL_RANGE \in Nat /\ b \div RANDOM_COL_RANGE > 0
    BY <1>1, Ranges
  <2> QED
    BY <1>1, <2>1, Ranges DEF Rows, Cols
<1>2. CASE ~(b > RANDOM_COL_RANGE)
  BY <1>2, Ranges DEF Rows, Cols
<1> QED
  BY <1>1, <1>2

\* A permutation of 0..n-1 as facts about its elements.
LEMMA PermutationFacts ==
  ASSUME NEW f, NEW n, IsPermutation(f, n)
  PROVE  /\ \A k \in 0 .. n-1 : f[k] \in 0 .. n-1
         /\ \A k, l \in 0 .. n-1 : f[k] = f[l] => k = l
         /\ \A v \in 0 .. n-1 : \E k \in 0 .. n-1 : f[k] = v
BY DEF IsPermutation

-----------------------------------------------------------------------------
(* The walk through a matrix of R rows and C columns.                      *)

\* The place of the walk once it has passed k places: row_start numbers the
\* diagonal it is on, col how far along it.
OnWalk(at, k, R, C) ==
  /\ at.col \in 0 .. C-1
  /\ at.row_start \in 0 .. R
  /\ k = at.row_start * C + at.col
  /\ at.row_start = R => at.col = 0
  /\ at.row_start < R => at.row \in 0 .. R-1 /\ (at.row - at.col) % R = at.row_start

\* Whether the walk, at a place, has passed the pair (r, c) before.
Passed(at, r, c, R) ==
  \/ (r - c) % R < at.row_start
  \/ (r - c) % R = at.row_start /\ c < at.col

LEMMA StartOnWalk ==
  ASSUME NEW R \in Nat, R > 0, NEW C \in Nat, C > 0
  PROVE  /\ OnWalk(WalkStart, 0, R, C)
         /\ \A r \in 0 .. R-1, c \in 0 .. C-1 : ~Passed(WalkStart, r, c, R)
<1>1. WalkStart.row = 0 /\ WalkStart.row_start = 0 /\ WalkStart.col = 0
  BY DEF WalkStart
<1>2. OnWalk(WalkStart, 0, R, C)
  BY <1>1 DEF OnWalk
<1>3. ASSUME NEW r \in 0 .. R-1, NEW c \in 0 .. C-1
      PROVE  ~Passed(WalkStart, r, c, R)
  <2>1. (r - c) % R \in 0 .. R-1
    BY Division
  <2> QED
    BY <1>1, <2>1 DEF Passed
<1> QED
  BY <1>2, <1>3

\* Before its end, the walk is at a pair of the matrix, on diagonal row_start.
LEMMA InsideWalk ==
  ASSUME NEW R \in Nat, NEW C \in Nat, NEW k \in Nat, NEW at,
         OnWalk(at, k, R, C), k < R*C
  PROVE  /\ at.row_start \in 0 .. R-1
         /\ at.row \in 0 .. R-1
         /\ at.col \in 0 .. C-1
         /\ (at.row - at.col) % R = at.row_start
<1>1. /\ at.col \in 0 .. C-1 /\ at.row_start \in 0 .. R
      /\ at.row_start * C + at.col < R*C
  BY DEF OnWalk
<1>2. at.row_start < R
  BY <1>1, WalkPosition
<1> QED
  BY <1>1, <1>2 DEF OnWalk

LEMMA NextOnWalk ==
  ASSUME NEW R \in Nat, R > 0, NEW C \in Nat, C > 0, NEW k \in Nat, NEW at,
         OnWalk(at, k, R, C), k < R*C
  PROVE  /\ OnWalk(WalkNext(at, R, C), k + 1, R, C)
         /\ WalkNext(at, R, C) \in [row : Nat, row_start : Nat, col : Nat]
         /\ \A r \in 0 .. R-1, c \in 0 .. C-1 :
              Passed(WalkNext(at, R, C), r, c, R)
                <=> Passed(at, r, c, R) \/ (r = at.row /\ c = at.col)
<1> DEFINE x == at.row  y == at.col  z == at.row_start
           next == WalkNext(at, R, C)
<1>1. z \in 0 .. R-1 /\ x \in 0 .. R-1 /\ y \in 0 .. C-1 /\ (x - y) % R = z
  BY InsideWalk
<1>2. k = z*C + y
  BY DEF OnWalk
<1>3. /\ (x + 1) % R \in 0 .. R-1
      /\ (((x + 1) % R) - (y + 1)) % R = z
  <2>1. y \in Nat
    BY <1>1
  <2> HIDE DEF x, y, z
  <2> QED
    BY <1>1, <2>1, StepOnDiagonal
<1>4. \/ /\ y + 1 = C /\ next.row_start = z + 1 /\ next.col = 0
         /\ next.row = z + 1 /\ next \in [row : Nat, row_start : Nat, col : Nat]
      \/ /\ y + 1 < C /\ next.row_start = z /\ next.col = y + 1
         /\ next.row = (x + 1) % R /\ next \in [row : Nat, row_start : Nat, col : Nat]
  <2>1. CASE y + 1 = C
    BY <1>1, <2>1 DEF WalkNext
  <2>2. CASE y + 1 < C
    BY <1>1, <1>3, <2>2 DEF WalkNext
  <2> QED
    BY <1>1, <2>1, <2>2
<1>5. OnWalk(next, k + 1, R, C)
  <2>1. CASE y + 1 = C
    <3>1. next.row_start = z + 1 /\ next.col = 0 /\ next.row = z + 1
      BY <1>4, <2>1
    <3>2. k + 1 = (z + 1)*C
      <4> HIDE DEF y, z
      <4> QED
        BY <1>1, <1>2, <2>1, WalkPosition
    <3>3. z + 1 < R => (z + 1 - 0) % R = z + 1
      BY <1>1
    <3>4. k + 1 = next.row_start * C + next.col
      <4>1. (z + 1)*C \in Nat
        BY <1>1
      <4> QED
        BY <3>1, <3>2, <4>1
    <3> HIDE DEF x, y, z, next
    <3> QED
      BY <1>1, <3>1, <3>3, <3>4 DEF OnWalk
  <2>2. CASE y + 1 < C
    <3>1. next.row_start = z /\ next.col = y + 1 /\ next.row = (x + 1) % R
      BY <1>4, <2>2
    <3>2. z*C \in Nat
      BY <1>1
    <3> HIDE DEF x, y, z, next
    <3> QED
      BY <1>1, <1>2, <1>3, <2>2, <3>1, <3>2 DEF OnWalk
  <2> QED
    BY <1>1, <2>1, <2>2
<1>6. ASSUME NEW r \in 0 .. R-1, NEW c \in 0 .. C-1
      PROVE  Passed(next, r, c, R) <=> Passed(at, r, c, R) \/ (r = x /\ c = y)
  <2> DEFINE d == (r - c) % R
  <2>1. d \in Int
    BY Division
  <2>2. d = z /\ c = y => r = x
    <3>1. c \in Nat
      OBVIOUS
    <3> SUFFICES ASSUME d = z, c = y PROVE r = x
      OBVIOUS
    <3>2. /\ R \in Nat /\ R > 0 /\ r \in 0 .. R-1 /\ x \in 0 .. R-1
          /\ (r - c) % R = (x - c) % R
      BY <1>1
    <3> HIDE DEF x, y, z, d
    <3> QED
      BY ONLY <3>1, <3>2, RowOfDiagonal
  <2>3. r = x /\ c = y => d = z
    BY <1>1
  <2>4. /\ Passed(next, r, c, R) <=> d < next.row_start \/ (d = next.row_start /\ c < next.col)
        /\ Passed(at, r, c, R) <=> d < z \/ (d = z /\ c < y)
    BY DEF Passed
  <2> HIDE DEF d, x, y, z, next
  <2> QED
    BY <1>1, <1>4, <2>1, <2>2, <2>3, <2>4
<1> QED
  BY <1>4, <1>5, <1>6

\* After R*C places every pair has been passed.
LEMMA WholeWalk ==
  ASSUME NEW R \in Nat, R > 0, NEW C \in Nat, NEW at, OnWalk(at, R*C, R, C)
  PROVE  \A r \in 0 .. R-1, c \in 0 .. C-1 : Passed(at, r, c, R)
<1>1. at.row_start = R
  <2>1. at.col \in 0 .. C-1 /\ at.row_start \in 0 .. R /\ at.row_start * C + at.col = R*C
    BY DEF OnWalk
  <2> QED
    BY <2>1, WalkPosition
<1> TAKE r \in 0 .. R-1, c \in 0 .. C-1
<1>2. (r - c) % R \in 0 .. R-1
  BY Division
<1> QED
  BY <1>1, <1>2 DEF Passed

\* Shuffled arrays name each block of the file, and no other.
LEMMA EveryBlockNamed ==
  ASSUME NEW R \in Nat, NEW C \in Nat, C > 0, NEW f, NEW g,
         IsPermutation(f, R), IsPermutation(g, C), NEW b \in 0 .. R*C - 1
  PROVE  \E r \in 0 .. R-1, c \in 0 .. C-1 : f[r]*C + g[c] = b
<1>1. b \div C \in 0 .. R-1 /\ b % C \in 0 .. C-1 /\ b = (b \div C)*C + (b % C)
  BY MatrixSurjective
<1>2. PICK r \in 0 .. R-1 : f[r] = b \div C
  BY <1>1, PermutationFacts
<1>3. PICK c \in 0 .. C-1 : g[c] = b % C
  BY <1>1, PermutationFacts
<1> QED
  BY <1>1, <1>2, <1>3

LEMMA NamedInside ==
  ASSUME NEW R \in Nat, NEW C \in Nat, NEW f, NEW g,
         IsPermutation(f, R), IsPermutation(g, C),
         NEW r \in 0 .. R-1, NEW c \in 0 .. C-1
  PROVE  f[r]*C + g[c] \in 0 .. R*C - 1
<1>1. f[r] \in 0 .. R-1 /\ g[c] \in 0 .. C-1
  BY PermutationFacts
<1> DEFINE a == f[r]  e == g[c]
<1>2. a \in 0 .. R-1 /\ e \in 0 .. C-1
  BY <1>1
<1> HIDE DEF a, e
<1>3. a*C + e \in 0 .. R*C - 1
  BY <1>2, MatrixBounds
<1> QED
  BY <1>3 DEF a, e

-----------------------------------------------------------------------------
(* The chunks of a loop over a configuration cfg, with w the place of its  *)
(* walk, done the units it has transferred, rr and cc the index arrays and *)
(* cells the units of the open file.                                       *)

\* The file is a matrix of whole blocks, which the index arrays can describe.
ValidConfig(cfg) ==
  /\ cfg.block \in Nat /\ cfg.block > 0
  /\ cfg.rows \in Nat /\ cfg.rows > 0 /\ cfg.rows <= RANDOM_ROW_RANGE
  /\ cfg.cols \in Nat /\ cfg.cols > 0 /\ cfg.cols <= RANDOM_COL_RANGE
  /\ cfg.file \in Nat /\ cfg.file = (cfg.rows * cfg.cols) * cfg.block

\* A file of whole blocks main accepts is such a matrix.
LEMMA AcceptedIsValid ==
  ASSUME NEW file \in Nat \ {0}, NEW block \in Nat \ {0}, NEW random,
         file % block = 0, Accepted(file \div block)
  PROVE  ValidConfig(Config(file, block, random))
<1> DEFINE B == file \div block  cfg == Config(file, block, random)
<1>1. B \in Nat \ {0} /\ file = B * block
  OBVIOUS
<1>2. /\ cfg.file = file /\ cfg.block = block
      /\ cfg.rows = Rows(B) /\ cfg.cols = Cols(B)
  BY DEF Config
<1> HIDE DEF B, cfg
<1>3. /\ Rows(B) \in Nat /\ Rows(B) > 0 /\ Cols(B) \in Nat /\ Cols(B) > 0
      /\ Cols(B) <= RANDOM_COL_RANGE
  BY <1>1, MatrixOfFile
<1>4. Rows(B) * Cols(B) = B /\ Rows(B) <= RANDOM_ROW_RANGE
  BY DEF Accepted, B
<1> QED
  BY <1>1, <1>2, <1>3, <1>4 DEF ValidConfig, cfg

LEMMA OverwriteEffect ==
  ASSUME NEW cells \in Seq(Nat), NEW off \in Nat, NEW n \in Int, NEW tag \in Nat
  PROVE  /\ Overwrite(cells, off, n, tag) \in Seq(Nat)
         /\ Len(Overwrite(cells, off, n, tag)) >= Len(cells)
         /\ \A k \in 1 .. Len(cells) :
              Overwrite(cells, off, n, tag)[k] \in {cells[k], tag}
         /\ n > 0 =>
              /\ Len(Overwrite(cells, off, n, tag)) >= off + n
              /\ \A k \in off + 1 .. off + n : Overwrite(cells, off, n, tag)[k] = tag
<1>1. CASE n <= 0
  BY <1>1 DEF Overwrite
<1>2. CASE n > 0
  <2> DEFINE L == Larger(Len(cells), off + n)
             new == [k \in 1 .. L |->
                       IF k \in off + 1 .. off + n THEN tag
                       ELSE IF k <= Len(cells) THEN cells[k] ELSE Hole]
  <2>1. L \in Nat /\ L >= Len(cells) /\ L >= off + n
    BY <1>2 DEF Larger
  <2>2. Overwrite(cells, off, n, tag) = new
    BY <1>2 DEF Overwrite
  <2> HIDE DEF L
  <2>3. \A k \in 1 .. L : new[k] \in Nat
    BY <2>1 DEF Hole
  <2>4. new \in Seq(Nat) /\ Len(new) = L
    BY <2>1, <2>3
  <2>5. \A k \in 1 .. Len(cells) : new[k] \in {cells[k], tag}
    BY <2>1
  <2>6. \A k \in off + 1 .. off + n : new[k] = tag
    BY <1>2, <2>1
  <2> HIDE DEF new
  <2> QED
    BY <2>1, <2>2, <2>4, <2>5, <2>6
<1> QED
  BY <1>1, <1>2

Permuted(cfg, rr, cc) == IsPermutation(rr, cfg.rows) /\ IsPermutation(cc, cfg.cols)

\* Where the next chunk goes, and where the walk goes after it.
PlaceOf(cfg, rr, cc, w, done) ==
  IF cfg.random THEN RandomPermutationsGet(rr, cc, w, cfg.cols) * cfg.block ELSE done

PlaceAfter(cfg, w) == IF cfg.random THEN WalkNext(w, cfg.rows, cfg.cols) ELSE w

\* The loop has done k chunks, all of them whole.
WholeChunks(cfg, w, done, k) ==
  /\ k \in 0 .. cfg.rows * cfg.cols
  /\ done = k * cfg.block
  /\ cfg.random => OnWalk(w, k, cfg.rows, cfg.cols)

\* A loop begins with none.
LEMMA LoopBegins ==
  ASSUME NEW cfg, ValidConfig(cfg)
  PROVE  WholeChunks(cfg, WalkStart, 0, 0)
<1>1. cfg.rows * cfg.cols \in Nat
  BY DEF ValidConfig
<1>2. OnWalk(WalkStart, 0, cfg.rows, cfg.cols)
  BY StartOnWalk DEF ValidConfig
<1> QED
  BY <1>1, <1>2 DEF WholeChunks, ValidConfig

\* While the loop goes on, the next chunk is a whole block inside the file.
LEMMA NextChunk ==
  ASSUME NEW cfg, NEW rr, NEW cc, NEW w, NEW done, NEW k,
         ValidConfig(cfg), Permuted(cfg, rr, cc), WholeChunks(cfg, w, done, k),
         done < cfg.file
  PROVE  /\ k \in Nat /\ k < cfg.rows * cfg.cols
         /\ Smaller(cfg.file - done, cfg.block) = cfg.block
         /\ PlaceOf(cfg, rr, cc, w, done) \in Nat
         /\ PlaceOf(cfg, rr, cc, w, done) + cfg.block <= cfg.file
         /\ done \in Nat /\ done + cfg.block = (k + 1) * cfg.block
         /\ cfg.random => w.row \in 0 .. cfg.rows - 1 /\ w.col \in 0 .. cfg.cols - 1
<1> DEFINE R == cfg.rows  C == cfg.cols  S == cfg.block  B == R * C
<1>1. /\ R \in Nat /\ C \in Nat /\ C > 0 /\ S \in Nat /\ S > 0 /\ B \in Nat
      /\ cfg.file \in Nat /\ cfg.file = B * S
  BY DEF ValidConfig
<1>2. k \in 0 .. B /\ done = k * S /\ done < B * S
  BY <1>1 DEF WholeChunks
<1>3. k < B
  <2> HIDE DEF B, S
  <2> QED
    BY <1>1, <1>2
<1>4. ASSUME NEW b \in 0 .. B - 1
      PROVE  b * S \in Nat /\ b * S + S <= B * S /\ b * S + S = (b + 1) * S
  <2> HIDE DEF B, S
  <2>1. b * S + S = (b + 1) * S
    BY <1>1
  <2>2. (b + 1) * S <= B * S
    BY <1>1
  <2> QED
    BY <1>1, <2>1, <2>2
<1>5. done \in Nat /\ done + S <= cfg.file /\ done + S = (k + 1) * S
  <2>1. k \in 0 .. B - 1
    BY <1>1, <1>2, <1>3
  <2> HIDE DEF B, S
  <2> QED
    BY <1>1, <1>2, <1>4, <2>1
<1>6. Smaller(cfg.file - done, S) = S
  BY <1>1, <1>5 DEF Smaller
<1>7. CASE cfg.random
  <2>1. w.row \in 0 .. R - 1 /\ w.col \in 0 .. C - 1
    <3>1. OnWalk(w, k, R, C) /\ k \in Nat
      BY <1>2, <1>7 DEF WholeChunks
    <3> QED
      BY <1>1, <1>3, <3>1, InsideWalk
  <2>2. rr[w.row] * C + cc[w.col] \in 0 .. B - 1
    BY <1>1, <2>1, NamedInside DEF Permuted
  <2>3. PlaceOf(cfg, rr, cc, w, done) = (rr[w.row] * C + cc[w.col]) * S
    BY <1>7 DEF PlaceOf, RandomPermutationsGet
  <2> QED
    BY <1>1, <1>2, <1>3, <1>4, <1>5, <1>6, <2>1, <2>2, <2>3
<1>8. CASE ~cfg.random
  <2>1. PlaceOf(cfg, rr, cc, w, done) = done
    BY <1>8 DEF PlaceOf
  <2> QED
    BY <1>1, <1>2, <1>3, <1>5, <1>6, <1>8, <2>1
<1> QED
  BY <1>7, <1>8

LEMMA LoopAdvances ==
  ASSUME NEW cfg, NEW rr, NEW cc, NEW w \in [row : Nat, row_start : Nat, col : Nat],
         NEW done, NEW k,
         ValidConfig(cfg), Permuted(cfg, rr, cc), WholeChunks(cfg, w, done, k),
         done < cfg.file
  PROVE  /\ WholeChunks(cfg, PlaceAfter(cfg, w), done + cfg.block, k + 1)
         /\ PlaceAfter(cfg, w) \in [row : Nat, row_start : Nat, col : Nat]
<1>1. /\ k \in Nat /\ k < cfg.rows * cfg.cols
      /\ done + cfg.block = (k + 1) * cfg.block
  BY NextChunk
<1>2. cfg.rows * cfg.cols \in Nat /\ cfg.block \in Nat
  BY DEF ValidConfig
<1>3. k + 1 \in 0 .. cfg.rows * cfg.cols
  BY <1>1, <1>2
<1>4. CASE cfg.random
  <2>1. PlaceAfter(cfg, w) = WalkNext(w, cfg.rows, cfg.cols) /\ OnWalk(w, k, cfg.rows, cfg.cols)
    BY <1>4 DEF PlaceAfter, WholeChunks
  <2>2. /\ OnWalk(PlaceAfter(cfg, w), k + 1, cfg.rows, cfg.cols)
        /\ PlaceAfter(cfg, w) \in [row : Nat, row_start : Nat, col : Nat]
    BY <1>1, <2>1, NextOnWalk DEF ValidConfig
  <2> QED
    BY <1>1, <1>3, <2>2 DEF WholeChunks
<1>5. CASE ~cfg.random
  BY <1>1, <1>3, <1>5 DEF WholeChunks, PlaceAfter
<1> QED
  BY <1>4, <1>5

\* The file has n units behind off, all written by the call with this tag.
Holds(cells, off, n, tag) ==
  /\ off + n <= Len(cells)
  /\ \A u \in off + 1 .. off + n : cells[u] = tag

\* What the write loop has written: the units so far, or the blocks passed.
WrittenUpTo(cfg, rr, cc, w, done, cells, tag) ==
  IF cfg.random
    THEN \A r \in 0 .. cfg.rows - 1, c \in 0 .. cfg.cols - 1 :
           Passed(w, r, c, cfg.rows) =>
             Holds(cells, (rr[r] * cfg.cols + cc[c]) * cfg.block, cfg.block, tag)
    ELSE Holds(cells, 0, done, tag)

LEMMA NothingWritten ==
  ASSUME NEW cfg, ValidConfig(cfg), NEW rr, NEW cc, NEW cells \in Seq(Nat), NEW tag
  PROVE  WrittenUpTo(cfg, rr, cc, WalkStart, 0, cells, tag)
<1>1. \A r \in 0 .. cfg.rows - 1, c \in 0 .. cfg.cols - 1 : ~Passed(WalkStart, r, c, cfg.rows)
  BY StartOnWalk DEF ValidConfig
<1>2. Holds(cells, 0, 0, tag)
  BY DEF Holds
<1> QED
  BY <1>1, <1>2 DEF WrittenUpTo

\* What had been written before a chunk is there afterwards, and the chunk too.
LEMMA HoldsKept ==
  ASSUME NEW cells \in Seq(Nat), NEW off \in Nat, NEW n \in Nat \ {0}, NEW tag \in Nat,
         NEW new, new = Overwrite(cells, off, n, tag)
  PROVE  /\ new \in Seq(Nat)
         /\ \A o, m \in Nat : Holds(cells, o, m, tag) => Holds(new, o, m, tag)
         /\ Holds(new, off, n, tag)
<1>1. /\ new \in Seq(Nat) /\ Len(new) >= Len(cells) /\ Len(new) >= off + n
      /\ \A i \in 1 .. Len(cells) : new[i] \in {cells[i], tag}
      /\ \A i \in off + 1 .. off + n : new[i] = tag
  BY OverwriteEffect
<1>2. Len(cells) \in Nat /\ Len(new) \in Nat
  BY <1>1
<1>3. ASSUME NEW o \in Nat, NEW m \in Nat, Holds(cells, o, m, tag)
      PROVE  Holds(new, o, m, tag)
  <2>1. o + m <= Len(cells) /\ \A u \in o + 1 .. o + m : cells[u] = tag
    BY <1>3 DEF Holds
  <2> QED
    <3>1. o + m <= Len(new)
      BY <1>1, <1>2, <2>1
    <3>2. ASSUME NEW u \in o + 1 .. o + m PROVE new[u] = tag
      <4>1. u \in 1 .. Len(cells) /\ cells[u] = tag
        BY <1>2, <2>1
      <4> QED
        BY <1>1, <4>1
    <3> QED
      BY <3>1, <3>2 DEF Holds
<1> QED
  BY <1>1, <1>3 DEF Holds

LEMMA ChunkExtends ==
  ASSUME NEW cfg, NEW rr, NEW cc, NEW w, NEW done, NEW k, NEW cells \in Seq(Nat),
         NEW tag \in Nat, NEW off, NEW new,
         ValidConfig(cfg), Permuted(cfg, rr, cc), WholeChunks(cfg, w, done, k),
         done < cfg.file, WrittenUpTo(cfg, rr, cc, w, done, cells, tag),
         off = PlaceOf(cfg, rr, cc, w, done),
         new = Overwrite(cells, off, cfg.block, tag)
  PROVE  /\ new \in Seq(Nat)
         /\ WrittenUpTo(cfg, rr, cc, PlaceAfter(cfg, w), done + cfg.block, new, tag)
<1>1. /\ k \in Nat /\ k < cfg.rows * cfg.cols /\ off \in Nat /\ done \in Nat
  BY NextChunk
<1>2. /\ new \in Seq(Nat)
      /\ \A o, m \in Nat : Holds(cells, o, m, tag) => Holds(new, o, m, tag)
      /\ Holds(new, off, cfg.block, tag)
  <2>1. PICK n \in Nat \ {0} : n = cfg.block
    BY DEF ValidConfig
  <2>2. new = Overwrite(cells, off, n, tag)
    BY <2>1
  <2>3. /\ new \in Seq(Nat) /\ Holds(new, off, n, tag)
        /\ \A o, m \in Nat : Holds(cells, o, m, tag) => Holds(new, o, m, tag)
    BY <1>1, <2>2, HoldsKept
  <2> QED
    BY <2>1, <2>3
<1>3. CASE cfg.random
  <2>1. /\ PlaceAfter(cfg, w) = WalkNext(w, cfg.rows, cfg.cols)
        /\ OnWalk(w, k, cfg.rows, cfg.cols)
        /\ off = (rr[w.row] * cfg.cols + cc[w.col]) * cfg.block
    BY <1>3 DEF PlaceAfter, WholeChunks, PlaceOf, RandomPermutationsGet
  <2>2. SUFFICES ASSUME NEW r \in 0 .. cfg.rows - 1, NEW c \in 0 .. cfg.cols - 1,
                        Passed(PlaceAfter(cfg, w), r, c, cfg.rows)
                 PROVE  Holds(new, (rr[r] * cfg.cols + cc[c]) * cfg.block, cfg.block, tag)
    BY <1>2, <1>3 DEF WrittenUpTo
  <2>3. Passed(w, r, c, cfg.rows) \/ (r = w.row /\ c = w.col)
    <3> DEFINE R == cfg.rows  C == cfg.cols
    <3>1. R \in Nat /\ R > 0 /\ C \in Nat /\ C > 0 /\ r \in 0 .. R-1 /\ c \in 0 .. C-1
      BY DEF ValidConfig
    <3>2. OnWalk(w, k, R, C) /\ k \in Nat /\ k < R*C /\ Passed(WalkNext(w, R, C), r, c, R)
      BY <1>1, <2>1, <2>2
    <3> HIDE DEF R, C
    <3>3. Passed(w, r, c, R) \/ (r = w.row /\ c = w.col)
      BY ONLY <3>1, <3>2, NextOnWalk
    <3> QED
      BY <3>3 DEF R
  <2>4. CASE Passed(w, r, c, cfg.rows)
    <3>1. PICK o : o = (rr[r] * cfg.cols + cc[c]) * cfg.block
      OBVIOUS
    <3>2. Holds(cells, o, cfg.block, tag)
      BY <1>3, <2>4, <3>1 DEF WrittenUpTo
    <3>3. rr[r] * cfg.cols + cc[c] \in 0 .. cfg.rows * cfg.cols - 1
      BY NamedInside DEF ValidConfig, Permuted
    <3>4. o \in Nat /\ cfg.block \in Nat
      BY <3>1, <3>3 DEF ValidConfig
    <3> QED
      BY <1>2, <3>1, <3>2, <3>4
  <2>5. CASE r = w.row /\ c = w.col
    BY <1>2, <2>1, <2>5
  <2> QED
    BY <2>3, <2>4, <2>5
<1>4. CASE ~cfg.random
  <2>1. off = done /\ cfg.block \in Nat /\ Holds(cells, 0, done, tag)
    BY <1>4 DEF PlaceOf, ValidConfig, WrittenUpTo
  <2>2. Holds(new, 0, done, tag) /\ Holds(new, done, cfg.block, tag)
    BY <1>1, <1>2, <2>1
  <2>3. Holds(new, 0, done + cfg.block, tag)
    BY <1>1, <1>2, <2>1, <2>2 DEF Holds
  <2> QED
    BY <1>2, <1>4, <2>3 DEF WrittenUpTo
<1> QED
  BY <1>3, <1>4

\* A loop that is over has counted every unit, and if it was a write loop, it
\* has written them all: every block is one the walk has passed.
LEMMA LoopEnds ==
  ASSUME NEW cfg, NEW w, NEW done, NEW k,
         ValidConfig(cfg), WholeChunks(cfg, w, done, k), ~(done < cfg.file)
  PROVE  k = cfg.rows * cfg.cols /\ done = cfg.file
<1> DEFINE S == cfg.block  B == cfg.rows * cfg.cols
<1>1. S \in Nat /\ S > 0 /\ B \in Nat /\ cfg.file = B * S
  BY DEF ValidConfig
<1>2. k \in 0 .. B /\ done = k * S /\ ~(done < B * S)
  BY <1>1 DEF WholeChunks
<1> HIDE DEF B, S
<1>3. k < B => k * S < B * S
  BY <1>1, <1>2
<1>4. k = B
  BY <1>1, <1>2, <1>3
<1> QED
  BY <1>1, <1>2, <1>4 DEF B

LEMMA LoopWritesFile ==
  ASSUME NEW cfg, NEW rr, NEW cc, NEW w, NEW done, NEW k, NEW cells \in Seq(Nat),
         NEW tag, ValidConfig(cfg), Permuted(cfg, rr, cc), WholeChunks(cfg, w, done, k),
         ~(done < cfg.file), WrittenUpTo(cfg, rr, cc, w, done, cells, tag)
  PROVE  WrittenBy(cells, cfg, tag)
<1> DEFINE R == cfg.rows  C == cfg.cols  S == cfg.block  B == R * C  file == cfg.file
<1>1. /\ R \in Nat /\ R > 0 /\ C \in Nat /\ C > 0 /\ S \in Nat /\ S > 0
      /\ B \in Nat /\ B > 0 /\ file \in Nat /\ file = B * S
  BY DEF ValidConfig
<1>2. k = B /\ done = file
  BY LoopEnds
<1>3. CASE cfg.random
  <2>1. \A r \in 0 .. R - 1, c \in 0 .. C - 1 : Passed(w, r, c, R)
    <3>1. OnWalk(w, B, R, C)
      BY <1>2, <1>3 DEF WholeChunks
    <3> QED
      BY <1>1, <3>1, WholeWalk
  <2>2. ASSUME NEW b \in 0 .. B - 1 PROVE Holds(cells, b * S, S, tag)
    <3>1. PICK r \in 0 .. R - 1, c \in 0 .. C - 1 : rr[r] * C + cc[c] = b
      <4>1. /\ R \in Nat /\ C \in Nat /\ C > 0 /\ b \in 0 .. R * C - 1
            /\ IsPermutation(rr, R) /\ IsPermutation(cc, C)
        BY <1>1 DEF Permuted
      <4> HIDE DEF R, C
      <4> QED
        BY ONLY <4>1, EveryBlockNamed
    <3>2. Holds(cells, (rr[r] * C + cc[c]) * S, S, tag)
      BY <1>3, <2>1, <3>1 DEF WrittenUpTo
    <3> QED
      BY <3>1, <3>2
  <2>3. ASSUME NEW b \in 0 .. B - 1
        PROVE  b * S + S <= Len(cells) /\ \A u \in b * S + 1 .. b * S + S : cells[u] = tag
    BY <2>2, <2>3 DEF Holds
  <2>4. Len(cells) >= file
    <3>1. B - 1 \in 0 .. B - 1
      BY <1>1
    <3>2. (B - 1) * S + S <= Len(cells)
      BY <2>3, <3>1
    <3>3. (B - 1) * S + S = B * S
      <4> HIDE DEF B, S
      <4> QED
        BY <1>1
    <3> QED
      BY <1>1, <3>2, <3>3
  <2>5. ASSUME NEW u \in 1 .. file PROVE cells[u] = tag
    <3> DEFINE b == (u - 1) \div S
    <3>1. b \in 0 .. B - 1 /\ u \in b * S + 1 .. b * S + S
      <4>1. u - 1 \in 0 .. B * S - 1
        BY <1>1
      <4> HIDE DEF B, S, file
      <4>2. /\ (u - 1) \div S \in 0 .. B - 1 /\ (u - 1) % S \in 0 .. S - 1
            /\ u - 1 = ((u - 1) \div S) * S + ((u - 1) % S)
        BY <1>1, <4>1, MatrixSurjective
      <4>3. b * S \in Nat
        BY <1>1, <4>2
      <4> HIDE DEF b
      <4>4. u - 1 = b * S + ((u - 1) % S)
        BY <4>2 DEF b
      <4>5. b \in 0 .. B - 1
        BY <4>2 DEF b
      <4>6. u - 1 \in Int /\ u = (u - 1) + 1
        BY <1>1
      <4> QED
        BY <1>1, <4>2, <4>3, <4>4, <4>5, <4>6
    <3> HIDE DEF b
    <3> QED
      BY <2>3, <3>1
  <2> QED
    BY <2>4, <2>5 DEF WrittenBy
<1>4. CASE ~cfg.random
  <2>1. Holds(cells, 0, file, tag)
    BY <1>2, <1>4 DEF WrittenUpTo
  <2> QED
    BY <1>1, <2>1 DEF Holds, WrittenBy
<1> QED
  BY <1>3, <1>4

-----------------------------------------------------------------------------
(* Sums of equal terms: what a fold over a set computes is not an          *)
(* induction the provers can do, but it has a smallest counterexample.     *)

\* A set of numbers has a smallest one.
LEMMA SmallestNumber ==
  ASSUME NEW T, T \subseteq Nat, T # {}
  PROVE  \E m \in T : \A n \in T : ~(n < m)
<1>1. \E m \in T : \A n \in T : ~(<<n, m>> \in OpToRel(<, Nat))
  BY NatLessThanWellFounded, WFMin
<1> QED
  BY <1>1 DEF OpToRel

\* The fold adds v once for each member of S.
LEMMA SumOfEqualTerms ==
  ASSUME NEW S, IsFiniteSet(S), NEW v \in Nat, NEW sum,
         sum[{}] = 0,
         \A s \in SUBSET S : s # {} => \E x \in s : sum[s] = v + sum[s \ {x}]
  PROVE  sum[S] = v * Cardinality(S)
<1> DEFINE T == {n \in Nat : \E s \in SUBSET S : Cardinality(s) = n /\ sum[s] # v * n}
<1>1. ASSUME T # {} PROVE FALSE
  <2>1. PICK m \in T : \A n \in T : ~(n < m)
    BY <1>1, SmallestNumber
  <2>2. PICK s \in SUBSET S : Cardinality(s) = m /\ sum[s] # v * m
    BY <2>1
  <2>3. IsFiniteSet(s) /\ m \in Nat
    BY <2>1, <2>2, FS_Subset
  <2>4. CASE s = {}
    BY <2>2, <2>4, FS_EmptySet
  <2>5. CASE s # {}
    <3>1. PICK x \in s : sum[s] = v + sum[s \ {x}]
      BY <2>5
    <3>2. Cardinality(s \ {x}) = m - 1
      BY <2>2, <2>3, <3>1, FS_RemoveElement
    <3>3. m - 1 \in Nat
      BY <2>3, <3>1, <3>2, FS_RemoveElement, FS_CardinalityType
    <3>4. m - 1 \notin T
      BY <2>1, <2>3, <3>3
    <3>5. sum[s \ {x}] = v * (m - 1)
      BY <3>2, <3>3, <3>4
    <3>6. v + v * (m - 1) = v * m
      BY <2>3
    <3> QED
      BY <2>2, <3>1, <3>5, <3>6
  <2> QED
    BY <2>4, <2>5
<1> QED
  BY <1>1, FS_CardinalityType
=============================================================================
