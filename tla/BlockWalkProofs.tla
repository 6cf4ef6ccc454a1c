--------------------------- MODULE BlockWalkProofs ---------------------------
(***************************************************************************)
(* The index arrays and the walk over them, for arrays of any length and   *)
(* files of any number of blocks.                                          *)
(*                                                                         *)
(* The shuffle: a swap keeps a permutation, so that no call ever leaves    *)
(* anything else behind; no call writes behind the prefix it was asked     *)
(* for; and the swaps of a call implement AbstractPermutations, where a    *)
(* call is one step.                                                       *)
(*                                                                         *)
(* The walk over what the calls have left: a pass names every block of the *)
(* file exactly once and reads only elements the last call wrote.  The     *)
(* place (row, col) lies on the diagonal row_start, that is (row - col)    *)
(* modulo rows equals row_start.  The pairs visited are the diagonals      *)
(* below row_start and the part of that diagonal left of col, so the next  *)
(* pair is new, and after the last diagonal every pair has been visited.   *)
(* The arrays are permutations and a pair determines its block, so the     *)
(* same holds of the blocks.                                               *)
(***************************************************************************)
EXTENDS MCRandomPermutations, BlockWalk, PerfGeometryProofs

-----------------------------------------------------------------------------
(* The shuffle.                                                            *)

-----------------------------------------------------------------------------
\* The ranges as the provers need them, with the widths of the element types
\* left symbolic.
LEMMA ElementRanges ==
  /\ UINT8_SIZE \in Nat /\ UINT16_SIZE \in Nat
  /\ RANDOM_ROW_RANGE \in Nat /\ 0 < RANDOM_ROW_RANGE
  /\ RANDOM_ROW_RANGE <= UINT8_SIZE
  /\ RANDOM_COL_RANGE \in Nat /\ 0 < RANDOM_COL_RANGE
  /\ RANDOM_COL_RANGE <= UINT16_SIZE
<1>1. UINT8_SIZE \in Nat /\ UINT16_SIZE \in Nat
  BY DEF UINT8_SIZE, UINT16_SIZE
<1> QED
  BY <1>1, RangesAssumption

\* A swap of two of the first n elements keeps a permutation of 0..n-1: one
\* step of the Fisher-Yates loops of RandomPermutationsInitialize.
LEMMA SwapKeepsPermutation ==
  ASSUME NEW S, NEW f, NEW T, f \in [S -> T],
         NEW n \in Nat, 0 .. n-1 \subseteq S,
         NEW a \in 0 .. n-1, NEW b \in 0 .. n-1,
         IsPermutation(f, n)
  PROVE  IsPermutation(Swap(f, a, b), n)
<1> DEFINE g == Swap(f, a, b)
           Other(k) == IF k = a THEN b ELSE IF k = b THEN a ELSE k
<1>1. \A k \in 0 .. n-1 : Other(k) \in 0 .. n-1 /\ Other(Other(k)) = k
  OBVIOUS
<1>2. \A k \in 0 .. n-1 : g[k] = f[Other(k)]
  BY DEF Swap
<1>3. \A k \in 0 .. n-1 : f[k] \in 0 .. n-1
  BY DEF IsPermutation
<1>4. \A k, l \in 0 .. n-1 : f[k] = f[l] => k = l
  BY DEF IsPermutation
<1>5. \A v \in 0 .. n-1 : \E k \in 0 .. n-1 : f[k] = v
  BY DEF IsPermutation
<1> HIDE DEF g, Other
<1>6. \A k \in 0 .. n-1 : g[k] \in 0 .. n-1
  BY <1>1, <1>2, <1>3
<1>7. ASSUME NEW k \in 0 .. n-1, NEW l \in 0 .. n-1, g[k] = g[l]
      PROVE  k = l
  <2>1. f[Other(k)] = f[Other(l)]
    BY <1>2, <1>7
  <2>2. Other(k) = Other(l)
    BY <1>1, <1>4, <2>1
  <2> QED
    BY <1>1, <2>2
<1>8. ASSUME NEW v \in 0 .. n-1
      PROVE  \E k \in 0 .. n-1 : g[k] = v
  <2>1. PICK k \in 0 .. n-1 : f[k] = v
    BY <1>5
  <2>2. Other(k) \in 0 .. n-1 /\ g[Other(k)] = v
    BY <1>1, <1>2, <2>1
  <2> QED
    BY <2>2
<1> QED
  BY <1>6, <1>7, <1>8 DEF IsPermutation, g

\* An array that holds k at k for all k < n is a permutation of 0..n-1.
LEMMA IdentityIsPermutation ==
  ASSUME NEW f, NEW n \in Nat, \A k \in 0 .. n-1 : f[k] = k
  PROVE  IsPermutation(f, n)
BY DEF IsPermutation

-----------------------------------------------------------------------------
\* The strengthening of ArraysArePermutations: inside a call the loop variable
\* stays in the prefix being shuffled, and both arrays hold permutations from
\* the end of the fill loops on.
ArraysPermuted == IsPermutation(randrows, M) /\ IsPermutation(randcols, N)

CallInv ==
  /\ M \in 0 .. RANDOM_ROW_RANGE
  /\ N \in 0 .. RANDOM_COL_RANGE
  /\ pc # "idle" => M > 0 /\ N > 0
  /\ pc = "rows" => i \in 0 .. M - 1
  /\ pc = "cols" => i \in 0 .. N - 1
  /\ pc \in {"rows", "cols"} => ArraysPermuted
  /\ pc = "idle" /\ M > 0 => ArraysPermuted

Inv == TypeOK /\ CallInv

LEMMA InitInv == Init => Inv
<1> SUFFICES ASSUME Init PROVE Inv
  OBVIOUS
<1>1. RowsOK
  BY ElementRanges DEF Init, RowsOK
<1>2. ColsOK
  BY ElementRanges DEF Init, ColsOK
<1>3. ControlOK /\ CallInv
  BY ElementRanges DEF Init, ControlOK, CallInv
<1> QED
  BY <1>1, <1>2, <1>3 DEF Inv, TypeOK

LEMMA CallKeepsInv ==
  ASSUME Inv, NEW b \in BLOCKS, Call(Rows(b), Cols(b))
  PROVE  Inv'
<1>1. b \in Nat /\ b > 0
  BY BlocksAssumption
<1>2. Rows(b) \in Nat /\ Rows(b) > 0
  BY <1>1, MatrixOfFile
<1>3. Cols(b) \in Nat /\ Cols(b) > 0
  BY <1>1, MatrixOfFile
<1>4. RowsOK'
  BY DEF Call, Inv, TypeOK, RowsOK
<1>5. ColsOK'
  BY DEF Call, Inv, TypeOK, ColsOK
<1>6. ControlOK' /\ CallInv'
  BY <1>2, <1>3, ElementRanges DEF Call, TooLarge, Inv, TypeOK, ControlOK, CallInv
<1> QED
  BY <1>4, <1>5, <1>6 DEF Inv, TypeOK

LEMMA FillKeepsInv == ASSUME Inv, Fill PROVE Inv'
<1>1. M \in 0 .. RANDOM_ROW_RANGE /\ N \in 0 .. RANDOM_COL_RANGE
  BY DEF Inv, CallInv
<1>2. \A k \in 0 .. M-1 : k \in RowIndex /\ k % UINT8_SIZE = k
  BY <1>1, ElementRanges DEF RowIndex
<1>3. \A k \in 0 .. N-1 : k \in ColIndex /\ k % UINT16_SIZE = k
  BY <1>1, ElementRanges DEF ColIndex
<1>4. \A k \in 0 .. M-1 : randrows'[k] = k
  BY <1>2, <1>1, ElementRanges DEF Fill
<1>5. \A k \in 0 .. N-1 : randcols'[k] = k
  BY <1>3, <1>1, ElementRanges DEF Fill
<1>6. M' = M /\ N' = N
  BY DEF Fill
<1>7. ArraysPermuted'
  BY <1>1, <1>4, <1>5, <1>6, ElementRanges, IdentityIsPermutation DEF ArraysPermuted
<1>8. RowsOK'
  <2>1. \A k \in RowIndex : k \in Nat
    BY ElementRanges DEF RowIndex
  <2>2. \A k \in RowIndex : (IF k < M THEN k % UINT8_SIZE ELSE randrows[k]) \in 0 .. UINT8_SIZE - 1
    BY <1>1, <2>1, ElementRanges DEF Inv, TypeOK, RowsOK
  <2> QED
    BY <2>2 DEF Fill, RowsOK
<1>9. ColsOK'
  <2>1. \A k \in ColIndex : k \in Nat
    BY ElementRanges DEF ColIndex
  <2>2. \A k \in ColIndex : (IF k < N THEN k % UINT16_SIZE ELSE randcols[k]) \in 0 .. UINT16_SIZE - 1
    BY <1>1, <2>1, ElementRanges DEF Inv, TypeOK, ColsOK
  <2> QED
    BY <2>2 DEF Fill, ColsOK
<1>10. ControlOK' /\ CallInv'
  BY <1>7, <1>1 DEF Fill, Inv, TypeOK, ControlOK, CallInv
<1> QED
  BY <1>8, <1>9, <1>10 DEF Inv, TypeOK

LEMMA ShuffleRowKeepsInv == ASSUME Inv, ShuffleRow PROVE Inv'
<1>1. PICK j \in 0 .. i : randrows' = Swap(randrows, i, j)
  BY DEF ShuffleRow
<1>2. M \in 0 .. RANDOM_ROW_RANGE /\ i \in 0 .. M-1 /\ i > 0 /\ ArraysPermuted
  BY DEF ShuffleRow, Inv, CallInv
<1>3. M \in Nat /\ j \in 0 .. M-1 /\ 0 .. M-1 \subseteq RowIndex
  BY <1>2, ElementRanges DEF RowIndex
<1>4. randrows \in [RowIndex -> 0 .. UINT8_SIZE - 1]
  BY DEF Inv, TypeOK, RowsOK
<1>5. IsPermutation(randrows', M)
  <2>1. IsPermutation(randrows, M)
    BY <1>2 DEF ArraysPermuted
  <2>2. i \in 0 .. M-1
    BY <1>2
  <2>3. IsPermutation(Swap(randrows, i, j), M)
    BY ONLY <1>3, <1>4, <2>1, <2>2, SwapKeepsPermutation
  <2> QED
    BY <1>1, <2>3
<1>6. RowsOK'
  BY <1>1, <1>2, <1>3, <1>4 DEF Swap, RowsOK
<1>7. ColsOK'
  BY DEF ShuffleRow, Inv, TypeOK, ColsOK
<1>8. ArraysPermuted'
  BY <1>2, <1>5 DEF ShuffleRow, ArraysPermuted
<1>9. ControlOK' /\ CallInv'
  BY <1>2, <1>3, <1>8 DEF ShuffleRow, Inv, TypeOK, ControlOK, CallInv
<1> QED
  BY <1>6, <1>7, <1>9 DEF Inv, TypeOK

LEMMA ShuffleColKeepsInv == ASSUME Inv, ShuffleCol PROVE Inv'
<1>1. PICK j \in 0 .. i : randcols' = Swap(randcols, i, j)
  BY DEF ShuffleCol
<1>2. N \in 0 .. RANDOM_COL_RANGE /\ i \in 0 .. N-1 /\ i > 0 /\ ArraysPermuted
  BY DEF ShuffleCol, Inv, CallInv
<1>3. N \in Nat /\ j \in 0 .. N-1 /\ 0 .. N-1 \subseteq ColIndex
  BY <1>2, ElementRanges DEF ColIndex
<1>4. randcols \in [ColIndex -> 0 .. UINT16_SIZE - 1]
  BY DEF Inv, TypeOK, ColsOK
<1>5. IsPermutation(randcols', N)
  <2>1. IsPermutation(randcols, N)
    BY <1>2 DEF ArraysPermuted
  <2>2. i \in 0 .. N-1
    BY <1>2
  <2>3. IsPermutation(Swap(randcols, i, j), N)
    BY ONLY <1>3, <1>4, <2>1, <2>2, SwapKeepsPermutation
  <2> QED
    BY <1>1, <2>3
<1>6. ColsOK'
  BY <1>1, <1>2, <1>3, <1>4 DEF Swap, ColsOK
<1>7. RowsOK'
  BY DEF ShuffleCol, Inv, TypeOK, RowsOK
<1>8. ArraysPermuted'
  BY <1>2, <1>5 DEF ShuffleCol, ArraysPermuted
<1>9. ControlOK' /\ CallInv'
  BY <1>2, <1>3, <1>8 DEF ShuffleCol, Inv, TypeOK, ControlOK, CallInv
<1> QED
  BY <1>6, <1>7, <1>9 DEF Inv, TypeOK

LEMMA StepInv == Inv /\ [Next]_vars => Inv'
<1> SUFFICES ASSUME Inv, [Next]_vars PROVE Inv'
  OBVIOUS
<1>1. ASSUME NEW b \in BLOCKS, Call(Rows(b), Cols(b)) PROVE Inv'
  BY <1>1, CallKeepsInv
<1>2. CASE RowsDone \/ ColsDone \/ UNCHANGED vars
  <2>1. UNCHANGED <<randrows, randcols, M, N>>
    BY <1>2 DEF RowsDone, ColsDone, vars
  <2>2. RowsOK'
    BY <2>1 DEF Inv, TypeOK, RowsOK
  <2>3. ColsOK'
    BY <2>1 DEF Inv, TypeOK, ColsOK
  <2>4. ArraysPermuted' <=> ArraysPermuted
    BY <2>1 DEF ArraysPermuted
  <2>5. ControlOK' /\ CallInv'
    BY <1>2, <2>4, ElementRanges
       DEF RowsDone, ColsDone, vars, Inv, TypeOK, ControlOK, CallInv
  <2> QED
    BY <2>2, <2>3, <2>5 DEF Inv, TypeOK
<1> QED
  BY <1>1, <1>2, FillKeepsInv, ShuffleRowKeepsInv, ShuffleColKeepsInv
     DEF Next, Step, CallTooLarge

LEMMA Invariance == Spec => []Inv
BY InitInv, StepInv, PTL DEF Spec

-----------------------------------------------------------------------------
\* The arrays keep their types: no index outside them is written, and every
\* element fits the uint8_t or uint16_t it is stored in.
THEOREM TypeCorrect == Spec => []TypeOK
<1>1. Inv => TypeOK
  BY DEF Inv
<1> QED
  BY <1>1, Invariance, PTL

\* Between calls the arrays hold permutations of the rows and columns of the
\* last accepted call, whatever numbers sys_rand32_get returns.
THEOREM PermutationsKept == Spec => []ArraysArePermutations
<1>1. Inv => ArraysArePermutations
  BY DEF Inv, CallInv, ArraysPermuted, ArraysArePermutations
<1> QED
  BY <1>1, Invariance, PTL

\* No step of a call touches an element behind the prefix of the call.
RestKept ==
  /\ \A k \in RowIndex : k >= M' => randrows'[k] = randrows[k]
  /\ \A k \in ColIndex : k >= N' => randcols'[k] = randcols[k]

LEMMA StepKeepsRest == ASSUME Inv, [Next]_vars PROVE RestKept
<1>1. ASSUME NEW b \in BLOCKS, Call(Rows(b), Cols(b)) PROVE RestKept
  BY <1>1 DEF Call, RestKept
<1>2. CASE Fill
  <2>1. M' = M /\ N' = N /\ M \in Nat /\ N \in Nat
    BY <1>2 DEF Fill, Inv, TypeOK, ControlOK
  <2>2. \A k \in RowIndex : k >= M => randrows'[k] = randrows[k]
    BY <1>2, <2>1, ElementRanges DEF Fill, RowIndex
  <2>3. \A k \in ColIndex : k >= N => randcols'[k] = randcols[k]
    BY <1>2, <2>1, ElementRanges DEF Fill, ColIndex
  <2> QED
    BY <2>1, <2>2, <2>3 DEF RestKept
<1>3. CASE ShuffleRow
  <2>1. PICK j \in 0 .. i : randrows' = Swap(randrows, i, j)
    BY <1>3 DEF ShuffleRow
  <2>2. i < M /\ M' = M /\ i \in Nat /\ M \in Nat
    BY <1>3 DEF ShuffleRow, Inv, CallInv, TypeOK, ControlOK
  <2>3. \A k \in RowIndex : k >= M => randrows'[k] = randrows[k]
    BY <2>1, <2>2, ElementRanges DEF Swap, Inv, TypeOK, RowsOK, RowIndex
  <2> QED
    BY <1>3, <2>2, <2>3 DEF ShuffleRow, RestKept
<1>4. CASE ShuffleCol
  <2>1. PICK j \in 0 .. i : randcols' = Swap(randcols, i, j)
    BY <1>4 DEF ShuffleCol
  <2>2. i < N /\ N' = N /\ i \in Nat /\ N \in Nat
    BY <1>4 DEF ShuffleCol, Inv, CallInv, TypeOK, ControlOK
  <2>3. \A k \in ColIndex : k >= N => randcols'[k] = randcols[k]
    BY <2>1, <2>2, ElementRanges DEF Swap, Inv, TypeOK, ColsOK, ColIndex
  <2> QED
    BY <1>4, <2>2, <2>3 DEF ShuffleCol, RestKept
<1>5. CASE RowsDone \/ ColsDone \/ UNCHANGED vars
  BY <1>5 DEF RowsDone, ColsDone, vars, RestKept
<1> QED
  BY <1>1, <1>2, <1>3, <1>4, <1>5 DEF Next, Step, CallTooLarge

\* A call changes the elements of its prefix only.
THEOREM PrefixOnly == Spec => OnlyPrefixWritten
<1>1. Inv /\ [Next]_vars => [RestKept]_vars
  BY StepKeepsRest
<1>2. Spec => [][RestKept]_vars
  BY <1>1, Invariance, PTL DEF Spec
<1> QED
  BY <1>2 DEF OnlyPrefixWritten, RestKept

-----------------------------------------------------------------------------
(* The refinement.  The history variables hold the arrays as the callers   *)
(* saw them last.  During a call they differ from the arrays in the prefix *)
(* only; when the call returns, the prefix is a permutation and the rest   *)
(* is as it was, which is the abstract step.                               *)

\* What the callers have seen, and the call under way.
LastSeen ==
  /\ lastrows \in [RowIndex -> RowIndex]
  /\ lastcols \in [ColIndex -> ColIndex]

BetweenCalls == pc = "idle" => lastrows = randrows /\ lastcols = randcols

DuringCall ==
  pc # "idle" =>
    /\ \E b \in BLOCKS : M = Rows(b) /\ N = Cols(b)
    /\ \A k \in RowIndex : k >= M => randrows[k] = lastrows[k]
    /\ \A k \in ColIndex : k >= N => randcols[k] = lastcols[k]

HistoryInv == LastSeen /\ BetweenCalls /\ DuringCall

MCInv == Inv /\ HistoryInv

LEMMA HistoryInit == MCInit => HistoryInv
BY ElementRanges DEF MCInit, Init, HistoryInv, LastSeen, BetweenCalls, DuringCall, RowIndex, ColIndex

\* A permutation of the prefix over a rest of indices is an array of indices.
LEMMA PermutationOfIndices ==
  ASSUME NEW R \in Nat, NEW n \in 0 .. R, NEW T,
         NEW f \in [0 .. R-1 -> T], NEW g \in [0 .. R-1 -> 0 .. R-1],
         IsPermutation(f, n),
         \A k \in 0 .. R-1 : k >= n => f[k] = g[k]
  PROVE  f \in Shuffles(g, n)
<1>1. \A k \in 0 .. R-1 : f[k] \in 0 .. R-1
  <2> SUFFICES ASSUME NEW k \in 0 .. R-1 PROVE f[k] \in 0 .. R-1
    OBVIOUS
  <2>1. CASE k < n
    <3>1. f[k] \in 0 .. n-1
      BY <2>1 DEF IsPermutation
    <3> QED
      BY <3>1
  <2>2. CASE k >= n
    BY <2>2
  <2> QED
    BY <2>1, <2>2
<1>2. DOMAIN g = 0 .. R-1
  OBVIOUS
<1>3. f \in [DOMAIN g -> DOMAIN g]
  BY <1>1, <1>2
<1> QED
  BY <1>2, <1>3 DEF Shuffles

\* The arrays at the end of a call are shuffles of those before it.
LEMMA CallShuffles ==
  ASSUME MCInv, ColsDone
  PROVE  /\ randrows \in Shuffles(lastrows, M)
         /\ randcols \in Shuffles(lastcols, N)
         /\ \E b \in BLOCKS : M = Rows(b) /\ N = Cols(b)
<1>1. /\ M \in 0 .. RANDOM_ROW_RANGE /\ N \in 0 .. RANDOM_COL_RANGE
      /\ IsPermutation(randrows, M) /\ IsPermutation(randcols, N)
  BY DEF ColsDone, MCInv, Inv, CallInv, ArraysPermuted
<1>2. /\ randrows \in [0 .. RANDOM_ROW_RANGE - 1 -> 0 .. UINT8_SIZE - 1]
      /\ lastrows \in [0 .. RANDOM_ROW_RANGE - 1 -> 0 .. RANDOM_ROW_RANGE - 1]
      /\ \A k \in 0 .. RANDOM_ROW_RANGE - 1 : k >= M => randrows[k] = lastrows[k]
  BY DEF ColsDone, MCInv, Inv, TypeOK, RowsOK, HistoryInv, LastSeen, DuringCall, RowIndex
<1>3. /\ randcols \in [0 .. RANDOM_COL_RANGE - 1 -> 0 .. UINT16_SIZE - 1]
      /\ lastcols \in [0 .. RANDOM_COL_RANGE - 1 -> 0 .. RANDOM_COL_RANGE - 1]
      /\ \A k \in 0 .. RANDOM_COL_RANGE - 1 : k >= N => randcols[k] = lastcols[k]
  BY DEF ColsDone, MCInv, Inv, TypeOK, ColsOK, HistoryInv, LastSeen, DuringCall, ColIndex
<1>4. RANDOM_ROW_RANGE \in Nat /\ RANDOM_COL_RANGE \in Nat
  BY ElementRanges
<1>5. randrows \in Shuffles(lastrows, M)
  BY ONLY <1>1, <1>2, <1>4, PermutationOfIndices
<1>6. randcols \in Shuffles(lastcols, N)
  BY ONLY <1>1, <1>3, <1>4, PermutationOfIndices
<1>7. \E b \in BLOCKS : M = Rows(b) /\ N = Cols(b)
  BY DEF ColsDone, MCInv, HistoryInv, DuringCall
<1> QED
  BY <1>5, <1>6, <1>7

LEMMA ShuffledIndices ==
  ASSUME NEW S, NEW g \in [S -> S], NEW n, NEW f \in Shuffles(g, n)
  PROVE  f \in [S -> S]
BY DEF Shuffles

LEMMA HistoryStep == MCInv /\ [MCNext]_mcvars => HistoryInv'
<1> SUFFICES ASSUME MCInv, [MCNext]_mcvars PROVE HistoryInv'
  OBVIOUS
<1>1. CASE UNCHANGED mcvars
  BY <1>1 DEF mcvars, vars, MCInv, HistoryInv, LastSeen, BetweenCalls, DuringCall
<1>2. CASE MCNext
  <2>1. RestKept
    BY <1>2, StepKeepsRest DEF MCNext, MCInv
  <2>2. /\ Next
        /\ lastrows' = IF pc' = "idle" THEN randrows' ELSE lastrows
        /\ lastcols' = IF pc' = "idle" THEN randcols' ELSE lastcols
    BY <1>2 DEF MCNext
  <2>3. ASSUME NEW b \in BLOCKS, Call(Rows(b), Cols(b)) PROVE HistoryInv'
    BY <2>2, <2>3 DEF Call, MCInv, HistoryInv, LastSeen, BetweenCalls, DuringCall
  <2>4. CASE UNCHANGED vars
    BY <2>2, <2>4 DEF vars, MCInv, HistoryInv, LastSeen, BetweenCalls, DuringCall
  <2>5. CASE ColsDone
    <3>1. pc' = "idle" /\ UNCHANGED <<randrows, randcols>>
      BY <2>5 DEF ColsDone
    <3>2. randrows \in [RowIndex -> RowIndex] /\ randcols \in [ColIndex -> ColIndex]
      BY <2>5, CallShuffles, ShuffledIndices DEF MCInv, HistoryInv, LastSeen
    <3> QED
      BY <2>2, <3>1, <3>2 DEF HistoryInv, LastSeen, BetweenCalls, DuringCall
  <2>6. CASE Fill \/ ShuffleRow \/ RowsDone \/ ShuffleCol
    <3>1. pc # "idle" /\ pc' # "idle" /\ M' = M /\ N' = N
      BY <2>6 DEF Fill, ShuffleRow, RowsDone, ShuffleCol
    <3>2. lastrows' = lastrows /\ lastcols' = lastcols
      BY <2>2, <3>1
    <3> QED
      BY <2>1, <3>1, <3>2
         DEF RestKept, MCInv, HistoryInv, LastSeen, BetweenCalls, DuringCall
  <2> QED
    BY <2>2, <2>3, <2>4, <2>5, <2>6 DEF Next, Step, CallTooLarge
<1> QED
  BY <1>1, <1>2

\* The mapping: initial states, and every step.
LEMMA InitMaps == MCInit => Abstract!Init
BY DEF MCInit, Init, Abstract!Init, RowIndex, ColIndex, Abstract!RowIndex, Abstract!ColIndex

LEMMA StepMaps ==
  MCInv /\ [MCNext]_mcvars => [Abstract!Next]_<<lastrows, lastcols>>
<1> SUFFICES ASSUME MCInv, [MCNext]_mcvars
             PROVE  Abstract!Next \/ UNCHANGED <<lastrows, lastcols>>
  OBVIOUS
<1>1. CASE UNCHANGED mcvars
  BY <1>1 DEF mcvars
<1>2. CASE MCNext /\ pc' # "idle"
  BY <1>2 DEF MCNext
<1>3. CASE MCNext /\ ColsDone
  <2>1. lastrows' = randrows /\ lastcols' = randcols
    BY <1>3 DEF MCNext, ColsDone
  <2>2. PICK b \in BLOCKS : M = Rows(b) /\ N = Cols(b)
    BY <1>3, CallShuffles
  <2>3. M <= RANDOM_ROW_RANGE
    BY ElementRanges DEF MCInv, Inv, CallInv
  <2>4. /\ lastrows' \in Shuffles(lastrows, Rows(b))
        /\ lastcols' \in Shuffles(lastcols, Cols(b))
    BY <1>3, <2>1, <2>2, CallShuffles
  <2>5. Abstract!Initialize(b)
    BY <2>2, <2>3, <2>4
       DEF Abstract!Initialize, Abstract!Rows, Abstract!Cols, Abstract!Shuffles,
           Abstract!IsPermutation, Rows, Cols, Shuffles, IsPermutation
  <2> QED
    BY <2>5 DEF Abstract!Next
<1>4. CASE MCNext /\ UNCHANGED vars
  BY <1>4 DEF MCNext, vars, MCInv, HistoryInv, BetweenCalls
<1>5. MCNext => pc' # "idle" \/ ColsDone \/ UNCHANGED vars
  BY DEF MCNext, Next, Step, Call, CallTooLarge, Fill, ShuffleRow, RowsDone, ShuffleCol,
         MCInv, Inv
<1> QED
  BY <1>1, <1>2, <1>3, <1>4, <1>5

\* RandomPermutationsInitialize implements its atomic specification: whatever
\* happens inside a call, its callers see the arrays change in one step.
THEOREM CallsAreAtomic == MCSpec => CallIsAtomic
<1>1. MCInit => MCInv
  BY InitInv, HistoryInit DEF MCInit, MCInv
<1>2. MCInv /\ [MCNext]_mcvars => MCInv'
  <2>1. [MCNext]_mcvars => [Next]_vars
    BY DEF MCNext, mcvars
  <2> QED
    BY <2>1, StepInv, HistoryStep DEF MCInv
<1>3. MCSpec => Abstract!Spec
  BY <1>1, <1>2, InitMaps, StepMaps, PTL DEF MCSpec, Abstract!Spec
<1> QED
  BY <1>3 DEF CallIsAtomic

-----------------------------------------------------------------------------
(* The walk.                                                               *)

LEMMA MatrixOfBlocks ==
  ASSUME PassOK, WalkInv
  PROVE  /\ rows \in Nat /\ rows > 0
         /\ cols \in Nat /\ cols > 0
         /\ blocks \in Nat /\ rows * cols = blocks
<1>1. blocks \in Nat \ {0} /\ Accepted(blocks)
  BY DEF PassOK, WalkInv
<1> QED
  BY <1>1, MatrixOfFile DEF Accepted, rows, cols

\* While units are left, the walk is at a row and a column of the matrix, on
\* the diagonal row_start.
LEMMA InsideMatrix ==
  ASSUME PassOK, WalkInv, total < blocks
  PROVE  /\ at.row_start \in 0 .. rows - 1
         /\ at.row \in 0 .. rows - 1
         /\ at.col \in 0 .. cols - 1
         /\ Diagonal(at.row, at.col) = at.row_start
<1>1. OnWalk(at, total, rows, cols) /\ total \in Nat /\ total < rows * cols
  BY MatrixOfBlocks DEF WalkInv, OnWalk, Diagonal, PassOK
<1> QED
  BY <1>1, MatrixOfBlocks, InsideWalk DEF Diagonal

\* Two pairs that name the same block are the same pair.
LEMMA PairOfBlock ==
  ASSUME PassOK, WalkInv,
         NEW r \in 0 .. rows - 1, NEW c \in 0 .. cols - 1,
         NEW s \in 0 .. rows - 1, NEW d \in 0 .. cols - 1,
         randrows[r] * cols + randcols[c] = randrows[s] * cols + randcols[d]
  PROVE  r = s /\ c = d
<1>1. /\ \A k \in 0 .. rows - 1 : randrows[k] \in 0 .. rows - 1
      /\ \A k, l \in 0 .. rows - 1 : randrows[k] = randrows[l] => k = l
  BY PermutationFacts DEF WalkInv
<1>2. /\ \A k \in 0 .. cols - 1 : randcols[k] \in 0 .. cols - 1
      /\ \A k, l \in 0 .. cols - 1 : randcols[k] = randcols[l] => k = l
  BY PermutationFacts DEF WalkInv
<1>3. /\ randrows[r] \in Nat /\ randrows[s] \in Nat
      /\ randcols[c] \in 0 .. cols - 1 /\ randcols[d] \in 0 .. cols - 1
  BY <1>1, <1>2, MatrixOfBlocks
<1>4. randrows[r] = randrows[s] /\ randcols[c] = randcols[d]
  <2> DEFINE a == randrows[r]  b == randrows[s]  e == randcols[c]  f == randcols[d]
  <2>1. /\ a \in Nat /\ b \in Nat /\ cols \in Nat
        /\ e \in 0 .. cols - 1 /\ f \in 0 .. cols - 1
        /\ a*cols + e = b*cols + f
    BY <1>3, MatrixOfBlocks
  <2> HIDE DEF a, b, e, f
  <2>2. a = b /\ e = f
    BY <2>1, MatrixInjective
  <2> QED
    BY <2>2 DEF a, b, e, f
<1> QED
  BY <1>1, <1>2, <1>4

\* The next block is new: its pair is not among those visited.
LEMMA NextBlockIsNew ==
  ASSUME PassOK, WalkInv, total < blocks
  PROVE  Block \notin visited
<1> SUFFICES ASSUME Block \in visited PROVE FALSE
  OBVIOUS
<1>1. PICK p \in VisitedPart : Block = randrows[p[1]] * cols + randcols[p[2]]
  BY DEF WalkInv
<1>2. /\ p[1] \in 0 .. rows - 1 /\ p[2] \in 0 .. cols - 1
      /\ \/ Diagonal(p[1], p[2]) < at.row_start
         \/ Diagonal(p[1], p[2]) = at.row_start /\ p[2] < at.col
  BY DEF VisitedPart
<1>3. /\ at.row \in 0 .. rows - 1 /\ at.col \in 0 .. cols - 1
      /\ at.row_start \in Int
      /\ Diagonal(at.row, at.col) = at.row_start
  BY InsideMatrix, MatrixOfBlocks
<1>4. randrows[at.row] * cols + randcols[at.col] = randrows[p[1]] * cols + randcols[p[2]]
  BY <1>1 DEF Block, RandomPermutationsGet
<1>5. at.row = p[1] /\ at.col = p[2]
  BY <1>2, <1>3, <1>4, PairOfBlock
<1> QED
  BY <1>2, <1>3, <1>5, MatrixOfBlocks

\* A whole pass has named every block: a block is named by some pair, and every
\* pair is on a diagonal.
LEMMA WholePassCovers ==
  ASSUME PassOK, WalkInv, total = blocks
  PROVE  visited = 0 .. blocks - 1
<1>1. /\ at.col \in 0 .. cols - 1 /\ at.row_start \in 0 .. rows
      /\ at.row_start * cols + at.col = rows * cols
  BY MatrixOfBlocks DEF WalkInv
<1>2. at.row_start = rows
  BY <1>1, MatrixOfBlocks, WalkPosition
<1>3. VisitedPart = (0 .. rows - 1) \X (0 .. cols - 1)
  <2>1. \A r \in 0 .. rows - 1, c \in 0 .. cols - 1 : Diagonal(r, c) < rows
    BY MatrixOfBlocks, Division DEF Diagonal
  <2> QED
    BY <1>2, <2>1 DEF VisitedPart
<1>4. \A r \in 0 .. rows - 1, c \in 0 .. cols - 1 :
        randrows[r] * cols + randcols[c] \in visited
  <2> TAKE r \in 0 .. rows - 1, c \in 0 .. cols - 1
  <2>1. <<r, c>> \in VisitedPart
    BY <1>3
  <2> QED
    BY <2>1 DEF WalkInv
<1>5. ASSUME NEW k \in 0 .. blocks - 1
      PROVE  k \in visited
  <2>1. k \div cols \in 0 .. rows - 1 /\ k % cols \in 0 .. cols - 1
        /\ k = (k \div cols) * cols + (k % cols)
    BY MatrixOfBlocks, MatrixSurjective
  <2>2. PICK r \in 0 .. rows - 1 : randrows[r] = k \div cols
    BY <2>1, PermutationFacts DEF WalkInv
  <2>3. PICK c \in 0 .. cols - 1 : randcols[c] = k % cols
    BY <2>1, PermutationFacts DEF WalkInv
  <2>4. randrows[r] * cols + randcols[c] = k
    BY <2>1, <2>2, <2>3
  <2> QED
    BY <1>4, <2>4
<1>6. ASSUME NEW v \in visited
      PROVE  v \in 0 .. blocks - 1
  <2>1. PICK p \in VisitedPart : v = randrows[p[1]] * cols + randcols[p[2]]
    BY DEF WalkInv
  <2>2. p[1] \in 0 .. rows - 1 /\ p[2] \in 0 .. cols - 1
    BY DEF VisitedPart
  <2>3. randrows[p[1]] \in 0 .. rows - 1 /\ randcols[p[2]] \in 0 .. cols - 1
    BY <2>2, PermutationFacts DEF WalkInv
  <2> QED
    BY <2>1, <2>3, MatrixOfBlocks, MatrixBounds
<1>7. visited \subseteq 0 .. blocks - 1 /\ 0 .. blocks - 1 \subseteq visited
  BY <1>5, <1>6
<1> QED
  BY <1>7, Zenon

\* The three properties the runs check follow from the invariant.
LEMMA InvariantImplies ==
  IInv => PassOK /\ ReadsShuffledElements /\ NoBlockTwice /\ PassCoversFile
<1>1. ASSUME IInv, phase = "walk", total < blocks
      PROVE  at.row < rows /\ at.col < cols
  BY <1>1, InsideMatrix, MatrixOfBlocks DEF IInv
<1>2. ASSUME IInv, phase = "walk", total < blocks
      PROVE  Block \notin visited
  BY <1>2, NextBlockIsNew DEF IInv
<1>3. ASSUME IInv, phase = "walk", total = blocks
      PROVE  visited = 0 .. blocks - 1
  BY <1>3, WholePassCovers DEF IInv
<1> QED
  BY <1>1, <1>2, <1>3 DEF IInv, ReadsShuffledElements, NoBlockTwice, PassCoversFile

-----------------------------------------------------------------------------
(* The invariant is inductive.                                             *)

\* One step of the walk adds exactly the pair it was at.
LEMMA TransferKeepsInv ==
  ASSUME PassOK, WalkInv, Transfer
  PROVE  PassOK' /\ WalkInv'
<1>1. total < blocks /\ blocks' = blocks /\ rows' = rows /\ cols' = cols
  BY DEF Transfer, rows, cols
<1>2. /\ at.row_start \in 0 .. rows - 1 /\ at.row \in 0 .. rows - 1
      /\ at.col \in 0 .. cols - 1
      /\ Diagonal(at.row, at.col) = at.row_start
  BY <1>1, InsideMatrix
<1>3. rows \in Nat /\ rows > 0 /\ cols \in Nat /\ cols > 0
  BY MatrixOfBlocks
<1>4. OnWalk(at, total, rows, cols) /\ total \in Nat /\ total < rows * cols
  BY <1>1, MatrixOfBlocks DEF WalkInv, OnWalk, Diagonal, PassOK
<1>5. at' = WalkNext(at, rows, cols) /\ total' = total + 1
  BY DEF Transfer
<1>6. /\ OnWalk(at', total', rows, cols)
      /\ at' \in [row : Nat, row_start : Nat, col : Nat]
      /\ \A r \in 0 .. rows - 1, k \in 0 .. cols - 1 :
           Passed(at', r, k, rows) <=> Passed(at, r, k, rows) \/ (r = at.row /\ k = at.col)
  BY <1>3, <1>4, <1>5, NextOnWalk
<1>8. VisitedPart' = VisitedPart \union {<<at.row, at.col>>}
  <2>1. /\ VisitedPart' = {p \in (0 .. rows - 1) \X (0 .. cols - 1) :
                             Passed(at', p[1], p[2], rows)}
        /\ VisitedPart = {p \in (0 .. rows - 1) \X (0 .. cols - 1) :
                            Passed(at, p[1], p[2], rows)}
    BY <1>1 DEF VisitedPart, Diagonal, Passed
  <2>2. \A r \in 0 .. rows - 1, k \in 0 .. cols - 1 :
          <<r, k>> \in VisitedPart' <=>
            <<r, k>> \in VisitedPart \union {<<at.row, at.col>>}
    <3> TAKE r \in 0 .. rows - 1, k \in 0 .. cols - 1
    <3>1. <<r, k>> \in VisitedPart' <=>
            <<r, k>> \in VisitedPart \/ (r = at.row /\ k = at.col)
      BY <1>6, <2>1
    <3>2. <<r, k>> = <<at.row, at.col>> <=> r = at.row /\ k = at.col
      OBVIOUS
    <3> QED
      BY <3>1, <3>2, Zenon
  <2>3. /\ VisitedPart' \subseteq (0 .. rows - 1) \X (0 .. cols - 1)
        /\ VisitedPart \subseteq (0 .. rows - 1) \X (0 .. cols - 1)
    BY <2>1
  <2> QED
    BY <1>2, <2>2, <2>3
<1>9. visited' = {randrows'[p[1]] * cols' + randcols'[p[2]] : p \in VisitedPart'}
  <2>1. visited' = visited \union {randrows[at.row] * cols + randcols[at.col]}
    BY DEF Transfer, Block, RandomPermutationsGet
  <2>2. visited = {randrows[p[1]] * cols + randcols[p[2]] : p \in VisitedPart}
    BY DEF WalkInv
  <2>3. randrows' = randrows /\ randcols' = randcols
    BY DEF Transfer, vars
  <2> DEFINE F(p) == randrows[p[1]] * cols + randcols[p[2]]
             V == VisitedPart  W == VisitedPart'  here == <<at.row, at.col>>
  <2>4. F(here) = randrows[at.row] * cols + randcols[at.col]
    OBVIOUS
  <2>5. visited = {F(p) : p \in V} /\ W = V \union {here}
        /\ visited' = visited \union {F(here)}
    BY <1>8, <2>1, <2>2, <2>4
  <2> HIDE DEF F, V, W, here
  <2>6. visited' = {F(p) : p \in W}
    BY <2>5, Zenon
  <2> QED
    BY <1>1, <2>3, <2>6 DEF F, W
<1>10. WalkInv'
  <2>1. Accepted(blocks)' /\ IsPermutation(randrows, rows)' /\ IsPermutation(randcols, cols)'
    BY <1>1 DEF WalkInv, Transfer, vars
  <2>2. Diagonal(at.row, at.col)' = Diagonal(at'.row, at'.col)
    BY <1>1 DEF Diagonal
  <2> QED
    BY <1>1, <1>6, <1>9, <2>1, <2>2 DEF WalkInv, OnWalk, Diagonal
<1>11. PassOK'
  <2>1. Block \in Nat
    <3>1. randrows[at.row] \in 0 .. rows - 1 /\ randcols[at.col] \in 0 .. cols - 1
      BY <1>2, PermutationFacts DEF WalkInv
    <3> QED
      BY <1>3, <3>1 DEF Block, RandomPermutationsGet
  <2> QED
    BY <1>3, <1>6, <2>1 DEF Transfer, PassOK
<1> QED
  BY <1>10, <1>11

\* At the start of a pass nothing has been visited, and the walk is at the
\* corner of the matrix.
LEMMA BeginPassInv ==
  ASSUME BeginPass,
         blocks' \in Nat \ {0}, Accepted(blocks'),
         IsPermutation(randrows', Rows(blocks')),
         IsPermutation(randcols', Cols(blocks'))
  PROVE  WalkInv' /\ at' \in [row : Nat, row_start : Nat, col : Nat]
                  /\ total' \in Nat /\ visited' \subseteq Nat
<1> DEFINE R == Rows(blocks')  C == Cols(blocks')
<1>1. R \in Nat /\ R > 0 /\ C \in Nat /\ C > 0
  BY MatrixOfFile
<1>2. rows' = R /\ cols' = C
  BY DEF rows, cols
<1>3. /\ at'.row = 0 /\ at'.row_start = 0 /\ at'.col = 0
      /\ at' \in [row : Nat, row_start : Nat, col : Nat]
      /\ total' = 0 /\ visited' = {}
  BY DEF BeginPass, WalkStart
<1> HIDE DEF R, C
<1>4. OnWalk(at', 0, R, C) /\ \A r \in 0 .. R-1, k \in 0 .. C-1 : ~Passed(at', r, k, R)
  BY <1>1, StartOnWalk DEF BeginPass
<1>5. VisitedPart' = {}
  BY <1>2, <1>4 DEF VisitedPart, Diagonal, Passed
<1>6. IsPermutation(randrows, rows)' /\ IsPermutation(randcols, cols)'
  BY <1>2 DEF R, C
<1>7. visited' = {randrows'[p[1]] * cols' + randcols'[p[2]] : p \in VisitedPart'}
  BY <1>3, <1>5
<1>8. WalkInv'
  BY <1>2, <1>3, <1>4, <1>6, <1>7 DEF WalkInv, OnWalk, Diagonal
<1> QED
  BY <1>3, <1>8

LEMMA ConfigureKeepsInv ==
  ASSUME IInv, NEW b \in BLOCKS, Configure(b)
  PROVE  IInv'
<1>1. b \in Nat \ {0} /\ Accepted(b) /\ blocks' = b /\ phase' = "shuffle" /\ pc' = "fill"
  BY BlocksAssumption DEF Configure, Call
<1>2. rows' = Rows(b) /\ cols' = Cols(b) /\ M' = Rows(b) /\ N' = Cols(b)
  BY <1>1 DEF rows, cols, Configure, Call
<1>3. PassOK'
  BY <1>1 DEF Configure, passvars, IInv, PassOK
<1> QED
  BY <1>1, <1>2, <1>3 DEF IInv

\* When the call returns it leaves permutations for the matrix of the file.
LEMMA ShuffleKeepsInv ==
  ASSUME IInv, Inv', Shuffle
  PROVE  IInv'
<1>1. /\ phase = "shuffle" /\ pc # "idle" /\ Accepted(blocks)
      /\ M = rows /\ N = cols /\ PassOK
  BY DEF IInv, Shuffle
<1>2. M' = M /\ N' = N /\ blocks' = blocks /\ rows' = rows /\ cols' = cols
  BY DEF Shuffle, Step, Fill, ShuffleRow, RowsDone, ShuffleCol, ColsDone, rows, cols
<1>3. CASE pc' = "idle"
  <2>1. BeginPass /\ phase' = "walk"
    BY <1>3 DEF Shuffle
  <2>2. blocks \in Nat \ {0}
    BY <1>1 DEF PassOK
  <2>3. rows > 0
    BY <2>2, MatrixOfFile DEF rows
  <2>4. IsPermutation(randrows', M') /\ IsPermutation(randcols', N')
    BY <1>1, <1>2, <1>3, <2>3 DEF Inv, CallInv, ArraysPermuted
  <2>5. /\ WalkInv' /\ at' \in [row : Nat, row_start : Nat, col : Nat]
        /\ total' \in Nat /\ visited' \subseteq Nat
    BY <1>1, <1>2, <2>1, <2>2, <2>4, BeginPassInv DEF rows, cols
  <2> QED
    BY <1>1, <1>2, <1>3, <2>1, <2>2, <2>5 DEF IInv, PassOK
<1>4. CASE pc' # "idle"
  BY <1>1, <1>2, <1>4 DEF Shuffle, passvars, IInv, PassOK
<1> QED
  BY <1>3, <1>4

LEMMA NextPassKeepsInv ==
  ASSUME IInv, NextPass
  PROVE  IInv'
<1>1. /\ phase = "walk" /\ BeginPass
      /\ UNCHANGED <<vars, blocks, phase>>
  BY DEF NextPass
<1>2. PassOK /\ WalkInv /\ rows' = rows /\ cols' = cols
  BY <1>1 DEF IInv, rows, cols
<1>3. /\ blocks' \in Nat \ {0} /\ Accepted(blocks')
      /\ IsPermutation(randrows', Rows(blocks')) /\ IsPermutation(randcols', Cols(blocks'))
  BY <1>1, <1>2 DEF PassOK, WalkInv, rows, cols, vars
<1>4. /\ WalkInv' /\ at' \in [row : Nat, row_start : Nat, col : Nat]
      /\ total' \in Nat /\ visited' \subseteq Nat
  BY <1>1, <1>3, BeginPassInv
<1> QED
  BY <1>1, <1>2, <1>4 DEF IInv, PassOK, vars

LEMMA LeaveKeepsInv ==
  ASSUME IInv, LeaveConfiguration
  PROVE  IInv'
<1>1. PassOK'
  BY DEF LeaveConfiguration, BeginPass, WalkStart, IInv, PassOK
<1> QED
  BY <1>1 DEF LeaveConfiguration, vars, IInv

LEMMA UnchangedKeepsInv ==
  IInv /\ UNCHANGED benchvars => IInv'
<1> SUFFICES ASSUME IInv, UNCHANGED benchvars PROVE IInv'
  OBVIOUS
<1>1. PassOK'
  BY DEF IInv, PassOK, benchvars, passvars
<1>2. rows' = rows /\ cols' = cols
  BY DEF rows, cols, benchvars
<1>3. VisitedPart' = VisitedPart /\ Diagonal(at.row, at.col)' = Diagonal(at.row, at.col)
  BY <1>2 DEF VisitedPart, Diagonal, benchvars, passvars
<1>4. WalkInv => WalkInv'
  BY <1>2, <1>3 DEF WalkInv, benchvars, passvars, vars
<1> QED
  BY <1>1, <1>2, <1>4 DEF IInv, benchvars, vars

LEMMA InitEstablishesInv ==
  BenchInit => IInv
<1> SUFFICES ASSUME BenchInit PROVE IInv
  OBVIOUS
<1>1. at \in [row : Nat, row_start : Nat, col : Nat]
  BY DEF BenchInit, WalkStart
<1> QED
  BY <1>1, BlocksAssumption DEF BenchInit, Init, IInv, PassOK

\* The shuffles of a benchmark are calls of the specification of the shuffle.
LEMMA BenchStepIsCall ==
  [BenchNext]_benchvars => [Next]_vars
<1> SUFFICES ASSUME [BenchNext]_benchvars PROVE [Next]_vars
  OBVIOUS
<1>1. ASSUME NEW b \in BLOCKS, Configure(b) PROVE Next
  BY <1>1 DEF Configure, Next
<1>2. CASE Shuffle
  BY <1>2 DEF Shuffle, Next
<1>3. ASSUME NEW b \in BLOCKS, Refuse(b) PROVE UNCHANGED vars
  BY <1>3 DEF Refuse, benchvars
<1>4. CASE Transfer \/ NextPass \/ LeaveConfiguration
  BY <1>4 DEF Transfer, NextPass, LeaveConfiguration
<1>5. CASE UNCHANGED benchvars
  BY <1>5 DEF benchvars
<1> QED
  BY <1>1, <1>2, <1>3, <1>4, <1>5 DEF BenchNext

LEMMA BenchStepKeepsInv ==
  IInv /\ Inv /\ [BenchNext]_benchvars => IInv' /\ Inv'
<1> SUFFICES ASSUME IInv, Inv, [BenchNext]_benchvars PROVE IInv' /\ Inv'
  OBVIOUS
<1>0. Inv'
  BY BenchStepIsCall, StepInv
<1>1. ASSUME NEW b \in BLOCKS, Configure(b) PROVE IInv'
  BY <1>1, ConfigureKeepsInv
<1>2. ASSUME NEW b \in BLOCKS, Refuse(b) PROVE IInv'
  BY <1>2, UnchangedKeepsInv DEF Refuse
<1>3. CASE Transfer
  <2>1. phase = "walk" /\ phase' = "walk" /\ PassOK /\ WalkInv
        /\ UNCHANGED <<pc, M, N, blocks>>
    BY <1>3 DEF Transfer, IInv, vars
  <2>2. rows' = rows /\ cols' = cols
    BY <2>1 DEF rows, cols
  <2> QED
    BY <1>0, <1>3, <2>1, <2>2, TransferKeepsInv DEF IInv
<1>4. CASE NextPass
  BY <1>0, <1>4, NextPassKeepsInv
<1>5. CASE LeaveConfiguration
  BY <1>0, <1>5, LeaveKeepsInv
<1>6. CASE Shuffle
  BY <1>0, <1>6, ShuffleKeepsInv
<1>7. CASE UNCHANGED benchvars
  BY <1>0, <1>7, UnchangedKeepsInv
<1> QED
  BY <1>0, <1>1, <1>2, <1>3, <1>4, <1>5, <1>6, <1>7 DEF BenchNext

-----------------------------------------------------------------------------
\* Whatever the benchmarks do between the calls, their index arrays behave as
\* those of a program that only shuffles.
THEOREM BenchImplementsCalls == BenchSpec => Spec
<1>1. BenchInit => Init
  BY DEF BenchInit
<1> QED
  BY <1>1, BenchStepIsCall, PTL DEF BenchSpec, Spec

\* The walk keeps its place: while a pass runs, the units transferred, the
\* place of the walk and the set of blocks visited agree, whatever the arrays
\* hold and however often a pass is broken off.
THEOREM WalkInvariant == BenchSpec => []IInv
<1>1. BenchInit => IInv /\ Inv
  BY InitEstablishesInv, InitInv DEF BenchInit
<1> QED
  BY <1>1, BenchStepKeepsInv, PTL DEF BenchSpec

\* test_write and test_read only read index array elements that the last
\* shuffle wrote, for arrays and files of every size main accepts.
THEOREM ReadsShuffled == BenchSpec => []ReadsShuffledElements
<1>1. IInv => ReadsShuffledElements
  BY InvariantImplies
<1> QED
  BY <1>1, WalkInvariant, PTL

\* No pass transfers a block twice.
THEOREM NoRepetition == BenchSpec => []NoBlockTwice
<1>1. IInv => NoBlockTwice
  BY InvariantImplies
<1> QED
  BY <1>1, WalkInvariant, PTL

\* A pass that is not broken off transfers every block of the file and none
\* outside it.
THEOREM Coverage == BenchSpec => []PassCoversFile
<1>1. IInv => PassCoversFile
  BY InvariantImplies
<1> QED
  BY <1>1, WalkInvariant, PTL
=============================================================================
