------------------------- MODULE RandomPermutations -------------------------
(***************************************************************************)
(* RandomPermutationsInitialize: the two arrays are set to the identity on *)
(* their first M and N elements and shuffled, one swap per step, from the  *)
(* top element down.  A call whose arguments exceed the arrays returns     *)
(* without touching them.                                                  *)
(***************************************************************************)
EXTENDS PerfGeometry

CONSTANT BLOCKS         \* the block counts the callers configure

ASSUME BlocksAssumption == BLOCKS \subseteq Nat \ {0}

VARIABLES
  randrows, randcols,   \* the two static arrays
  M, N,                 \* arguments of the current or last call
  i,                    \* loop variable of the two shuffles
  pc                    \* "idle" | "fill" | "rows" | "cols" 

vars == <<randrows, randcols, M, N, i, pc>>

RowsOK == randrows \in [RowIndex -> 0 .. UINT8_SIZE - 1]
ColsOK == randcols \in [ColIndex -> 0 .. UINT16_SIZE - 1]
ControlOK ==
  /\ M \in Nat /\ N \in Nat
  /\ i \in Int
  /\ pc \in {"idle", "fill", "rows", "cols"}

TypeOK == RowsOK /\ ColsOK /\ ControlOK

\* Static storage starts zeroed; no call has been made.
Init ==
  /\ randrows = [k \in RowIndex |-> 0]
  /\ randcols = [k \in ColIndex |-> 0]
  /\ M = 0 /\ N = 0 /\ i = 0
  /\ pc = "idle"

TooLarge(m, n) == m > RANDOM_ROW_RANGE \/ n > RANDOM_COL_RANGE

\* A call that fits enters the fill loops; any other prints and returns.
Call(m, n) ==
  /\ pc = "idle"
  /\ ~TooLarge(m, n)
  /\ M' = m /\ N' = n
  /\ pc' = "fill"
  /\ UNCHANGED <<randrows, randcols, i>>

\* Mutant of CallTooLarge: the check comes after the first fill loop.
CallTooLargeFills(m, n) ==
  /\ pc = "idle"
  /\ TooLarge(m, n)
  /\ randrows' = [k \in RowIndex |-> k % UINT8_SIZE]
  /\ UNCHANGED <<randcols, M, N, i, pc>>

CallTooLarge(m, n) ==
  /\ pc = "idle"
  /\ TooLarge(m, n)
  /\ UNCHANGED vars

\* Mutant of Fill: the loops run over the whole arrays.
FillWhole ==
  /\ pc = "fill"
  /\ randrows' = [k \in RowIndex |-> k % UINT8_SIZE]
  /\ randcols' = [k \in ColIndex |-> k % UINT16_SIZE]
  /\ i' = M - 1
  /\ pc' = "rows"
  /\ UNCHANGED <<M, N>>

Fill ==
  /\ pc = "fill"
  /\ randrows' = [k \in RowIndex |-> IF k < M THEN k % UINT8_SIZE ELSE randrows[k]]
  /\ randcols' = [k \in ColIndex |-> IF k < N THEN k % UINT16_SIZE ELSE randcols[k]]
  /\ i' = M - 1
  /\ pc' = "rows"
  /\ UNCHANGED <<M, N>>

\* Mutants of Swap: no temporary; an exchange by differences left unfinished.
SwapNoTemp(f, a, b) == [f EXCEPT ![a] = f[b]]
SwapByDifference(f, a, b) == [f EXCEPT ![a] = f[a] - f[b], ![b] = f[a]]

Swap(f, a, b) == [f EXCEPT ![a] = f[b], ![b] = f[a]]

\* One step of the row loop: j is sys_rand32_get() % (i + 1).
ShuffleRow ==
  /\ pc = "rows"
  /\ i > 0
  /\ \E j \in 0..i : randrows' = Swap(randrows, i, j)
  /\ i' = i - 1
  /\ UNCHANGED <<randcols, M, N, pc>>

RowsDone ==
  /\ pc = "rows"
  /\ i <= 0
  /\ i' = N - 1
  /\ pc' = "cols"
  /\ UNCHANGED <<randrows, randcols, M, N>>

ShuffleCol ==
  /\ pc = "cols"
  /\ i > 0
  /\ \E j \in 0..i : randcols' = Swap(randcols, i, j)
  /\ i' = i - 1
  /\ UNCHANGED <<randrows, M, N, pc>>

ColsDone ==
  /\ pc = "cols"
  /\ i <= 0
  /\ pc' = "idle"
  /\ UNCHANGED <<randrows, randcols, M, N, i>>

Step == Fill \/ ShuffleRow \/ RowsDone \/ ShuffleCol \/ ColsDone

\* The callers pass the matrix of a file of at least one block.
Next ==
  \/ \E blocks \in BLOCKS :
       \/ Call(Rows(blocks), Cols(blocks))
       \/ CallTooLarge(Rows(blocks), Cols(blocks))
  \/ Step

Spec == Init /\ [][Next]_vars

-----------------------------------------------------------------------------
\* Whenever no call is running, the arrays hold permutations of the rows and
\* the columns of the last accepted call: the walks of test_write and
\* test_read rely on it to touch every block once.
ArraysArePermutations ==
  pc = "idle" /\ M > 0 =>
    IsPermutation(randrows, M) /\ IsPermutation(randcols, N)

\* A call writes the prefix it was asked for and nothing behind it, although
\* both shuffles index the arrays with a random number.
OnlyPrefixWritten ==
  [][/\ \A k \in RowIndex : k >= M' => randrows'[k] = randrows[k]
     /\ \A k \in ColIndex : k >= N' => randcols'[k] = randcols[k]]_vars
=============================================================================
