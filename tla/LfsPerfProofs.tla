---------------------------- MODULE LfsPerfProofs ----------------------------
(***************************************************************************)
(* For any lists of file and block lengths, any volume, any number of      *)
(* iterations and of failing calls:                                        *)
(*                                                                         *)
(*   HandlesClosed      no early return leaves a file open                 *)
(*   TypeCorrect        the types                                          *)
(*   SuccessIsOnVolume  a write test that reports success has left a file  *)
(*                      every unit of which this iteration wrote           *)
(*   ReadStaysInside    the read test reads such a file to its end         *)
(*   MeansAreWhole      the means are those of whole passes                *)
(*                                                                         *)
(* All but the first share one invariant, IInv.  Its core is what a     *)
(* loop has done: the chunks counted by total are the places of the walk   *)
(* passed so far, and the handle holds this iteration's tag in all of      *)
(* them.  At the end of a loop the walk has passed every block.            *)
(***************************************************************************)
EXTENDS LfsPerf, PerfGeometryProofs

\* Where no file is open: everywhere but between an open and the close.  Only
\* "start" is added to NoHandleLeft.
HandleInv == pc \notin {"write", "sync", "wout", "read", "rout"} => ~handle.open

LEMMA InitHandle == Init => HandleInv
BY DEF Init, ChunkInit, Closed, HandleInv

LEMMA MainKeepsHandle ==
  ASSUME HandleInv,
         \/ CleanStart \/ SkipCase \/ BeginCase \/ BeginIteration
         \/ ComputeMeans \/ Finish
  PROVE  HandleInv'
<1>1. CASE CleanStart
  BY <1>1 DEF CleanStart, Goto, HandleInv
<1>2. CASE SkipCase
  BY <1>2 DEF SkipCase, chunkvars, HandleInv
<1>3. CASE BeginCase
  BY <1>3 DEF BeginCase, Goto, HandleInv
<1>4. CASE BeginIteration
  BY <1>4 DEF BeginIteration, Goto, HandleInv
<1>5. CASE ComputeMeans
  BY <1>5 DEF ComputeMeans, Goto, chunkvars, HandleInv
<1>6. CASE Finish
  BY <1>6 DEF Finish, Goto, chunkvars, HandleInv
<1> QED
  BY <1>1, <1>2, <1>3, <1>4, <1>5, <1>6

\* test_write reaches main again through its close or without an open file.
LEMMA WriteKeepsHandle ==
  ASSUME HandleInv,
         \/ WriteOpen \/ WriteOpenFails \/ WriteStep \/ WriteSeekFails
         \/ WriteStepFails \/ WriteLoopEnds \/ WriteSync \/ WriteOut
  PROVE  HandleInv'
<1>1. CASE WriteOpen
  BY <1>1 DEF WriteOpen, Goto, HandleInv
<1>2. CASE WriteOpenFails
  BY <1>2 DEF WriteOpenFails, Goto, HandleInv
<1>3. CASE WriteStep
  BY <1>3 DEF WriteStep, HandleInv
<1>4. CASE WriteSeekFails \/ WriteStepFails \/ WriteLoopEnds \/ WriteSync
  BY <1>4 DEF WriteSeekFails, WriteStepFails, WriteLoopEnds, WriteSync, Goto, HandleInv
<1>5. CASE WriteOut
  BY <1>5 DEF WriteOut, CloseWorks, CloseFails, Closed, Goto, HandleInv
<1> QED
  BY <1>1, <1>2, <1>3, <1>4, <1>5

LEMMA ReadKeepsHandle ==
  ASSUME HandleInv,
         ReadOpen \/ ReadOpenFails \/ ReadStep \/ ReadStepFails \/ ReadLoopEnds \/ ReadOut
  PROVE  HandleInv'
<1>1. CASE ReadOpen
  BY <1>1 DEF ReadOpen, Goto, HandleInv
<1>2. CASE ReadOpenFails
  BY <1>2 DEF ReadOpenFails, HandleInv
<1>3. CASE ReadStep
  BY <1>3 DEF ReadStep, HandleInv
<1>4. CASE ReadStepFails \/ ReadLoopEnds
  BY <1>4 DEF ReadStepFails, ReadLoopEnds, Goto, HandleInv
<1>5. CASE ReadOut
  BY <1>5 DEF ReadOut, CloseReading, Closed, HandleInv
<1> QED
  BY <1>1, <1>2, <1>3, <1>4, <1>5

\* The file is removed and opened only while no handle is open.
THEOREM HandlesClosed == Spec => []NoHandleLeft
<1>1. HandleInv /\ [Next]_vars => HandleInv'
  <2>1. UNCHANGED vars /\ HandleInv => HandleInv'
    BY DEF vars, chunkvars, HandleInv
  <2> QED
    BY <2>1, MainKeepsHandle, WriteKeepsHandle, ReadKeepsHandle DEF Next
<1>2. HandleInv => NoHandleLeft
  BY DEF HandleInv, NoHandleLeft
<1> QED
  BY <1>1, <1>2, InitHandle, PTL DEF Spec

-----------------------------------------------------------------------------
(* The configurations main does not skip.                                  *)

\* The indices of the three nested loops.
LEMMA CaseLengths ==
  ASSUME NEW n \in 1 .. TotalCases
  PROVE  \E f \in DOMAIN FILE_LENGTHS, b \in DOMAIN BLOCK_LENGTHS :
           /\ Case(n).file = FILE_LENGTHS[f]
           /\ Case(n).block = BLOCK_LENGTHS[b]
<1> DEFINE F == Len(FILE_LENGTHS)  L == Len(BLOCK_LENGTHS)
           f == ((n - 1) % F) + 1
           b == (((n - 1) \div F) % L) + 1
<1>1. F \in Nat /\ F > 0 /\ L \in Nat /\ L > 0
  BY LfsPerfAssumption
<1>2. DOMAIN FILE_LENGTHS = 1 .. F /\ DOMAIN BLOCK_LENGTHS = 1 .. L
  BY LfsPerfAssumption
<1>3. n - 1 \in Int
  OBVIOUS
<1>4. f \in 1 .. F
  <2> HIDE DEF F
  <2>1. (n - 1) % F \in 0 .. F-1
    BY <1>1, <1>3, Division
  <2> QED
    BY <1>1, <2>1
<1>5. b \in 1 .. L
  <2> DEFINE q == (n - 1) \div F
  <2>1. q \in Int
    <3> HIDE DEF F
    <3> QED
      BY <1>1, <1>3, Division
  <2> HIDE DEF F, L, q
  <2>2. q % L \in 0 .. L-1
    BY <1>1, <2>1, Division
  <2>3. b = (q % L) + 1
    BY DEF q
  <2> QED
    BY <1>1, <2>2, <2>3
<1>6. Case(n).file = FILE_LENGTHS[f] /\ Case(n).block = BLOCK_LENGTHS[b]
  BY DEF Case, Config
<1> QED
  BY <1>2, <1>4, <1>5, <1>6

LEMMA ConfigIsValid ==
  ASSUME NEW n \in 1 .. TotalCases, ~Skipped(Case(n))
  PROVE  ValidConfig(Case(n))
<1> DEFINE file == Case(n).file  block == Case(n).block
<1>1. /\ file \in Nat \ {0} /\ block \in Nat \ {0}
      /\ block <= file => file % block = 0
  BY CaseLengths, LfsPerfAssumption
<1>2. block <= file /\ Accepted(file \div block)
  BY <1>1 DEF Skipped
<1>3. PICK random : Case(n) = Config(file, block, random)
  BY DEF Case, Config
<1> HIDE DEF file, block
<1> QED
  BY <1>1, <1>2, <1>3, AcceptedIsValid

-----------------------------------------------------------------------------
(* The chunks of a loop, from its variables.                               *)

Shuffled(cfg) == Permuted(cfg, randrows, randcols)
ChunksDone(cfg, k) == WholeChunks(cfg, at, total, k)
WrittenSoFar(cfg, tag) ==
  WrittenUpTo(cfg, randrows, randcols, at, total, handle.cells, tag)

\* While a loop goes on, its next chunk is a whole block inside the file, and
\* Advance counts it.
LEMMA LoopStep ==
  ASSUME NEW cfg, ValidConfig(cfg), Shuffled(cfg), NEW k, ChunksDone(cfg, k), More(cfg)
  PROVE  /\ ChunkSize(cfg) = cfg.block
         /\ Offset(cfg) = PlaceOf(cfg, randrows, randcols, at, total)
         /\ Offset(cfg) \in Nat /\ Offset(cfg) + cfg.block <= cfg.file
         /\ Advance(cfg) => at' = PlaceAfter(cfg, at) /\ total' = total + cfg.block
<1>1. total < cfg.file
  BY DEF More
<1>2. Offset(cfg) = PlaceOf(cfg, randrows, randcols, at, total)
  BY DEF Offset, PlaceOf
<1>3. ChunkSize(cfg) = cfg.block
  BY <1>1, NextChunk DEF ChunkSize, Shuffled, ChunksDone
<1>4. Offset(cfg) \in Nat /\ Offset(cfg) + cfg.block <= cfg.file
  BY <1>1, <1>2, NextChunk DEF Shuffled, ChunksDone
<1> QED
  BY <1>2, <1>3, <1>4 DEF Advance, PlaceAfter

LEMMA LoopStepTypes ==
  ASSUME NEW cfg, ValidConfig(cfg), Shuffled(cfg), NEW k, ChunksDone(cfg, k), More(cfg),
         Advance(cfg), at \in [row : Nat, row_start : Nat, col : Nat]
  PROVE  /\ ChunksDone(cfg, k + 1)'
         /\ at' \in [row : Nat, row_start : Nat, col : Nat] /\ total' \in Nat
<1>1. at' = PlaceAfter(cfg, at) /\ total' = total + cfg.block
  BY LoopStep
<1>2. total < cfg.file
  BY DEF More
<1>3. /\ WholeChunks(cfg, PlaceAfter(cfg, at), total + cfg.block, k + 1)
      /\ PlaceAfter(cfg, at) \in [row : Nat, row_start : Nat, col : Nat]
  BY <1>2, LoopAdvances DEF Shuffled, ChunksDone
<1>4. total + cfg.block \in Nat
  <2>1. total \in Nat
    BY <1>2, NextChunk DEF Shuffled, ChunksDone
  <2> QED
    BY <2>1 DEF ValidConfig
<1> QED
  BY <1>1, <1>3, <1>4 DEF ChunksDone

-----------------------------------------------------------------------------
(* The invariant.                                                          *)

InCase == {"unlink", "wopen", "write", "sync", "wout", "ropen", "read", "rout", "mean"}

\* Once a case has begun, it is one main does not skip, with shuffled arrays.
CaseInv ==
  /\ pc \in InCase =>
       case_number \in 1 .. TotalCases /\ ~Skipped(config) /\ Shuffled(config)
  /\ pc \in InCase \ {"mean"} => iter \in Iterations

LoopInv == pc \in {"write", "read"} => \E k : ChunksDone(config, k)

\* What the write loop has written is in the open file.
WrittenInv == pc = "write" => WrittenSoFar(config, Tag(iter))

\* A loop that came to its end has written the whole file.
WholeInv ==
  pc \in {"sync", "wout"} /\ total = config.file =>
    WrittenBy(handle.cells, config, Tag(iter))

IInv ==
  /\ TypeOK /\ CaseInv
  /\ LoopInv /\ WrittenInv /\ WholeInv
  /\ CompleteWriteIsOnVolume

LEMMA TotalIsNat == TotalCases \in Nat
BY LfsPerfAssumption DEF TotalCases

LEMMA InitInv == Init => IInv
<1> SUFFICES ASSUME Init PROVE IInv
  OBVIOUS
<1>1. 0 \in RowIndex /\ 0 \in ColIndex
  BY Ranges DEF RowIndex, ColIndex
<1>2. ChunkTypeOK
  <2>1. <<>> \in Seq(Nat)
    OBVIOUS
  <2>2. disk \in [exists : BOOLEAN, cells : Seq(Nat)]
    <3>1. CASE disk = NoFile
      BY <2>1, <3>1 DEF NoFile
    <3>2. ASSUME NEW c \in LEFTOVERS, disk = [exists |-> TRUE, cells |-> c]
          PROVE  disk \in [exists : BOOLEAN, cells : Seq(Nat)]
      <4>1. c \in Seq(Nat)
        BY LfsPerfAssumption
      <4> QED
        BY <3>2, <4>1
    <3> QED
      BY <3>1, <3>2 DEF Init, ChunkInit
  <2>3. handle \in [open : BOOLEAN, cells : Seq(Nat)]
    BY <2>1 DEF Init, ChunkInit, Closed
  <2>4. at \in [row : Nat, row_start : Nat, col : Nat] /\ total \in Nat
    BY DEF Init, ChunkInit, WalkStart
  <2>5. faults \in 0 .. MAX_FAULTS
    BY VolumeAssumption DEF Init, ChunkInit
  <2>6. randrows \in [RowIndex -> RowIndex] /\ randcols \in [ColIndex -> ColIndex]
    BY <1>1 DEF Init, ChunkInit
  <2> QED
    BY <2>2, <2>3, <2>4, <2>5, <2>6 DEF ChunkTypeOK
<1>4. TypeOK
  BY <1>2, TotalIsNat, LfsPerfAssumption DEF Init, TypeOK, Iterations
<1> QED
  BY <1>4 DEF Init, IInv, CaseInv, InCase, LoopInv, WrittenInv, WholeInv,
              CompleteWriteIsOnVolume

\* Nothing but the next case changes the arrays, and the case does not change
\* while it runs.
LEMMA CaseKept == ASSUME IInv, [Next]_vars PROVE CaseInv'
<1> USE DEF InCase, Goto
<1>1. CASE BeginCase
  <2>1. /\ case_number' = case_number + 1 /\ case_number < TotalCases
        /\ ~Skipped(Case(case_number + 1)) /\ iter' = 0
    BY <1>1 DEF BeginCase
  <2>2. case_number' \in 1 .. TotalCases
    BY <2>1, TotalIsNat DEF IInv, TypeOK
  <2>3. /\ IsPermutation(randrows', Case(case_number + 1).rows)
        /\ IsPermutation(randcols', Case(case_number + 1).cols)
    BY <1>1 DEF BeginCase, RandomPermutationsInitialize, Shuffles
  <2>4. config' = Case(case_number + 1)
    BY <2>1 DEF config
  <2>5. Shuffled(config)' /\ ~Skipped(config)'
    BY <2>1, <2>3, <2>4 DEF Shuffled, Permuted, Skipped
  <2>6. iter' \in Iterations
    BY <2>1, LfsPerfAssumption DEF Iterations
  <2> QED
    BY <2>2, <2>5, <2>6 DEF CaseInv, Iterations
<1>2. ASSUME case_number' = case_number, UNCHANGED arrays
      PROVE  /\ config' = config /\ Shuffled(config)' = Shuffled(config)
             /\ Skipped(config)' = Skipped(config)
  BY <1>2 DEF config, Shuffled, arrays
<1>3. CASE CleanStart \/ SkipCase \/ BeginIteration \/ ComputeMeans \/ Finish
  BY <1>2, <1>3 DEF CleanStart, SkipCase, BeginIteration, ComputeMeans, Finish, mainvars,
                    chunkvars, arrays, IInv, CaseInv
<1>4. CASE \/ WriteOpen \/ WriteOpenFails \/ WriteLoopEnds \/ WriteSync \/ WriteOut
           \/ ReadOpen \/ ReadLoopEnds
  BY <1>2, <1>4 DEF WriteOpen, WriteOpenFails, WriteLoopEnds, WriteSync, WriteOut, ReadOpen,
                    ReadLoopEnds, mainvars, chunkvars, arrays, IInv, CaseInv
<1>5. CASE WriteStep \/ WriteSeekFails \/ WriteStepFails
  BY <1>2, <1>5 DEF WriteStep, WriteSeekFails, WriteStepFails, WriteChunk, SeekFails,
                    WriteFails, mainvars, arrays, IInv, CaseInv
<1>6. CASE ReadStep \/ ReadStepFails
  BY <1>2, <1>6 DEF ReadStep, ReadStepFails, ReadChunk, SeekFails, ReadFails, arrays,
                    IInv, CaseInv
<1>7. CASE ReadOpenFails \/ ReadOut
  <2>1. /\ pc \in {"ropen", "rout"} /\ IterationEnds /\ case_number' = case_number
        /\ UNCHANGED arrays
    BY <1>7 DEF ReadOpenFails, ReadOut, IterationEnds
  <2>2. iter \in Iterations
    BY <2>1 DEF IInv, CaseInv
  <2>3. pc' \in {"unlink", "mean"} /\ (pc' = "unlink" => iter' \in Iterations)
    BY <2>1, <2>2, LfsPerfAssumption DEF IterationEnds, Iterations
  <2>4. Iterations' = Iterations /\ TotalCases' = TotalCases
    BY DEF Iterations, TotalCases
  <2> QED
    BY <1>2, <2>1, <2>3, <2>4 DEF IInv, CaseInv
<1>8. CASE UNCHANGED vars
  BY <1>2, <1>8 DEF vars, chunkvars, arrays, IInv, CaseInv
<1> QED
  BY <1>1, <1>3, <1>4, <1>5, <1>6, <1>7, <1>8 DEF Next

\* The case under way, as the loops need it.
LEMMA CaseFacts ==
  ASSUME IInv, pc \in InCase \ {"mean"}
  PROVE  /\ ValidConfig(config) /\ Shuffled(config)
         /\ iter \in Iterations /\ Tag(iter) \in Nat
<1>1. case_number \in 1 .. TotalCases /\ ~Skipped(config) /\ Shuffled(config) /\ iter \in Iterations
  BY DEF IInv, CaseInv
<1>2. ValidConfig(config)
  BY <1>1, ConfigIsValid DEF config
<1> QED
  BY <1>1, <1>2, LfsPerfAssumption DEF Iterations, Tag

LEMMA LoopKept == ASSUME IInv, [Next]_vars PROVE LoopInv'
<1> USE DEF Goto
<1> SUFFICES ASSUME pc' \in {"write", "read"} PROVE \E k : ChunksDone(config, k)'
  BY DEF LoopInv
<1>1. CASE WriteOpen \/ ReadOpen
  <2>1. PICK cfg : cfg = config
    OBVIOUS
  <2>2. pc \in InCase \ {"mean"} /\ BeginLoop /\ case_number' = case_number
    BY <1>1 DEF WriteOpen, ReadOpen, InCase, mainvars
  <2>3. config' = cfg /\ ValidConfig(cfg)
    BY <2>1, <2>2, CaseFacts DEF config
  <2>4. ChunksDone(cfg, 0)'
    BY <2>2, <2>3, LoopBegins DEF BeginLoop, ChunksDone
  <2> QED
    BY <2>3, <2>4 DEF ChunksDone
<1>2. CASE WriteStep \/ ReadStep
  <2>1. PICK cfg : cfg = config
    OBVIOUS
  <2>2. pc \in {"write", "read"} /\ Advance(cfg) /\ More(cfg) /\ case_number' = case_number
    BY <1>2, <2>1 DEF WriteStep, ReadStep, WriteChunk, ReadChunk, mainvars
  <2>3. config' = cfg /\ ValidConfig(cfg) /\ Shuffled(cfg)
    BY <2>1, <2>2, CaseFacts DEF config, InCase
  <2>4. PICK k : ChunksDone(cfg, k)
    BY <2>1, <2>2 DEF IInv, LoopInv
  <2>5. ChunksDone(cfg, k + 1)'
    BY <2>2, <2>3, <2>4, LoopStepTypes DEF IInv, TypeOK, ChunkTypeOK
  <2> QED
    BY <2>3, <2>5 DEF ChunksDone
<1>3. CASE UNCHANGED vars
  <2>1. PICK k : ChunksDone(config, k)
    BY <1>3 DEF vars, IInv, LoopInv
  <2> QED
    BY <1>3, <2>1 DEF ChunksDone, vars, chunkvars, config
<1>4. CASE CleanStart \/ SkipCase \/ BeginCase \/ BeginIteration \/ ComputeMeans \/ Finish
  BY <1>4 DEF CleanStart, SkipCase, BeginCase, BeginIteration, ComputeMeans, Finish
<1>5. CASE \/ WriteOpenFails \/ WriteSeekFails \/ WriteStepFails \/ WriteLoopEnds
           \/ WriteSync \/ WriteOut
  BY <1>5 DEF WriteOpenFails, WriteSeekFails, WriteStepFails, WriteLoopEnds, WriteSync, WriteOut
<1>6. CASE ReadOpenFails \/ ReadStepFails \/ ReadLoopEnds \/ ReadOut
  BY <1>6 DEF ReadOpenFails, ReadStepFails, ReadLoopEnds, ReadOut, IterationEnds
<1> QED
  BY <1>1, <1>2, <1>3, <1>4, <1>5, <1>6 DEF Next

-----------------------------------------------------------------------------
(* What the write loop leaves in the open file.                            *)

LEMMA OpenedAtStart ==
  ASSUME IInv, WriteOpen
  PROVE  WrittenSoFar(config, Tag(iter))'
<1>1. PICK cfg : cfg = config
  OBVIOUS
<1>2. /\ pc = "wopen" /\ at' = WalkStart /\ total' = 0 /\ handle'.cells = disk.cells
      /\ UNCHANGED <<case_number, iter>>
  BY DEF WriteOpen, BeginLoop, OpenForWriting, mainvars
<1>3. config' = cfg /\ ValidConfig(cfg) /\ disk.cells \in Seq(Nat)
  BY <1>1, <1>2, CaseFacts DEF config, InCase, IInv, TypeOK, ChunkTypeOK
<1> QED
  BY <1>2, <1>3, NothingWritten DEF WrittenSoFar

\* The handle after a chunk that was stored as a whole.
LEMMA ChunkStored ==
  ASSUME TypeOK, NEW cfg, ValidConfig(cfg), Shuffled(cfg), NEW k, ChunksDone(cfg, k),
         NEW tag \in Nat, WriteChunk(cfg, tag)
  PROVE  /\ handle' \in [open : BOOLEAN, cells : Seq(Nat)]
         /\ WrittenSoFar(cfg, tag) => WrittenSoFar(cfg, tag)'
<1>1. PICK off, new : off = Offset(cfg) /\ new = Overwrite(handle.cells, off, cfg.block, tag)
  OBVIOUS
<1>2. /\ More(cfg) /\ Advance(cfg) /\ UNCHANGED <<randrows, randcols>>
      /\ handle' = [handle EXCEPT !.cells = new]
  BY <1>1, LoopStep DEF WriteChunk, Stored
<1>3. /\ off \in Nat /\ off = PlaceOf(cfg, randrows, randcols, at, total)
      /\ at' = PlaceAfter(cfg, at) /\ total' = total + cfg.block /\ total < cfg.file
  BY <1>1, <1>2, LoopStep DEF More
<1>4. handle \in [open : BOOLEAN, cells : Seq(Nat)] /\ handle.cells \in Seq(Nat)
  BY DEF TypeOK, ChunkTypeOK
<1>5. cfg.block \in Int
  BY DEF ValidConfig
<1>6. new \in Seq(Nat)
  BY <1>1, <1>3, <1>4, <1>5, OverwriteEffect
<1>7. handle' \in [open : BOOLEAN, cells : Seq(Nat)] /\ handle'.cells = new
  BY <1>2, <1>4, <1>6
<1>8. ASSUME WrittenSoFar(cfg, tag) PROVE WrittenSoFar(cfg, tag)'
  <2>1. WrittenUpTo(cfg, randrows, randcols, PlaceAfter(cfg, at), total + cfg.block, new, tag)
    BY <1>1, <1>3, <1>4, <1>8, ChunkExtends DEF WrittenSoFar, Shuffled, ChunksDone
  <2> QED
    BY <1>2, <1>3, <1>7, <2>1 DEF WrittenSoFar
<1> QED
  BY <1>7, <1>8

-----------------------------------------------------------------------------
(* The invariant is inductive.                                             *)

LEMMA WrittenKept == ASSUME IInv, [Next]_vars PROVE WrittenInv'
<1> USE DEF Goto
<1> SUFFICES ASSUME pc' = "write" PROVE WrittenSoFar(config, Tag(iter))'
  BY DEF WrittenInv
<1>1. CASE WriteOpen
  BY <1>1, OpenedAtStart
<1>2. CASE WriteStep
  <2>1. PICK cfg, tag : cfg = config /\ tag = Tag(iter)
    OBVIOUS
  <2>2. pc = "write" /\ WriteChunk(cfg, tag) /\ UNCHANGED <<case_number, iter>>
    BY <1>2, <2>1 DEF WriteStep, mainvars
  <2>3. /\ config' = cfg /\ Tag(iter)' = tag /\ tag \in Nat
        /\ ValidConfig(cfg) /\ Shuffled(cfg) /\ TypeOK
    BY <2>1, <2>2, CaseFacts DEF config, InCase, Tag, IInv
  <2>4. WrittenSoFar(cfg, tag) /\ \E k : ChunksDone(cfg, k)
    BY <2>1, <2>2 DEF IInv, WrittenInv, LoopInv
  <2>5. WrittenSoFar(cfg, tag)'
    BY <2>2, <2>3, <2>4, ChunkStored
  <2> QED
    BY <2>3, <2>5 DEF WrittenSoFar
<1>3. CASE UNCHANGED vars
  <2>1. WrittenSoFar(config, Tag(iter))
    BY <1>3 DEF vars, IInv, WrittenInv
  <2> QED
    BY <1>3, <2>1 DEF vars, chunkvars, WrittenSoFar, config, Tag
<1>4. CASE CleanStart \/ SkipCase \/ BeginCase \/ BeginIteration \/ ComputeMeans \/ Finish
  BY <1>4 DEF CleanStart, SkipCase, BeginCase, BeginIteration, ComputeMeans, Finish
<1>5. CASE \/ WriteOpenFails \/ WriteSeekFails \/ WriteStepFails \/ WriteLoopEnds
           \/ WriteSync \/ WriteOut
  BY <1>5 DEF WriteOpenFails, WriteSeekFails, WriteStepFails, WriteLoopEnds, WriteSync, WriteOut
<1>6. CASE \/ ReadOpen \/ ReadOpenFails \/ ReadStep \/ ReadStepFails \/ ReadLoopEnds \/ ReadOut
  BY <1>6 DEF ReadOpen, ReadOpenFails, ReadStep, ReadStepFails, ReadLoopEnds, ReadOut,
              IterationEnds
<1> QED
  BY <1>1, <1>2, <1>3, <1>4, <1>5, <1>6 DEF Next

\* Only the end of the loop leads on with every unit transferred.
LEMMA WholeKept == ASSUME IInv, [Next]_vars PROVE WholeInv'
<1> USE DEF Goto
<1> SUFFICES ASSUME pc' \in {"sync", "wout"}, total' = config'.file
             PROVE  WrittenBy(handle.cells, config, Tag(iter))'
  BY DEF WholeInv
<1>1. CASE WriteLoopEnds
  <2>1. pc = "write" /\ ~More(config) /\ UNCHANGED <<chunkvars, case_number, iter>>
    BY <1>1 DEF WriteLoopEnds, mainvars
  <2>2. PICK k : ChunksDone(config, k)
    BY <2>1 DEF IInv, LoopInv
  <2>3. WrittenBy(handle.cells, config, Tag(iter))
    BY <2>1, <2>2, CaseFacts, LoopWritesFile
       DEF InCase, IInv, WrittenInv, WrittenSoFar, Shuffled, ChunksDone, More, TypeOK,
           ChunkTypeOK
  <2> QED
    BY <2>1, <2>3 DEF chunkvars, config, Tag
<1>2. CASE WriteSeekFails \/ WriteStepFails
  <2>1. total < config.file /\ UNCHANGED <<total, case_number>> /\ pc = "write"
    BY <1>2 DEF WriteSeekFails, WriteStepFails, SeekFails, WriteFails, More, mainvars
  <2>2. config' = config /\ total' = total
    BY <2>1 DEF config
  <2>3. config.file \in Nat /\ total \in Nat
    BY <2>1, CaseFacts DEF InCase, ValidConfig, IInv, TypeOK, ChunkTypeOK
  <2>4. total = config.file
    BY <2>2
  <2> QED
    BY <2>1, <2>3, <2>4
<1>3. CASE WriteSync \/ UNCHANGED vars
  <2>1. /\ pc \in {"sync", "wout"}
        /\ UNCHANGED <<handle, total, case_number, iter>>
    BY <1>3 DEF WriteSync, vars, chunkvars, mainvars, loopvars
  <2>2. config' = config /\ Tag(iter)' = Tag(iter)
    BY <2>1 DEF config, Tag
  <2> QED
    BY <2>1, <2>2 DEF IInv, WholeInv
<1>4. CASE CleanStart \/ SkipCase \/ BeginCase \/ BeginIteration \/ ComputeMeans \/ Finish
  BY <1>4 DEF CleanStart, SkipCase, BeginCase, BeginIteration, ComputeMeans, Finish
<1>5. CASE WriteOpen \/ WriteOpenFails \/ WriteStep \/ WriteOut
  BY <1>5 DEF WriteOpen, WriteOpenFails, WriteStep, WriteOut
<1>6. CASE \/ ReadOpen \/ ReadOpenFails \/ ReadStep \/ ReadStepFails \/ ReadLoopEnds \/ ReadOut
  BY <1>6 DEF ReadOpen, ReadOpenFails, ReadStep, ReadStepFails, ReadLoopEnds, ReadOut,
              IterationEnds
<1> QED
  BY <1>1, <1>2, <1>3, <1>4, <1>5, <1>6 DEF Next

\* The flag and the result together stand for a whole file and its commit.
LEMMA CompleteKept == ASSUME IInv, [Next]_vars PROVE CompleteWriteIsOnVolume'
<1> USE DEF Goto
<1> SUFFICES ASSUME pc' = "ropen", stats'[iter'].write_success, rc' = 0
             PROVE  WrittenBy(disk.cells, config, Tag(iter))'
  BY DEF CompleteWriteIsOnVolume
<1>1. CASE WriteOut
  <2>1. /\ pc = "wout" /\ UNCHANGED <<case_number, iter>>
        /\ stats' = [stats EXCEPT ![iter].write_success = (total = config.file),
                                  ![iter].written_bytes = total,
                                  ![iter].write_time = 1]
        /\ disk'.cells = handle.cells
    BY <1>1 DEF WriteOut, CloseWorks, Commit
  <2>2. config' = config /\ Tag(iter)' = Tag(iter)
    BY <2>1 DEF config, Tag
  <2>3. iter \in DOMAIN stats /\ DOMAIN stats[iter] = DOMAIN NoStats
    BY <2>1, CaseFacts DEF InCase, IInv, TypeOK
  <2>4. stats'[iter].write_success = (total = config.file)
    BY <2>1, <2>3 DEF NoStats
  <2>5. WrittenBy(handle.cells, config, Tag(iter))
    BY <2>1, <2>4 DEF IInv, WholeInv
  <2> QED
    BY <2>1, <2>2, <2>5
<1>2. CASE WriteOpenFails
  BY <1>2 DEF WriteOpenFails
<1>3. CASE UNCHANGED vars
  BY <1>3 DEF vars, chunkvars, config, Tag, IInv, CompleteWriteIsOnVolume
<1>4. CASE CleanStart \/ SkipCase \/ BeginCase \/ BeginIteration \/ ComputeMeans \/ Finish
  BY <1>4 DEF CleanStart, SkipCase, BeginCase, BeginIteration, ComputeMeans, Finish
<1>5. CASE WriteOpen \/ WriteStep \/ WriteSeekFails \/ WriteStepFails \/ WriteLoopEnds \/ WriteSync
  BY <1>5 DEF WriteOpen, WriteStep, WriteSeekFails, WriteStepFails, WriteLoopEnds, WriteSync
<1>6. CASE \/ ReadOpen \/ ReadOpenFails \/ ReadStep \/ ReadStepFails \/ ReadLoopEnds \/ ReadOut
  BY <1>6 DEF ReadOpen, ReadOpenFails, ReadStep, ReadStepFails, ReadLoopEnds, ReadOut,
              IterationEnds
<1> QED
  BY <1>1, <1>2, <1>3, <1>4, <1>5, <1>6 DEF Next

\* Failing calls are counted to their bound, and calls of the file system
\* interface leave a file of units.
LEMMA CallTypes ==
  ASSUME TypeOK
  PROVE  /\ Works => faults' \in 0 .. MAX_FAULTS
         /\ Fails => faults' \in 0 .. MAX_FAULTS
         /\ Unlink => disk' \in [exists : BOOLEAN, cells : Seq(Nat)]
         /\ Unlink => faults' \in 0 .. MAX_FAULTS
         /\ Commit => disk' \in [exists : BOOLEAN, cells : Seq(Nat)]
         /\ UNCHANGED disk => disk' \in [exists : BOOLEAN, cells : Seq(Nat)]
         /\ OpenForWriting \/ OpenForReading =>
              /\ disk' \in [exists : BOOLEAN, cells : Seq(Nat)]
              /\ handle' \in [open : BOOLEAN, cells : Seq(Nat)]
         /\ handle' = Closed => handle' \in [open : BOOLEAN, cells : Seq(Nat)]
<1>1. faults \in 0 .. MAX_FAULTS /\ MAX_FAULTS \in Nat
  BY VolumeAssumption DEF TypeOK, ChunkTypeOK
<1>2. /\ disk \in [exists : BOOLEAN, cells : Seq(Nat)]
      /\ handle \in [open : BOOLEAN, cells : Seq(Nat)]
  BY DEF TypeOK, ChunkTypeOK
<1>3. <<>> \in Seq(Nat)
  OBVIOUS
<1>4. NoFile \in [exists : BOOLEAN, cells : Seq(Nat)] /\ Closed \in [open : BOOLEAN, cells : Seq(Nat)]
  BY <1>3 DEF NoFile, Closed
<1>5. Works \/ Fails => faults' \in 0 .. MAX_FAULTS
  BY <1>1 DEF Works, Fails
<1>6. Unlink => disk' \in [exists : BOOLEAN, cells : Seq(Nat)] /\ (Works \/ Fails)
  BY <1>2, <1>4 DEF Unlink
<1>7. Commit => disk' \in [exists : BOOLEAN, cells : Seq(Nat)]
  BY <1>2 DEF Commit
<1>8. OpenForWriting \/ OpenForReading =>
        /\ disk' \in [exists : BOOLEAN, cells : Seq(Nat)]
        /\ handle' \in [open : BOOLEAN, cells : Seq(Nat)]
  <2>1. disk.cells \in Seq(Nat) /\ [disk EXCEPT !.exists = TRUE] \in [exists : BOOLEAN, cells : Seq(Nat)]
    BY <1>2
  <2>2. [open |-> TRUE, cells |-> disk.cells] \in [open : BOOLEAN, cells : Seq(Nat)]
    BY <2>1
  <2> QED
    BY <1>2, <2>1, <2>2 DEF OpenForWriting, OpenForReading
<1> QED
  BY <1>2, <1>4, <1>5, <1>6, <1>7, <1>8

LEMMA LoopTypes ==
  BeginLoop => at' \in [row : Nat, row_start : Nat, col : Nat] /\ total' \in Nat
BY DEF BeginLoop, WalkStart

LEMMA ChunkTypesKept == ASSUME IInv, [Next]_vars PROVE ChunkTypeOK'
<1>0. TypeOK /\ ChunkTypeOK
  BY DEF IInv, TypeOK
<1> DEFINE Disks == [exists : BOOLEAN, cells : Seq(Nat)]
           Handles == [open : BOOLEAN, cells : Seq(Nat)]
           Places == [row : Nat, row_start : Nat, col : Nat]
<1>1. CASE BeginCase
  <2>1. randrows' \in [RowIndex -> RowIndex] /\ randcols' \in [ColIndex -> ColIndex]
    BY <1>0, <1>1 DEF BeginCase, RandomPermutationsInitialize, Shuffles, ChunkTypeOK
  <2> QED
    BY <1>0, <1>1, <2>1 DEF BeginCase, ChunkTypeOK, loopvars
<1>2. CASE CleanStart \/ BeginIteration
  <2>1. Unlink /\ UNCHANGED <<arrays, handle, loopvars>>
    BY <1>2 DEF CleanStart, BeginIteration
  <2>2. disk' \in Disks /\ faults' \in 0 .. MAX_FAULTS
    BY <1>0, <2>1, CallTypes
  <2> QED
    BY <1>0, <2>1, <2>2 DEF ChunkTypeOK, arrays, loopvars
<1>3. CASE SkipCase \/ ComputeMeans \/ Finish \/ WriteLoopEnds \/ ReadLoopEnds \/ UNCHANGED vars
  BY <1>0, <1>3 DEF SkipCase, ComputeMeans, Finish, WriteLoopEnds, ReadLoopEnds, vars,
                    chunkvars, ChunkTypeOK
<1>4. CASE WriteOpen \/ ReadOpen
  <2>1. Works /\ (OpenForWriting \/ OpenForReading) /\ BeginLoop /\ UNCHANGED arrays
    BY <1>4 DEF WriteOpen, ReadOpen
  <2>2. /\ disk' \in Disks /\ handle' \in Handles /\ faults' \in 0 .. MAX_FAULTS
        /\ at' \in Places /\ total' \in Nat
    BY <1>0, <2>1, CallTypes, LoopTypes
  <2> QED
    BY <1>0, <2>1, <2>2 DEF ChunkTypeOK, arrays
<1>5. CASE WriteOpenFails \/ ReadOpenFails
  <2>1. (Works \/ Fails) /\ UNCHANGED <<arrays, disk, handle, loopvars>>
    BY <1>5 DEF WriteOpenFails, ReadOpenFails
  <2>2. faults' \in 0 .. MAX_FAULTS
    BY <1>0, <2>1, CallTypes
  <2> QED
    BY <1>0, <2>1, <2>2 DEF ChunkTypeOK, arrays, loopvars
<1>6. CASE WriteSync
  <2>1. /\ Works \/ Fails
        /\ Commit \/ UNCHANGED disk
        /\ UNCHANGED <<arrays, handle, loopvars>>
    BY <1>6 DEF WriteSync, Sync
  <2>2. disk' \in Disks /\ faults' \in 0 .. MAX_FAULTS
    BY <1>0, <2>1, CallTypes
  <2> QED
    BY <1>0, <2>1, <2>2 DEF ChunkTypeOK, arrays, loopvars
<1>7. CASE WriteOut \/ ReadOut
  <2>1. /\ Works \/ Fails
        /\ Commit \/ UNCHANGED disk
        /\ handle' = Closed
        /\ UNCHANGED <<arrays, loopvars>>
    BY <1>7 DEF WriteOut, ReadOut, CloseWorks, CloseFails, CloseReading
  <2>2. disk' \in Disks /\ faults' \in 0 .. MAX_FAULTS /\ handle' \in Handles
    BY <1>0, <2>1, CallTypes
  <2> QED
    BY <1>0, <2>1, <2>2 DEF ChunkTypeOK, arrays, loopvars
<1>8. ASSUME pc \in {"write", "read"}, NEW cfg, cfg = config
      PROVE  ValidConfig(cfg) /\ Shuffled(cfg) /\ Tag(iter) \in Nat /\ \E k : ChunksDone(cfg, k)
  BY <1>8, CaseFacts DEF InCase, IInv, LoopInv
<1>9. CASE WriteStep
  <2>1. PICK cfg, tag : cfg = config /\ tag = Tag(iter)
    OBVIOUS
  <2>2. pc = "write" /\ WriteChunk(cfg, tag)
    BY <1>9, <2>1 DEF WriteStep
  <2>3. PICK k : ChunksDone(cfg, k)
    BY <1>8, <2>1, <2>2
  <2>4. Works /\ More(cfg) /\ Advance(cfg) /\ UNCHANGED <<randrows, randcols, disk>>
    BY <2>2 DEF WriteChunk
  <2>5. ValidConfig(cfg) /\ Shuffled(cfg) /\ tag \in Nat
    BY <1>8, <2>1, <2>2
  <2>6. handle' \in Handles
    BY <1>0, <2>2, <2>3, <2>5, ChunkStored
  <2>7. at' \in Places /\ total' \in Nat /\ faults' \in 0 .. MAX_FAULTS
    BY <1>0, <2>3, <2>4, <2>5, LoopStepTypes, CallTypes DEF ChunkTypeOK
  <2> QED
    BY <1>0, <2>4, <2>6, <2>7 DEF ChunkTypeOK
<1>10. CASE WriteStepFails
  <2>1. PICK cfg, tag : cfg = config /\ tag = Tag(iter)
    OBVIOUS
  <2>2. PICK n \in -1 .. cfg.block : WriteFails(cfg, tag, n)
    BY <1>10, <2>1 DEF WriteStepFails
  <2>3. pc = "write"
    BY <1>10 DEF WriteStepFails
  <2>4. PICK k : ChunksDone(cfg, k)
    BY <1>8, <2>1, <2>3
  <2>5. /\ More(cfg) /\ (Works \/ Fails) /\ UNCHANGED <<randrows, randcols, disk, at, total>>
        /\ handle' = [handle EXCEPT !.cells = Overwrite(@, Offset(cfg), n, tag)]
    BY <2>2 DEF WriteFails, Stored
  <2>6. ValidConfig(cfg) /\ Shuffled(cfg) /\ tag \in Nat
    BY <1>8, <2>1, <2>3
  <2>7. Offset(cfg) \in Nat /\ n \in Int /\ handle.cells \in Seq(Nat)
    <3>1. Offset(cfg) \in Nat
      BY <2>4, <2>5, <2>6, LoopStep
    <3>2. n \in Int
      BY <2>2, <2>6 DEF ValidConfig
    <3> QED
      BY <1>0, <3>1, <3>2 DEF ChunkTypeOK
  <2>8. Overwrite(handle.cells, Offset(cfg), n, tag) \in Seq(Nat)
    BY <2>6, <2>7, OverwriteEffect
  <2>9. handle' \in Handles /\ faults' \in 0 .. MAX_FAULTS
    BY <1>0, <2>5, <2>8, CallTypes DEF ChunkTypeOK
  <2> QED
    BY <1>0, <2>5, <2>9 DEF ChunkTypeOK
<1>11. CASE WriteSeekFails \/ ReadStepFails
  <2>1. (Works \/ Fails) /\ UNCHANGED <<randrows, randcols, disk, handle, at, total>>
    BY <1>11 DEF WriteSeekFails, ReadStepFails, SeekFails, ReadFails
  <2>2. faults' \in 0 .. MAX_FAULTS
    BY <1>0, <2>1, CallTypes
  <2> QED
    BY <1>0, <2>1, <2>2 DEF ChunkTypeOK
<1>12. CASE ReadStep
  <2>1. PICK cfg : cfg = config
    OBVIOUS
  <2>2. pc = "read" /\ ReadChunk(cfg)
    BY <1>12, <2>1 DEF ReadStep
  <2>3. Works /\ More(cfg) /\ Advance(cfg) /\ UNCHANGED <<randrows, randcols, disk, handle>>
    BY <2>2 DEF ReadChunk
  <2>4. at' \in Places /\ total' \in Nat /\ faults' \in 0 .. MAX_FAULTS
    BY <1>0, <1>8, <2>1, <2>2, <2>3, LoopStepTypes, CallTypes DEF ChunkTypeOK
  <2> QED
    BY <1>0, <2>3, <2>4 DEF ChunkTypeOK
<1> QED
  BY <1>1, <1>2, <1>3, <1>4, <1>5, <1>6, <1>7, <1>9, <1>10, <1>11, <1>12 DEF Next

LEMMA TypesKept == ASSUME IInv, [Next]_vars PROVE TypeOK'
<1>0. TypeOK /\ TotalCases \in Nat
  BY TotalIsNat DEF IInv
<1> SUFFICES /\ case_number' \in 0 .. TotalCases
             /\ iter' \in 0 .. TEST_ITERATIONS
             /\ rc' \in {-1, 0}
             /\ DOMAIN stats' = Iterations
             /\ \A i \in Iterations : DOMAIN stats'[i] = DOMAIN NoStats
             /\ DOMAIN reports' \subseteq 1 .. TotalCases
             /\ pc' \in {"start", "case", "unlink", "wopen", "write", "sync", "wout",
                         "ropen", "read", "rout", "mean", "done"}
  BY ChunkTypesKept DEF TypeOK, TotalCases, Iterations, NoStats
<1> USE DEF Goto
<1>1. CASE BeginCase
  BY <1>0, <1>1, LfsPerfAssumption DEF BeginCase, TypeOK
<1>2. CASE SkipCase
  BY <1>0, <1>2 DEF SkipCase, TypeOK
<1>3. CASE CleanStart \/ BeginIteration \/ Finish
  BY <1>0, <1>3 DEF CleanStart, BeginIteration, Finish, mainvars, TypeOK
<1>4. CASE ComputeMeans
  <2>1. case_number \in 1 .. TotalCases
    BY <1>4 DEF ComputeMeans, IInv, CaseInv, InCase
  <2>2. DOMAIN reports' = DOMAIN reports \union {case_number}
    BY <1>4 DEF ComputeMeans
  <2> QED
    BY <1>0, <1>4, <2>1, <2>2 DEF ComputeMeans, TypeOK
<1>5. CASE WriteOpen \/ WriteOpenFails \/ WriteSync \/ WriteLoopEnds
  BY <1>0, <1>5 DEF WriteOpen, WriteOpenFails, WriteSync, WriteLoopEnds, mainvars, TypeOK
<1>6. CASE WriteStep \/ WriteSeekFails \/ WriteStepFails
  BY <1>0, <1>6 DEF WriteStep, WriteSeekFails, WriteStepFails, mainvars, TypeOK
<1>7. CASE WriteOut
  <2>1. iter \in Iterations
    BY <1>7, CaseFacts DEF WriteOut, InCase
  <2>2. /\ DOMAIN stats' = Iterations
        /\ \A i \in Iterations : DOMAIN stats'[i] = DOMAIN NoStats
    BY <1>0, <1>7, <2>1 DEF WriteOut, TypeOK
  <2> QED
    BY <1>0, <1>7, <2>2 DEF WriteOut, TypeOK
<1>8. CASE ReadOpen \/ ReadLoopEnds \/ ReadStep \/ ReadStepFails
  BY <1>0, <1>8 DEF ReadOpen, ReadLoopEnds, ReadStep, ReadStepFails, mainvars, TypeOK
<1>9. ASSUME IterationEnds, iter \in Iterations
      PROVE  iter' \in 0 .. TEST_ITERATIONS /\ pc' \in {"unlink", "mean"}
  BY <1>9, LfsPerfAssumption DEF IterationEnds, Iterations
<1>10. CASE ReadOpenFails
  <2>1. iter \in Iterations
    BY <1>10, CaseFacts DEF ReadOpenFails, InCase
  <2> QED
    BY <1>0, <1>9, <1>10, <2>1 DEF ReadOpenFails, TypeOK
<1>11. CASE ReadOut
  <2>1. iter \in Iterations
    BY <1>11, CaseFacts DEF ReadOut, InCase
  <2>2. /\ DOMAIN stats' = Iterations
        /\ \A i \in Iterations : DOMAIN stats'[i] = DOMAIN NoStats
    BY <1>0, <1>11, <2>1 DEF ReadOut, TypeOK
  <2> QED
    BY <1>0, <1>9, <1>11, <2>1, <2>2 DEF ReadOut, TypeOK
<1>12. CASE UNCHANGED vars
  BY <1>0, <1>12 DEF vars, TypeOK
<1> QED
  BY <1>1, <1>2, <1>3, <1>4, <1>5, <1>6, <1>7, <1>8, <1>10, <1>11, <1>12 DEF Next

LEMMA StepInv == IInv /\ [Next]_vars => IInv'
BY TypesKept, CaseKept, LoopKept, WrittenKept, WholeKept, CompleteKept DEF IInv

LEMMA Invariance == Spec => []IInv
BY InitInv, StepInv, PTL DEF Spec

-----------------------------------------------------------------------------
\* No access of the walk leaves the index arrays, and no transfer the units of
\* the file, for files and matrices of every size.
THEOREM TypeCorrect == Spec => []TypeOK
<1>1. IInv => TypeOK
  BY DEF IInv
<1> QED
  BY <1>1, Invariance, PTL

\* A pass that test_write reports as successful, in its flag and in its result,
\* is on the volume, whole.
THEOREM SuccessIsOnVolume == Spec => []CompleteWriteIsOnVolume
<1>1. IInv => CompleteWriteIsOnVolume
  BY DEF IInv
<1> QED
  BY <1>1, Invariance, PTL

\* A short read without a failing call happens over an incomplete file only:
\* the read loop stays inside the file.
LEMMA ShortRead ==
  ASSUME IInv, Next, pc = "read", pc' = "rout", More(config), UNCHANGED faults
  PROVE  ~WrittenBy(handle.cells, config, Tag(iter))
<1>1. PICK cfg : cfg = config
  OBVIOUS
<1>2. ValidConfig(cfg) /\ Shuffled(cfg) /\ \E k : ChunksDone(cfg, k)
  BY <1>1, CaseFacts DEF InCase, IInv, LoopInv
<1>3. ReadStepFails
  BY <1>1 DEF Next, Goto, CleanStart, SkipCase, BeginCase, BeginIteration, WriteOpen,
    WriteOpenFails, WriteStep, WriteSeekFails, WriteStepFails, WriteLoopEnds, WriteSync,
    WriteOut, ReadOpen, ReadOpenFails, ReadStep, ReadLoopEnds, ReadOut, ComputeMeans, Finish
<1>4. ~Fails
  BY DEF Fails, IInv, TypeOK, ChunkTypeOK
<1>5. PICK n : n = Readable(Offset(cfg), ChunkSize(cfg)) /\ n < ChunkSize(cfg)
  BY <1>1, <1>3, <1>4 DEF ReadStepFails, SeekFails, ReadFails
<1>6. Offset(cfg) \in Nat /\ Offset(cfg) + ChunkSize(cfg) <= cfg.file /\ ChunkSize(cfg) \in Nat
  BY <1>1, <1>2, LoopStep DEF ValidConfig
<1>7. Len(handle.cells) \in Nat /\ cfg.file \in Nat
  BY <1>2 DEF IInv, TypeOK, ChunkTypeOK, ValidConfig
<1>8. Len(handle.cells) < cfg.file
  BY <1>5, <1>6, <1>7 DEF Readable, Smaller, Larger
<1> QED
  BY <1>1, <1>7, <1>8 DEF WrittenBy

\* The read walk never leaves a file the write walk has filled.
THEOREM ReadStaysInside == Spec => ShortReadMeansBadWrite
<1>1. IInv /\ [Next]_vars =>
        [pc = "read" /\ pc' = "rout" /\ More(config) /\ UNCHANGED faults =>
           ~WrittenBy(handle.cells, config, Tag(iter))]_vars
  BY ShortRead
<1> QED
  BY <1>1, Invariance, PTL DEF Spec, ShortReadMeansBadWrite

-----------------------------------------------------------------------------
(* The means.                                                              *)

\* A flag set in the statistics stands for a pass over the whole file.
StatsInv ==
  pc \in InCase => \A i \in Iterations :
    /\ stats[i].write_success =>
         stats[i].written_bytes = config.file /\ stats[i].write_time = 1
    /\ stats[i].read_success =>
         stats[i].read_bytes = config.file /\ stats[i].read_time = 1

MInv == IInv /\ StatsInv /\ MeansOfWholePasses

LEMMA SumOfWriters ==
  ASSUME NEW v \in Nat, IsFiniteSet(Writers), \A i \in Writers : WriteSpeed(i) = v
  PROVE  MapThenSumSet(WriteSpeed, Writers) = v * Cardinality(Writers)
<1> DEFINE S == Writers
           Terms(it) == [s \in SUBSET S |->
             IF s = {} THEN 0
             ELSE WriteSpeed(CHOOSE x \in s : TRUE) + it[s \ {CHOOSE x \in s : TRUE}]]
           sum == CHOOSE it : it = Terms(it)
<1>1. MapThenSumSet(WriteSpeed, S) = sum[S]
  BY DEF MapThenSumSet, MapThenFoldSet
<1>2. \E it : it = Terms(it)
  <2> DEFINE whole == [s \in SUBSET S |-> v * Cardinality(s)]
  <2>1. ASSUME NEW s \in SUBSET S
        PROVE  whole[s] = Terms(whole)[s]
    <3>1. CASE s = {}
      BY <3>1, FS_EmptySet
    <3>2. CASE s # {}
      <4>1. PICK x \in s : x = CHOOSE y \in s : TRUE
        BY <3>2
      <4>2. IsFiniteSet(s) /\ s \ {x} \in SUBSET S
        BY FS_Subset
      <4>3. /\ Cardinality(s \ {x}) = Cardinality(s) - 1 /\ Cardinality(s) \in Nat
        BY <4>1, <4>2, FS_RemoveElement, FS_CardinalityType
      <4>4. v * Cardinality(s) = v + v * (Cardinality(s) - 1)
        BY <4>3
      <4>5. WriteSpeed(x) = v
        BY <4>1
      <4> QED
        BY <3>2, <4>1, <4>2, <4>3, <4>4, <4>5
    <3> QED
      BY <3>1, <3>2
  <2> QED
    BY <2>1
<1>3. sum = Terms(sum)
  BY <1>2
<1> HIDE DEF sum
<1>4. sum[{}] = 0
  BY <1>3
<1>5. ASSUME NEW s \in SUBSET S, s # {}
      PROVE  \E x \in s : sum[s] = v + sum[s \ {x}]
  <2>1. PICK x \in s : x = CHOOSE y \in s : TRUE
    BY <1>5
  <2>2. sum[s] = WriteSpeed(x) + sum[s \ {x}]
    BY <1>3, <1>5, <2>1
  <2> QED
    BY <2>1, <2>2
<1> QED
  BY <1>1, <1>4, <1>5, SumOfEqualTerms

LEMMA SumOfReaders ==
  ASSUME NEW v \in Nat, IsFiniteSet(Readers), \A i \in Readers : ReadSpeed(i) = v
  PROVE  MapThenSumSet(ReadSpeed, Readers) = v * Cardinality(Readers)
<1> DEFINE S == Readers
           Terms(it) == [s \in SUBSET S |->
             IF s = {} THEN 0
             ELSE ReadSpeed(CHOOSE x \in s : TRUE) + it[s \ {CHOOSE x \in s : TRUE}]]
           sum == CHOOSE it : it = Terms(it)
<1>1. MapThenSumSet(ReadSpeed, S) = sum[S]
  BY DEF MapThenSumSet, MapThenFoldSet
<1>2. \E it : it = Terms(it)
  <2> DEFINE whole == [s \in SUBSET S |-> v * Cardinality(s)]
  <2>1. ASSUME NEW s \in SUBSET S
        PROVE  whole[s] = Terms(whole)[s]
    <3>1. CASE s = {}
      BY <3>1, FS_EmptySet
    <3>2. CASE s # {}
      <4>1. PICK x \in s : x = CHOOSE y \in s : TRUE
        BY <3>2
      <4>2. IsFiniteSet(s) /\ s \ {x} \in SUBSET S
        BY FS_Subset
      <4>3. /\ Cardinality(s \ {x}) = Cardinality(s) - 1 /\ Cardinality(s) \in Nat
        BY <4>1, <4>2, FS_RemoveElement, FS_CardinalityType
      <4>4. v * Cardinality(s) = v + v * (Cardinality(s) - 1)
        BY <4>3
      <4>5. ReadSpeed(x) = v
        BY <4>1
      <4> QED
        BY <3>2, <4>1, <4>2, <4>3, <4>4, <4>5
    <3> QED
      BY <3>1, <3>2
  <2> QED
    BY <2>1
<1>3. sum = Terms(sum)
  BY <1>2
<1> HIDE DEF sum
<1>4. sum[{}] = 0
  BY <1>3
<1>5. ASSUME NEW s \in SUBSET S, s # {}
      PROVE  \E x \in s : sum[s] = v + sum[s \ {x}]
  <2>1. PICK x \in s : x = CHOOSE y \in s : TRUE
    BY <1>5
  <2>2. sum[s] = ReadSpeed(x) + sum[s \ {x}]
    BY <1>3, <1>5, <2>1
  <2> QED
    BY <2>1, <2>2
<1> QED
  BY <1>1, <1>4, <1>5, SumOfEqualTerms

LEMMA IterationsFinite == IsFiniteSet(Iterations)
<1>1. 0 \in Int /\ TEST_ITERATIONS - 1 \in Int
  BY LfsPerfAssumption
<1> QED
  BY <1>1, FS_Interval DEF Iterations

\* A mean of equal speeds is that speed; without a success the rate is 0.
LEMMA MeanOfEqual ==
  ASSUME NEW S \in SUBSET Iterations, NEW v \in Nat, NEW sum, sum = v * Cardinality(S)
  PROVE  Mean(S, sum) = IF Rate(S) = 0 THEN -1 ELSE v
<1>1. PICK T \in Nat : T = TEST_ITERATIONS /\ T > 0 /\ T <= 100
  BY LfsPerfAssumption
<1>2. IsFiniteSet(Iterations) /\ IsFiniteSet(S)
  BY IterationsFinite, FS_Subset
<1>3. PICK n \in Nat : n = Cardinality(S) /\ (n = 0 <=> S = {})
  BY <1>2, FS_CardinalityType, FS_EmptySet
<1>4. CASE S = {}
  <2>1. Rate(S) = 0
    BY <1>1, <1>3, <1>4 DEF Rate
  <2> QED
    BY <1>4, <2>1 DEF Mean
<1>5. CASE S # {}
  <2>1. PICK m \in Int : m = n * 100 /\ n > 0 /\ m >= T
    BY <1>1, <1>3, <1>5
  <2>2. m \div T \in Int /\ m % T \in 0 .. T - 1 /\ m = T * (m \div T) + (m % T)
    BY <1>1, Division
  <2>3. m \div T # 0
    BY <1>1, <2>1, <2>2
  <2>4. (v * n) \div n = v
    BY <2>1
  <2> QED
    BY <1>1, <1>3, <1>5, <2>1, <2>3, <2>4 DEF Mean, Rate
<1> QED
  BY <1>4, <1>5

LEMMA InitMeans == Init => StatsInv /\ MeansOfWholePasses
BY DEF Init, StatsInv, InCase, MeansOfWholePasses

LEMMA StatsKept == ASSUME IInv, StatsInv, [Next]_vars PROVE StatsInv'
<1> USE DEF Goto, InCase
<1>0. Iterations' = Iterations
  BY DEF Iterations
<1>1. CASE BeginCase
  BY <1>0, <1>1 DEF BeginCase, NoStats, StatsInv
<1>2. CASE WriteOut
  <2>1. /\ pc = "wout" /\ UNCHANGED case_number
        /\ stats' = [stats EXCEPT ![iter].write_success = (total = config.file),
                                  ![iter].written_bytes = total,
                                  ![iter].write_time = 1]
    BY <1>2 DEF WriteOut
  <2>2. config' = config
    BY <2>1 DEF config
  <2>3. /\ DOMAIN stats = Iterations
        /\ \A i \in Iterations : DOMAIN stats[i] = DOMAIN NoStats
    BY DEF IInv, TypeOK
  <2> SUFFICES ASSUME NEW i \in Iterations
               PROVE  /\ stats'[i].write_success =>
                           stats'[i].written_bytes = config.file /\ stats'[i].write_time = 1
                      /\ stats'[i].read_success =>
                           stats'[i].read_bytes = config.file /\ stats'[i].read_time = 1
    BY <1>0, <2>2 DEF StatsInv
  <2>4. CASE i = iter
    <3>1. /\ stats'[i].write_success = (total = config.file)
          /\ stats'[i].written_bytes = total /\ stats'[i].write_time = 1
          /\ stats'[i].read_success = stats[i].read_success
          /\ stats'[i].read_bytes = stats[i].read_bytes
          /\ stats'[i].read_time = stats[i].read_time
      BY <2>1, <2>3, <2>4 DEF NoStats
    <3> QED
      BY <2>1, <3>1 DEF StatsInv
  <2>5. CASE i # iter
    BY <2>1, <2>3, <2>5 DEF StatsInv
  <2> QED
    BY <2>4, <2>5
<1>3. CASE ReadOut
  <2>1. /\ pc = "rout" /\ UNCHANGED case_number
        /\ stats' = [stats EXCEPT ![iter].read_success = (total = config.file),
                                  ![iter].read_bytes = total,
                                  ![iter].read_time = 1]
    BY <1>3 DEF ReadOut
  <2>2. config' = config
    BY <2>1 DEF config
  <2>3. /\ DOMAIN stats = Iterations
        /\ \A i \in Iterations : DOMAIN stats[i] = DOMAIN NoStats
    BY DEF IInv, TypeOK
  <2> SUFFICES ASSUME NEW i \in Iterations
               PROVE  /\ stats'[i].write_success =>
                           stats'[i].written_bytes = config.file /\ stats'[i].write_time = 1
                      /\ stats'[i].read_success =>
                           stats'[i].read_bytes = config.file /\ stats'[i].read_time = 1
    BY <1>0, <2>2 DEF StatsInv
  <2>4. CASE i = iter
    <3>1. /\ stats'[i].read_success = (total = config.file)
          /\ stats'[i].read_bytes = total /\ stats'[i].read_time = 1
          /\ stats'[i].write_success = stats[i].write_success
          /\ stats'[i].written_bytes = stats[i].written_bytes
          /\ stats'[i].write_time = stats[i].write_time
      BY <2>1, <2>3, <2>4 DEF NoStats
    <3> QED
      BY <2>1, <3>1 DEF StatsInv
  <2>5. CASE i # iter
    BY <2>1, <2>3, <2>5 DEF StatsInv
  <2> QED
    BY <2>4, <2>5
<1>4. ASSUME UNCHANGED <<stats, case_number>>, pc' \in InCase => pc \in InCase
      PROVE  StatsInv'
  BY <1>0, <1>4 DEF StatsInv, config
<1>5. CASE CleanStart \/ SkipCase \/ ComputeMeans \/ Finish
  <2>1. pc' \in {"case", "done"}
    BY <1>5 DEF CleanStart, SkipCase, ComputeMeans, Finish
  <2> QED
    BY <2>1 DEF StatsInv
<1>6. CASE BeginIteration \/ UNCHANGED vars
  BY <1>4, <1>6 DEF BeginIteration, vars, mainvars
<1>7. CASE WriteOpen \/ WriteOpenFails \/ WriteStep \/ WriteSeekFails
  BY <1>4, <1>7 DEF WriteOpen, WriteOpenFails, WriteStep, WriteSeekFails, mainvars
<1>8. CASE WriteStepFails \/ WriteLoopEnds \/ WriteSync
  BY <1>4, <1>8 DEF WriteStepFails, WriteLoopEnds, WriteSync, mainvars
<1>9. CASE ReadOpen \/ ReadOpenFails \/ ReadStep \/ ReadStepFails \/ ReadLoopEnds
  BY <1>4, <1>9 DEF ReadOpen, ReadOpenFails, ReadStep, ReadStepFails, ReadLoopEnds,
                    IterationEnds, mainvars
<1> QED
  BY <1>1, <1>2, <1>3, <1>5, <1>6, <1>7, <1>8, <1>9 DEF Next

LEMMA MeansKept ==
  ASSUME IInv, StatsInv, MeansOfWholePasses, [Next]_vars
  PROVE  MeansOfWholePasses'
<1>1. CASE ComputeMeans
  <2>1. PICK cfg : cfg = config
    OBVIOUS
  <2>2. pc = "mean" /\ case_number \in 1 .. TotalCases /\ ValidConfig(cfg)
    BY <1>1, <2>1, ConfigIsValid DEF ComputeMeans, IInv, CaseInv, InCase, config
  <2>3. cfg.file \in Nat
    BY <2>2 DEF ValidConfig
  <2>4. Writers \in SUBSET Iterations /\ Readers \in SUBSET Iterations
    BY DEF Writers, Readers
  <2>5. IsFiniteSet(Writers) /\ IsFiniteSet(Readers)
    BY <2>4, IterationsFinite, FS_Subset
  <2>6. /\ \A i \in Writers : WriteSpeed(i) = cfg.file
        /\ \A i \in Readers : ReadSpeed(i) = cfg.file
    BY <2>1, <2>2, <2>3 DEF StatsInv, InCase, Writers, Readers, WriteSpeed, ReadSpeed
  <2>7. PICK w, r : /\ w = MapThenSumSet(WriteSpeed, Writers)
                    /\ r = MapThenSumSet(ReadSpeed, Readers)
    OBVIOUS
  <2>8. w = cfg.file * Cardinality(Writers) /\ r = cfg.file * Cardinality(Readers)
    BY <2>3, <2>5, <2>6, <2>7, SumOfWriters, SumOfReaders
  <2>9. /\ Mean(Writers, w) = IF Rate(Writers) = 0 THEN -1 ELSE cfg.file
        /\ Mean(Readers, r) = IF Rate(Readers) = 0 THEN -1 ELSE cfg.file
    BY <2>3, <2>4, <2>8, MeanOfEqual
  <2>10. reports' = [n \in DOMAIN reports \union {case_number} |->
           IF n # case_number THEN reports[n]
           ELSE [avg_write_speed |-> Mean(Writers, w), avg_read_speed |-> Mean(Readers, r),
                 write_rate |-> Rate(Writers), read_rate |-> Rate(Readers)]]
    BY <1>1, <2>7 DEF ComputeMeans
  <2> SUFFICES ASSUME NEW n \in DOMAIN reports'
               PROVE  /\ reports'[n].avg_write_speed =
                           IF reports'[n].write_rate = 0 THEN -1 ELSE Case(n).file
                      /\ reports'[n].avg_read_speed =
                           IF reports'[n].read_rate = 0 THEN -1 ELSE Case(n).file
    BY DEF MeansOfWholePasses
  <2>11. CASE n = case_number
    BY <2>1, <2>9, <2>10, <2>11 DEF config
  <2>12. CASE n # case_number
    BY <2>10, <2>12 DEF MeansOfWholePasses
  <2> QED
    BY <2>11, <2>12
<1>2. ASSUME reports' = reports PROVE MeansOfWholePasses'
  BY <1>2 DEF MeansOfWholePasses
<1>3. CASE CleanStart \/ SkipCase \/ BeginCase \/ BeginIteration \/ Finish \/ UNCHANGED vars
  BY <1>2, <1>3 DEF CleanStart, SkipCase, BeginCase, BeginIteration, Finish, mainvars, vars
<1>4. CASE WriteOpen \/ WriteOpenFails \/ WriteStep \/ WriteSeekFails
  BY <1>2, <1>4 DEF WriteOpen, WriteOpenFails, WriteStep, WriteSeekFails, mainvars
<1>5. CASE WriteStepFails \/ WriteLoopEnds \/ WriteSync \/ WriteOut
  BY <1>2, <1>5 DEF WriteStepFails, WriteLoopEnds, WriteSync, WriteOut, mainvars
<1>6. CASE ReadOpen \/ ReadOpenFails \/ ReadStep \/ ReadStepFails \/ ReadLoopEnds \/ ReadOut
  BY <1>2, <1>6 DEF ReadOpen, ReadOpenFails, ReadStep, ReadStepFails, ReadLoopEnds, ReadOut,
                    mainvars
<1> QED
  BY <1>1, <1>3, <1>4, <1>5, <1>6 DEF Next

\* No mean is diluted by a pass that broke off, and there is a mean exactly
\* when some pass succeeded.
THEOREM MeansAreWhole == Spec => []MeansOfWholePasses
<1>1. Init => MInv
  BY InitInv, InitMeans DEF MInv
<1>2. MInv /\ [Next]_vars => MInv'
  BY StepInv, StatsKept, MeansKept DEF MInv
<1>3. MInv => MeansOfWholePasses
  BY DEF MInv
<1> QED
  BY <1>1, <1>2, <1>3, PTL DEF Spec
=============================================================================
