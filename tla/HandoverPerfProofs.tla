-------------------------- MODULE HandoverPerfProofs --------------------------
(***************************************************************************)
(* The programs of fs_perf_handover, for any file and block size, any      *)
(* volume, any file left on it, any number of iterations and of failing    *)
(* calls:                                                                  *)
(*                                                                         *)
(*   FatImplements    the FAT program is a run of FatPerf                  *)
(*   SeeksStayInside  its random round stays inside the file               *)
(*   CleanRunsHonest  without a failing call, both programs measure what   *)
(*                    they print                                           *)
(*   SequentialReads  a read test of the sequential round reads what its   *)
(*                    own iteration has written                            *)
(*                                                                         *)
(* The programs are the benchmarks of src/fs with one file and one block   *)
(* size, and most of the argument is theirs.  FP and LP are FatPerf and    *)
(* LfsPerf under the mappings below, and a step of a program is a step of  *)
(* the benchmark or leaves its variables alone.  So the invariants of the  *)
(* benchmarks hold here, FP!IInv of the FAT program and LP!IInv of the     *)
(* littlefs program, which reports other means and so is no run of LfsPerf *)
(* as a whole.                                                             *)
(* On top of them stand                                                    *)
(*                                                                         *)
(*   ControlInv     where main may be, and which arrays are shuffled then  *)
(*   SequentialInv  what the sequential loops have written and read        *)
(*   CleanInv, SpeedsInv, ReportsInv                                       *)
(*                  what a run without a failing call has measured, from   *)
(*                  the chunk through the pass to the mean                 *)
(***************************************************************************)
EXTENDS HandoverPerf, PerfGeometryProofs

-----------------------------------------------------------------------------
(* The benchmarks, seen in the handover programs.                          *)

\* FatPerf takes the next configuration where main begins a round.
fat_pc == IF pc = "round" THEN "config" ELSE pc
\* LfsPerf takes the next case there, and starts with the clean-up.
lfs_pc == IF pc = "clean" THEN "start" ELSE IF pc = "round" THEN "case" ELSE pc

\* They shuffle with each configuration: before the first round nothing is
\* shuffled for them.
rows_used == IF round = 0 THEN [k \in RowIndex |-> 0] ELSE randrows
cols_used == IF round = 0 THEN [k \in ColIndex |-> 0] ELSE randcols

FP == INSTANCE FatPerfProofs WITH
  CONFIGS <- [n \in Rounds |->
                [file |-> TEST_FILE_SIZE, block |-> TEST_BLOCK_SIZE, random |-> n = 2]],
  TEST_BLOCK_SIZE_MAX <- TEST_BLOCK_SIZE, SEEK_PAST_END <- FALSE,
  c <- round, pc <- fat_pc,
  randrows <- rows_used, randcols <- cols_used

LP == INSTANCE LfsPerfProofs WITH
  FILE_LENGTHS <- <<TEST_FILE_SIZE>>, BLOCK_LENGTHS <- <<TEST_BLOCK_SIZE>>,
  MIN_RANDOM_BLOCK <- 0, TEST_BLOCK_SIZE_MAX <- TEST_BLOCK_SIZE,
  case_number <- round, pc <- lfs_pc, reports <- <<>>,
  randrows <- rows_used, randcols <- cols_used

\* The operators of the two copies of FatPerf agree: Fat, whose actions the
\* program takes, and FP.
LEMMA FatConfig == FP!config = Fat!config /\ FP!Tag = Fat!Tag
BY DEF Fat!config, FP!config, Fat!Case, FP!Case, Fat!Config, FP!Config, Fat!Rows,
       FP!Rows, Fat!Cols, FP!Cols, Fat!Tag, FP!Tag

LEMMA FatChunk ==
  ASSUME NEW cfg, NEW off, NEW n
  PROVE  /\ FP!More(cfg) = Fat!More(cfg)
         /\ FP!ChunkSize(cfg) = Fat!ChunkSize(cfg)
         /\ FP!Storable(off, n) = Fat!Storable(off, n)
         /\ FP!Readable(off, n) = Fat!Readable(off, n)
BY DEF Fat!More, FP!More, Fat!ChunkSize, FP!ChunkSize, Fat!Storable, FP!Storable,
       Fat!Readable, FP!Readable, Fat!Smaller, FP!Smaller, Fat!Larger, FP!Larger

LEMMA FatOverwrite ==
  ASSUME NEW cells, NEW off, NEW n, NEW tag
  PROVE  FP!Overwrite(cells, off, n, tag) = Fat!Overwrite(cells, off, n, tag)
BY DEF Fat!Overwrite, FP!Overwrite, Fat!Hole, FP!Hole, Fat!Larger, FP!Larger

LEMMA FatOffset ==
  ASSUME NEW cfg, round \in 1 .. 2
  PROVE  /\ FP!Offset(cfg) = Fat!Offset(cfg)
BY DEF Fat!Offset, FP!Offset, rows_used, cols_used, Fat!RandomPermutationsGet,
       FP!RandomPermutationsGet

\* Where the calls of a round start and end, and what they leave alone.
LEMMA FatWriteInner ==
  ASSUME FatTestWrite
  PROVE  /\ program = "fat"
         /\ UNCHANGED <<program, round, randrows, randcols, mounted, reports, iter>>
         /\ pc \in {"wopen", "write", "wclose", "sync", "wout"}
         /\ pc' \in {"write", "wclose", "sync", "wout", "ropen", "done"}
BY DEF FatTestWrite, Fat!WriteOpen, Fat!WriteStep, Fat!WriteSeekFails,
       Fat!WriteStepFails, Fat!WriteFailureCloses, Fat!WriteLoopEnds, Fat!WriteSync,
       Fat!WriteOut, Fat!Goto, Fat!Returned, Fat!mainvars, Fat!chunkvars, Fat!arrays,
       Fat!WriteChunk, Fat!SeekFails, Fat!WriteFails

LEMMA FatReadInner ==
  ASSUME FatTestRead
  PROVE  /\ program = "fat"
         /\ UNCHANGED <<program, round, randrows, randcols, mounted, reports>>
         /\ pc \in {"ropen", "read", "rclose", "rout"}
         /\ pc' \in {"read", "rclose", "rout", "wopen", "mean", "done"}
BY DEF FatTestRead, Fat!ReadOpen, Fat!ReadOpenFails, Fat!ReadStep, Fat!ReadSeekFails,
       Fat!ReadStepFails, Fat!ReadFailureCloses, Fat!ReadLoopEnds, Fat!ReadOut,
       Fat!Goto, Fat!IterationEnds, Fat!mainvars, Fat!chunkvars, Fat!arrays,
       Fat!ReadChunk, Fat!SeekFails, Fat!ReadFails

LEMMA LfsWriteInner ==
  ASSUME LfsTestWrite
  PROVE  /\ program = "lfs"
         /\ UNCHANGED <<program, round, randrows, randcols, mounted, reports, iter, fresh>>
         /\ pc \in {"wopen", "write", "sync", "wout"}
         /\ pc' \in {"write", "sync", "wout", "ropen"}
BY DEF LfsTestWrite, Lfs!WriteOpen, Lfs!WriteOpenFails, Lfs!WriteStep,
       Lfs!WriteSeekFails, Lfs!WriteStepFails, Lfs!WriteLoopEnds, Lfs!WriteSync,
       Lfs!WriteOut, Lfs!Goto, Lfs!mainvars, Lfs!chunkvars, Lfs!arrays, Lfs!WriteChunk,
       Lfs!SeekFails, Lfs!WriteFails

LEMMA LfsReadInner ==
  ASSUME LfsTestRead
  PROVE  /\ program = "lfs"
         /\ UNCHANGED <<program, round, randrows, randcols, mounted, reports, fresh>>
         /\ pc \in {"ropen", "read", "rout"}
         /\ pc' \in {"read", "rout", "unlink", "mean"}
BY DEF LfsTestRead, Lfs!ReadOpen, Lfs!ReadOpenFails, Lfs!ReadStep, Lfs!ReadStepFails,
       Lfs!ReadLoopEnds, Lfs!ReadOut, Lfs!Goto, Lfs!IterationEnds, Lfs!mainvars,
       Lfs!chunkvars, Lfs!arrays, Lfs!ReadChunk, Lfs!SeekFails, Lfs!ReadFails

\* A step of test_write or test_read is the same step of FP.
LEMMA FatLoopCalls ==
  ASSUME round \in 1 .. 2, round' = round, NEW cfg, NEW tag, NEW n
  PROVE  /\ Fat!WriteChunk(cfg, tag) => FP!WriteChunk(cfg, tag)
         /\ Fat!WriteFails(cfg, tag, n) => FP!WriteFails(cfg, tag, n)
         /\ Fat!ReadChunk(cfg) => FP!ReadChunk(cfg)
         /\ Fat!ReadFails(cfg, n) => FP!ReadFails(cfg, n)
         /\ Fat!SeekFails(cfg) => FP!SeekFails(cfg)
         /\ FP!SeekRefused(cfg) = Fat!SeekRefused(cfg)
<1> USE FatChunk, FatOverwrite, FatOffset
    DEF rows_used, cols_used, Fat!Works, FP!Works, Fat!Fails, FP!Fails
<1>1. Fat!WriteChunk(cfg, tag) => FP!WriteChunk(cfg, tag)
  BY DEF Fat!WriteChunk, FP!WriteChunk, Fat!Stored, FP!Stored, Fat!Advance, FP!Advance,
         Fat!WalkNext, FP!WalkNext
<1>2. Fat!WriteFails(cfg, tag, n) => FP!WriteFails(cfg, tag, n)
  BY DEF Fat!WriteFails, FP!WriteFails, Fat!Stored, FP!Stored
<1>3. Fat!ReadChunk(cfg) => FP!ReadChunk(cfg)
  BY DEF Fat!ReadChunk, FP!ReadChunk, Fat!Advance, FP!Advance, Fat!WalkNext, FP!WalkNext
<1>4. Fat!ReadFails(cfg, n) => FP!ReadFails(cfg, n)
  BY DEF Fat!ReadFails, FP!ReadFails
<1>5. Fat!SeekFails(cfg) => FP!SeekFails(cfg)
  BY DEF Fat!SeekFails, FP!SeekFails
<1>6. FP!SeekRefused(cfg) = Fat!SeekRefused(cfg)
  BY DEF Fat!SeekRefused, FP!SeekRefused
<1> QED
  BY <1>1, <1>2, <1>3, <1>4, <1>5, <1>6

LEMMA FatWriteMaps ==
  ASSUME FatTestWrite, round \in 1 .. 2
  PROVE  FP!Next
<1> USE FatConfig, FatLoopCalls, FatChunk
    DEF fat_pc, rows_used, cols_used, Fat!Goto, FP!Goto, Fat!Works, FP!Works, Fat!Fails,
        FP!Fails, Fat!Returned, FP!Returned, Fat!arrays, FP!arrays, Fat!loopvars,
        FP!loopvars, Fat!mainvars, FP!mainvars, Fat!chunkvars, FP!chunkvars
<1>0. round' = round /\ pc # "round" /\ pc' # "round"
  BY FatWriteInner
<1>1. Fat!WriteOpen => FP!WriteOpen
  BY <1>0
     DEF Fat!WriteOpen, FP!WriteOpen, Fat!OpenForWriting, FP!OpenForWriting,
         Fat!BeginLoop, FP!BeginLoop, Fat!WalkStart, FP!WalkStart
<1>2. Fat!WriteStep => FP!WriteStep
  BY <1>0 DEF Fat!WriteStep, FP!WriteStep
<1>3. Fat!WriteSeekFails => FP!WriteSeekFails
  BY <1>0 DEF Fat!WriteSeekFails, FP!WriteSeekFails
<1>4. Fat!WriteStepFails => FP!WriteStepFails
  BY <1>0 DEF Fat!WriteStepFails, FP!WriteStepFails
<1>5. Fat!WriteFailureCloses => FP!WriteFailureCloses
  BY <1>0
     DEF Fat!WriteFailureCloses, FP!WriteFailureCloses, Fat!Close, FP!Close,
         Fat!CloseWorks, FP!CloseWorks, Fat!CloseFails, FP!CloseFails, Fat!Closed,
         FP!Closed, Fat!Commit, FP!Commit
<1>6. Fat!WriteLoopEnds => FP!WriteLoopEnds
  BY <1>0 DEF Fat!WriteLoopEnds, FP!WriteLoopEnds
<1>7. Fat!WriteSync => FP!WriteSync
  BY <1>0 DEF Fat!WriteSync, FP!WriteSync, Fat!Sync, FP!Sync, Fat!Commit, FP!Commit
<1>8. Fat!WriteOut => FP!WriteOut
  BY <1>0
     DEF Fat!WriteOut, FP!WriteOut, Fat!Close, FP!Close, Fat!CloseWorks, FP!CloseWorks,
         Fat!CloseFails, FP!CloseFails, Fat!Closed, FP!Closed, Fat!Commit, FP!Commit
<1> QED
  BY <1>1, <1>2, <1>3, <1>4, <1>5, <1>6, <1>7, <1>8 DEF FatTestWrite, FP!Next

LEMMA FatReadMaps ==
  ASSUME FatTestRead, round \in 1 .. 2
  PROVE  FP!Next
<1> USE FatConfig, FatLoopCalls, FatChunk
    DEF fat_pc, rows_used, cols_used, Fat!Goto, FP!Goto, Fat!Works, FP!Works, Fat!Fails,
        FP!Fails, Fat!IterationEnds, FP!IterationEnds, Fat!arrays, FP!arrays,
        Fat!loopvars, FP!loopvars, Fat!mainvars, FP!mainvars, Fat!chunkvars,
        FP!chunkvars
<1>0. round' = round /\ pc # "round" /\ pc' # "round"
  BY FatReadInner
<1>1. Fat!ReadOpen => FP!ReadOpen
  BY <1>0
     DEF Fat!ReadOpen, FP!ReadOpen, Fat!OpenForReading, FP!OpenForReading,
         Fat!BeginLoop, FP!BeginLoop, Fat!WalkStart, FP!WalkStart
<1>2. Fat!ReadOpenFails => FP!ReadOpenFails
  BY <1>0 DEF Fat!ReadOpenFails, FP!ReadOpenFails
<1>3. Fat!ReadStep => FP!ReadStep
  BY <1>0 DEF Fat!ReadStep, FP!ReadStep
<1>4. Fat!ReadSeekFails => FP!ReadSeekFails
  BY <1>0 DEF Fat!ReadSeekFails, FP!ReadSeekFails
<1>5. Fat!ReadStepFails => FP!ReadStepFails
  BY <1>0 DEF Fat!ReadStepFails, FP!ReadStepFails
<1>6. Fat!ReadFailureCloses => FP!ReadFailureCloses
  BY <1>0
     DEF Fat!ReadFailureCloses, FP!ReadFailureCloses, Fat!CloseReading, FP!CloseReading,
         Fat!Closed, FP!Closed
<1>7. Fat!ReadLoopEnds => FP!ReadLoopEnds
  BY <1>0 DEF Fat!ReadLoopEnds, FP!ReadLoopEnds
<1>8. Fat!ReadOut => FP!ReadOut
  BY <1>0
     DEF Fat!ReadOut, FP!ReadOut, Fat!CloseReading, FP!CloseReading, Fat!Closed,
         FP!Closed
<1> QED
  BY <1>1, <1>2, <1>3, <1>4, <1>5, <1>6, <1>7, <1>8 DEF FatTestRead, FP!Next

\* The same for littlefs, with Lfs and LP.
LEMMA LfsConfig ==
  ASSUME round \in 1 .. 2
  PROVE  /\ LP!config = Lfs!config
         /\ \A i : LP!Tag(i) = Lfs!Tag(i)
BY DEF Lfs!config, LP!config, Lfs!Case, LP!Case, Lfs!Config, LP!Config, Lfs!Rows,
       LP!Rows, Lfs!Cols, LP!Cols, Lfs!Tag, LP!Tag

LEMMA LfsChunk ==
  ASSUME NEW cfg, NEW off, NEW n
  PROVE  /\ LP!More(cfg) = Lfs!More(cfg)
         /\ LP!ChunkSize(cfg) = Lfs!ChunkSize(cfg)
         /\ LP!Storable(off, n) = Lfs!Storable(off, n)
         /\ LP!Readable(off, n) = Lfs!Readable(off, n)
BY DEF Lfs!More, LP!More, Lfs!ChunkSize, LP!ChunkSize, Lfs!Storable, LP!Storable,
       Lfs!Readable, LP!Readable, Lfs!Smaller, LP!Smaller, Lfs!Larger, LP!Larger

LEMMA LfsOverwrite ==
  ASSUME NEW cells, NEW off, NEW n, NEW tag
  PROVE  LP!Overwrite(cells, off, n, tag) = Lfs!Overwrite(cells, off, n, tag)
BY DEF Lfs!Overwrite, LP!Overwrite, Lfs!Hole, LP!Hole, Lfs!Larger, LP!Larger

LEMMA LfsOffset ==
  ASSUME NEW cfg, round \in 1 .. 2
  PROVE  LP!Offset(cfg) = Lfs!Offset(cfg)
BY DEF Lfs!Offset, LP!Offset, rows_used, cols_used, Lfs!RandomPermutationsGet,
       LP!RandomPermutationsGet

LEMMA LfsLoopCalls ==
  ASSUME round \in 1 .. 2, round' = round, NEW cfg, NEW tag, NEW n
  PROVE  /\ Lfs!WriteChunk(cfg, tag) => LP!WriteChunk(cfg, tag)
         /\ Lfs!WriteFails(cfg, tag, n) => LP!WriteFails(cfg, tag, n)
         /\ Lfs!ReadChunk(cfg) => LP!ReadChunk(cfg)
         /\ Lfs!ReadFails(cfg, n) => LP!ReadFails(cfg, n)
         /\ Lfs!SeekFails(cfg) => LP!SeekFails(cfg)
<1> USE LfsChunk, LfsOverwrite, LfsOffset
    DEF rows_used, cols_used, Lfs!Works, LP!Works, Lfs!Fails, LP!Fails
<1>1. Lfs!WriteChunk(cfg, tag) => LP!WriteChunk(cfg, tag)
  BY DEF Lfs!WriteChunk, LP!WriteChunk, Lfs!Stored, LP!Stored, Lfs!Advance, LP!Advance,
         Lfs!WalkNext, LP!WalkNext
<1>2. Lfs!WriteFails(cfg, tag, n) => LP!WriteFails(cfg, tag, n)
  BY DEF Lfs!WriteFails, LP!WriteFails, Lfs!Stored, LP!Stored
<1>3. Lfs!ReadChunk(cfg) => LP!ReadChunk(cfg)
  BY DEF Lfs!ReadChunk, LP!ReadChunk, Lfs!Advance, LP!Advance, Lfs!WalkNext, LP!WalkNext
<1>4. Lfs!ReadFails(cfg, n) => LP!ReadFails(cfg, n)
  BY DEF Lfs!ReadFails, LP!ReadFails
<1>5. Lfs!SeekFails(cfg) => LP!SeekFails(cfg)
  BY DEF Lfs!SeekFails, LP!SeekFails
<1> QED
  BY <1>1, <1>2, <1>3, <1>4, <1>5

LEMMA LfsWriteMaps ==
  ASSUME LfsTestWrite, round \in 1 .. 2
  PROVE  \/ LP!WriteOpen \/ LP!WriteOpenFails \/ LP!WriteStep \/ LP!WriteSeekFails
         \/ LP!WriteStepFails \/ LP!WriteLoopEnds \/ LP!WriteSync \/ LP!WriteOut
<1> USE LfsConfig, LfsLoopCalls, LfsChunk
    DEF lfs_pc, rows_used, cols_used, Lfs!Goto, LP!Goto, Lfs!Works, LP!Works, Lfs!Fails,
        LP!Fails, Lfs!arrays, LP!arrays, Lfs!loopvars, LP!loopvars, Lfs!mainvars,
        LP!mainvars, Lfs!chunkvars, LP!chunkvars
<1>0. round' = round /\ pc \notin {"clean", "round"} /\ pc' \notin {"clean", "round"}
  BY LfsWriteInner
<1>1. Lfs!WriteOpen => LP!WriteOpen
  BY <1>0
     DEF Lfs!WriteOpen, LP!WriteOpen, Lfs!OpenForWriting, LP!OpenForWriting,
         Lfs!BeginLoop, LP!BeginLoop, Lfs!WalkStart, LP!WalkStart
<1>2. Lfs!WriteOpenFails => LP!WriteOpenFails
  BY <1>0 DEF Lfs!WriteOpenFails, LP!WriteOpenFails
<1>3. Lfs!WriteStep => LP!WriteStep
  BY <1>0 DEF Lfs!WriteStep, LP!WriteStep
<1>4. Lfs!WriteSeekFails => LP!WriteSeekFails
  BY <1>0 DEF Lfs!WriteSeekFails, LP!WriteSeekFails
<1>5. Lfs!WriteStepFails => LP!WriteStepFails
  BY <1>0 DEF Lfs!WriteStepFails, LP!WriteStepFails
<1>6. Lfs!WriteLoopEnds => LP!WriteLoopEnds
  BY <1>0 DEF Lfs!WriteLoopEnds, LP!WriteLoopEnds
<1>7. Lfs!WriteSync => LP!WriteSync
  BY <1>0 DEF Lfs!WriteSync, LP!WriteSync, Lfs!Sync, LP!Sync, Lfs!Commit, LP!Commit
<1>8. Lfs!WriteOut => LP!WriteOut
  BY <1>0
     DEF Lfs!WriteOut, LP!WriteOut, Lfs!CloseWorks, LP!CloseWorks, Lfs!CloseFails,
         LP!CloseFails, Lfs!Closed, LP!Closed, Lfs!Commit, LP!Commit
<1> QED
  BY <1>1, <1>2, <1>3, <1>4, <1>5, <1>6, <1>7, <1>8 DEF LfsTestWrite

LEMMA LfsReadMaps ==
  ASSUME LfsTestRead, round \in 1 .. 2
  PROVE  \/ LP!ReadOpen \/ LP!ReadOpenFails \/ LP!ReadStep \/ LP!ReadStepFails
         \/ LP!ReadLoopEnds \/ LP!ReadOut
<1> USE LfsConfig, LfsLoopCalls, LfsChunk
    DEF lfs_pc, rows_used, cols_used, Lfs!Goto, LP!Goto, Lfs!Works, LP!Works, Lfs!Fails,
        LP!Fails, Lfs!IterationEnds, LP!IterationEnds, Lfs!arrays, LP!arrays,
        Lfs!loopvars, LP!loopvars, Lfs!mainvars, LP!mainvars, Lfs!chunkvars,
        LP!chunkvars
<1>0. round' = round /\ pc \notin {"clean", "round"} /\ pc' \notin {"clean", "round"}
  BY LfsReadInner
<1>1. Lfs!ReadOpen => LP!ReadOpen
  BY <1>0
     DEF Lfs!ReadOpen, LP!ReadOpen, Lfs!OpenForReading, LP!OpenForReading,
         Lfs!BeginLoop, LP!BeginLoop, Lfs!WalkStart, LP!WalkStart
<1>2. Lfs!ReadOpenFails => LP!ReadOpenFails
  BY <1>0 DEF Lfs!ReadOpenFails, LP!ReadOpenFails
<1>3. Lfs!ReadStep => LP!ReadStep
  BY <1>0 DEF Lfs!ReadStep, LP!ReadStep
<1>4. Lfs!ReadStepFails => LP!ReadStepFails
  BY <1>0 DEF Lfs!ReadStepFails, LP!ReadStepFails
<1>5. Lfs!ReadLoopEnds => LP!ReadLoopEnds
  BY <1>0 DEF Lfs!ReadLoopEnds, LP!ReadLoopEnds
<1>6. Lfs!ReadOut => LP!ReadOut
  BY <1>0
     DEF Lfs!ReadOut, LP!ReadOut, Lfs!CloseReading, LP!CloseReading, Lfs!Closed,
         LP!Closed
<1> QED
  BY <1>1, <1>2, <1>3, <1>4, <1>5, <1>6 DEF LfsTestRead

\* One block length divides the file into at most a row of blocks.
LEMMA Sizes ==
  /\ TEST_FILE_SIZE \in Nat \ {0} /\ TEST_BLOCK_SIZE \in Nat \ {0}
  /\ TEST_BLOCK_SIZE <= TEST_FILE_SIZE
  /\ TEST_FILE_SIZE % TEST_BLOCK_SIZE = 0
  /\ TEST_FILE_SIZE \div TEST_BLOCK_SIZE \in Nat
  /\ TEST_FILE_SIZE \div TEST_BLOCK_SIZE <= RANDOM_COL_RANGE
<1> DEFINE q == TEST_FILE_SIZE \div TEST_BLOCK_SIZE
<1>1. /\ TEST_FILE_SIZE \in Nat /\ TEST_BLOCK_SIZE \in Nat \ {0}
      /\ TEST_FILE_SIZE % TEST_BLOCK_SIZE = 0
      /\ q \in 1 .. RANDOM_COL_RANGE /\ RANDOM_COL_RANGE \in Nat
  BY HandoverAssumption, RangesAssumption DEF UINT16_SIZE
<1>2. TEST_FILE_SIZE = TEST_BLOCK_SIZE * q
  BY <1>1
<1> HIDE DEF q
<1>3. q \in Nat /\ q > 0
  BY <1>1
<1>4. TEST_FILE_SIZE >= TEST_BLOCK_SIZE
  BY <1>1, <1>2, <1>3
<1> QED
  BY <1>1, <1>3, <1>4 DEF q

\* What FatPerf and LfsPerf assume of their tables holds of the one file and
\* block size.
LEMMA FatAssumptions ==
  FP!RangesAssumption /\ FP!VolumeAssumption /\ FP!FatPerfAssumption /\ FP!SequentialFirst
<1>1. FP!RangesAssumption /\ FP!VolumeAssumption
  BY RangesAssumption, VolumeAssumption
     DEF UINT8_SIZE, UINT16_SIZE, FP!UINT8_SIZE, FP!UINT16_SIZE
<1> DEFINE C == [n \in Rounds |->
                  [file |-> TEST_FILE_SIZE, block |-> TEST_BLOCK_SIZE, random |-> n = 2]]
<1>2. C \in Seq([file : Nat \ {0}, block : Nat \ {0}, random : BOOLEAN])
  BY Sizes DEF Rounds
<1>3. FP!FatPerfAssumption
  BY <1>2, Sizes, HandoverAssumption DEF Rounds
<1>4. ~FP!Skipped(FP!Case(1))
  <2>1. /\ FP!Case(1).file = TEST_FILE_SIZE /\ FP!Case(1).block = TEST_BLOCK_SIZE
    BY DEF FP!Case, FP!Config, Rounds
  <2>2. FP!Accepted(TEST_FILE_SIZE \div TEST_BLOCK_SIZE)
    BY Sizes, RangesAssumption DEF FP!Accepted, FP!Rows, FP!Cols, UINT8_SIZE, UINT16_SIZE
  <2> QED
    BY <2>1, <2>2, Sizes DEF FP!Skipped
<1>5. FP!SequentialFirst
  <2>1. DOMAIN C = 1 .. 2 /\ ~C[1].random /\ C[1].file = C[2].file
    <3>1. 1 \in Rounds /\ 2 \in Rounds /\ 1 # 2 /\ Rounds = 1 .. 2
      BY DEF Rounds
    <3> QED
      BY <3>1, Zenon
  <2>2. ASSUME NEW n \in DOMAIN C, C[n].random
        PROVE  \E m \in 1 .. n - 1 :
                 ~C[m].random /\ C[m].file = C[n].file /\ ~FP!Skipped(FP!Case(m))
    <3>1. n = 2
      BY <2>1, <2>2
    <3>2. 1 \in 1 .. n - 1
      BY <3>1
    <3> HIDE DEF C
    <3> QED
      BY <1>4, <2>1, <3>1, <3>2
  <2> QED
    BY <2>2, Zenon
<1> QED
  BY <1>1, <1>3, <1>5

LEMMA LfsAssumptions ==
  LP!RangesAssumption /\ LP!VolumeAssumption /\ LP!LfsPerfAssumption
<1>1. LP!RangesAssumption /\ LP!VolumeAssumption
  BY RangesAssumption, VolumeAssumption
     DEF UINT8_SIZE, UINT16_SIZE, LP!UINT8_SIZE, LP!UINT16_SIZE
<1>3. LP!LfsPerfAssumption
  BY Sizes, HandoverAssumption
<1> QED
  BY <1>1, <1>3

\* So their invariants are kept by their steps.
LEMMA FatStep == FP!IInv /\ [FP!Next]_(FP!vars) => FP!IInv'
BY FP!StepInv, FatAssumptions

LEMMA LfsStep == LP!IInv /\ [LP!Next]_(LP!vars) => LP!IInv'
BY LP!StepInv, LfsAssumptions

-----------------------------------------------------------------------------
(* The control of main.                                                    *)

InRound == pc \notin {"mount", "clean", "round", "unmount", "done"}

\* Where main may be, in which round and with which volume.
MainInv ==
  /\ program \in {"lfs", "fat"} /\ round \in 0 .. 2 /\ mounted \in BOOLEAN
  /\ program = "lfs" => pc \notin {"mount", "unmount"} /\ mounted
  /\ program = "fat" => (pc = "mount" => ~mounted) /\ (pc \notin {"mount", "done"} => mounted)
  /\ pc \in {"mount", "clean"} => round = 0
  /\ InRound => round \in 1 .. 2
  /\ pc = "done" /\ mounted => round \in 1 .. 2
  /\ pc \notin {"start", "case"}

NoRows == [k \in RowIndex |-> 0]
NoCols == [k \in ColIndex |-> 0]

\* Nothing is shuffled before Prepare; after it the arrays hold what one
\* shuffle for the file leaves.
ShuffledInv ==
  /\ pc \in {"mount", "clean"} => randrows = NoRows /\ randcols = NoCols
  /\ pc = "round" \/ round > 0 =>
       /\ randrows \in Shuffles(NoRows, Case(1).rows)
       /\ randcols \in Shuffles(NoCols, Case(1).cols)

\* Which rounds have been reported.
ReportedInv ==
  /\ pc \in {"mount", "clean", "round", "unmount"} => DOMAIN reports = 1 .. round
  /\ InRound => DOMAIN reports = 1 .. round - 1
  /\ pc = "unmount" => round = 2
  /\ pc = "done" /\ (program = "lfs" \/ (faults = 0 /\ ~mounted)) => DOMAIN reports = Rounds

ControlInv == MainInv /\ ShuffledInv /\ ReportedInv

LEMMA InitControl == Init => ControlInv
<1> SUFFICES ASSUME Init PROVE ControlInv
  OBVIOUS
<1>1. MainInv
  <2>1. /\ program \in {"lfs", "fat"} /\ mounted \in BOOLEAN
        /\ program = "lfs" => mounted
        /\ program = "fat" => ~mounted
    <3>1. /\ program \in PROGRAMS /\ PROGRAMS \subseteq {"lfs", "fat"}
          /\ mounted = (program = "lfs")
      BY HandoverAssumption DEF Init
    <3>2. "fat" # "lfs"
      OBVIOUS
    <3> QED
      BY <3>1, <3>2, Zenon
  <2> QED
    BY <2>1 DEF Init, MainInv, InRound
<1>2. ShuffledInv
  BY DEF Init, ChunkInit, ShuffledInv, NoRows, NoCols
<1>3. ReportedInv
  BY DEF Init, ReportedInv, InRound
<1> QED
  BY <1>1, <1>2, <1>3 DEF ControlInv

\* The steps between the rounds.
LEMMA MainKeepsControl ==
  ASSUME ControlInv, faults \in Nat,
         FatMounting \/ Prepare \/ BeginRound \/ BeginIteration \/ LfsFinish \/ FatFinish
  PROVE  ControlInv'
<1> USE DEF ControlInv, InRound, Goto
<1>1. CASE FatMounting
  <2> USE DEF FatMounting, Fat!Mount, Fat!Unmount, Fat!Goto, Fat!arrays, Fat!Works,
              Fat!Fails
  <2>1. mounted' \in BOOLEAN
    BY <1>1, Zenon DEF MainInv
  <2>2. MainInv'
    <3>1. pc = "unmount" => round = 2 /\ round' = 2
      BY <1>1 DEF ReportedInv
    <3> QED
      BY <1>1, <2>1, <3>1 DEF MainInv
  <2>3. program = "fat" /\ program' = "fat" /\ UNCHANGED <<round, randrows, randcols, reports>>
    BY <1>1 DEF MainInv
  <2>4. CASE pc = "mount"
    <3>1. round = 0 /\ pc' \in {"clean", "done"} /\ (pc' = "done" => faults' = faults + 1)
      BY <1>1, <2>4 DEF MainInv
    <3> QED
      BY <2>2, <2>3, <2>4, <3>1 DEF ShuffledInv, ReportedInv
  <2>5. CASE pc = "unmount"
    <3>1. pc' = "done"
      BY <1>1, <2>5
    <3> QED
      BY <2>2, <2>3, <2>5, <3>1 DEF ShuffledInv, ReportedInv, Rounds
  <2> QED
    BY <1>1, <2>4, <2>5
<1>2. CASE Prepare
  <2>1. /\ randrows' \in Shuffles(NoRows, Case(1).rows)
        /\ randcols' \in Shuffles(NoCols, Case(1).cols)
    BY <1>2 DEF Prepare, Shuffle, RandomPermutationsInitialize, ShuffledInv
  <2> QED
    BY <1>2, <2>1 DEF Prepare, MainInv, ShuffledInv, ReportedInv
<1>3. CASE BeginRound
  BY <1>3 DEF BeginRound, chunkvars, MainInv, ShuffledInv, ReportedInv
<1>4. CASE BeginIteration
  BY <1>4 DEF BeginIteration, Lfs!BeginIteration, Lfs!Goto, Lfs!arrays, Lfs!mainvars,
              MainInv, ShuffledInv, ReportedInv
<1>5. CASE LfsFinish
  BY <1>5 DEF LfsFinish, chunkvars, MainInv, ShuffledInv, ReportedInv, Rounds
<1>6. CASE FatFinish
  BY <1>6 DEF FatFinish, arrays, MainInv, ShuffledInv, ReportedInv
<1> QED
  BY <1>1, <1>2, <1>3, <1>4, <1>5, <1>6

\* The steps of a round.
LEMMA RoundKeepsControl ==
  ASSUME ControlInv,
         LfsTestWrite \/ LfsTestRead \/ FatTestWrite \/ FatTestRead \/ ComputeMeans
  PROVE  ControlInv'
<1> USE DEF ControlInv, InRound
<1>1. CASE LfsTestWrite
  BY <1>1, LfsWriteInner DEF MainInv, ShuffledInv, ReportedInv
<1>2. CASE LfsTestRead
  BY <1>2, LfsReadInner DEF MainInv, ShuffledInv, ReportedInv
<1>3. CASE FatTestWrite
  BY <1>3, FatWriteInner DEF MainInv, ShuffledInv, ReportedInv
<1>4. CASE FatTestRead
  BY <1>4, FatReadInner DEF MainInv, ShuffledInv, ReportedInv
<1>5. CASE ComputeMeans
  BY <1>5 DEF ComputeMeans, Goto, chunkvars, MainInv, ShuffledInv, ReportedInv
<1> QED
  BY <1>1, <1>2, <1>3, <1>4, <1>5

\* The sums the means are computed from are those of FatPerf.
LEMMA SameMeans ==
  ASSUME program = "fat"
  PROVE  /\ TotalSpeed(WriteSpeed) = FP!MapThenSumSet(FP!WriteSpeed, FP!Iterations)
         /\ TotalSpeed(ReadSpeed) = FP!MapThenSumSet(FP!ReadSpeed, FP!Iterations)
<1>1. WriteSpeed = "write_speed" /\ ReadSpeed = "read_speed"
  BY DEF WriteSpeed, ReadSpeed
<1>2. TotalSpeed("write_speed") = FP!MapThenSumSet(FP!WriteSpeed, FP!Iterations)
  BY DEF TotalSpeed, MapThenSumSet, MapThenFoldSet, FP!MapThenSumSet, FP!MapThenFoldSet,
         FP!WriteSpeed, Iterations, FP!Iterations
<1>3. TotalSpeed("read_speed") = FP!MapThenSumSet(FP!ReadSpeed, FP!Iterations)
  BY DEF TotalSpeed, MapThenSumSet, MapThenFoldSet, FP!MapThenSumSet, FP!MapThenFoldSet,
         FP!ReadSpeed, Iterations, FP!Iterations
<1> QED
  BY <1>1, <1>2, <1>3

\* The configuration of a round, as FatPerf sees it.
LEMMA FatRound ==
  ASSUME NEW n \in 1 .. 2
  PROVE  /\ ~FP!Skipped(FP!Case(n))
         /\ FP!Case(n).rows = Case(1).rows /\ FP!Case(n).cols = Case(1).cols
         /\ FP!Case(n).file = TEST_FILE_SIZE
<1>1. /\ FP!Case(n).file = TEST_FILE_SIZE /\ FP!Case(n).block = TEST_BLOCK_SIZE
      /\ FP!Case(n).rows = FP!Rows(TEST_FILE_SIZE \div TEST_BLOCK_SIZE)
      /\ FP!Case(n).cols = FP!Cols(TEST_FILE_SIZE \div TEST_BLOCK_SIZE)
  BY DEF FP!Case, FP!Config, Rounds
<1>2. FP!Accepted(TEST_FILE_SIZE \div TEST_BLOCK_SIZE)
  BY Sizes, RangesAssumption DEF FP!Accepted, FP!Rows, FP!Cols, UINT8_SIZE, UINT16_SIZE
<1>3. ~FP!Skipped(FP!Case(n))
  BY <1>1, <1>2, Sizes DEF FP!Skipped
<1> QED
  BY <1>1, <1>3 DEF Case, Config, Rows, Cols, FP!Rows, FP!Cols

\* An array that has been shuffled may be the result of shuffling it again.
LEMMA Reshuffled ==
  ASSUME NEW a, NEW n, NEW f \in Shuffles(a, n)
  PROVE  f \in Shuffles(f, n)
BY DEF Shuffles

\* There are two configurations, and none is skipped.
LEMMA TwoRounds ==
  Len([n \in Rounds |->
        [file |-> TEST_FILE_SIZE, block |-> TEST_BLOCK_SIZE, random |-> n = 2]]) = 2
<1> DEFINE C(n) == [file |-> TEST_FILE_SIZE, block |-> TEST_BLOCK_SIZE, random |-> n = 2]
<1> HIDE DEF C
<1>1. Len([n \in Rounds |-> C(n)]) = 2
  BY DEF Rounds
<1> QED
  BY <1>1 DEF C

\* Between the rounds, too, a step of main is one of FatPerf.
LEMMA FatMainMaps ==
  ASSUME ControlInv, program = "fat",
         FatMounting \/ Prepare \/ BeginRound \/ ComputeMeans \/ FatFinish
  PROVE  FP!Next
<1> USE DEF ControlInv, fat_pc, rows_used, cols_used, Goto, Fat!Goto, FP!Goto, arrays,
            Fat!arrays, FP!arrays, loopvars, Fat!loopvars, FP!loopvars, chunkvars,
            FP!chunkvars, FP!mainvars, Works, Fails, Fat!Works, FP!Works, Fat!Fails,
            FP!Fails
<1>1. CASE FatMounting
  <2>1. Fat!Mount => FP!Mount
    BY <1>1 DEF FatMounting, Fat!Mount, FP!Mount, MainInv
  <2>2. Fat!Unmount => FP!Unmount
    BY <1>1 DEF FatMounting, Fat!Unmount, FP!Unmount, MainInv, ReportedInv
  <2> QED
    BY <1>1, <2>1, <2>2 DEF FatMounting, FP!Next
<1>2. CASE Prepare
  <2>1. FP!CleanStart
    BY <1>2 DEF Prepare, FP!CleanStart, MainInv, Unlink, FP!Unlink, NoFile, FP!NoFile
  <2> QED
    BY <2>1 DEF FP!Next
<1>3. CASE BeginRound
  <2>1. /\ round \in 0 .. 1 /\ round' = round + 1
        /\ randrows \in Shuffles(NoRows, Case(1).rows)
        /\ randcols \in Shuffles(NoCols, Case(1).cols)
    BY <1>3 DEF BeginRound, MainInv, ShuffledInv
  <2>2. /\ rows_used' = randrows /\ rows_used \in {NoRows, randrows}
        /\ cols_used' = randcols /\ cols_used \in {NoCols, randcols}
    BY <1>3, <2>1 DEF BeginRound, NoRows, NoCols
  <2>3. /\ rows_used' \in Shuffles(rows_used, Case(1).rows)
        /\ cols_used' \in Shuffles(cols_used, Case(1).cols)
    BY <2>1, <2>2, Reshuffled
  <2>4. FP!RandomPermutationsInitialize(FP!Case(round + 1))
    BY <2>1, <2>3, FatRound DEF FP!RandomPermutationsInitialize, Shuffles, FP!Shuffles,
                                IsPermutation, FP!IsPermutation
  <2>5. FP!BeginConfig
    <3>1. /\ fat_pc = "config" /\ fat_pc' = "wopen" /\ iter' = 0
          /\ UNCHANGED <<disk, handle, at, total, faults, mounted, rc, reports>>
      BY <1>3 DEF BeginRound
    <3>2. ~FP!Skipped(FP!Case(round + 1)) /\ round < 2
      BY <2>1, FatRound
    <3>3. stats' = [n \in FP!Iterations |-> FP!NoStats]
      BY <1>3 DEF BeginRound, NoStats, Fat!NoStats, FP!NoStats, Iterations, FP!Iterations
    <3> QED
      BY <2>1, <2>4, <3>1, <3>2, <3>3, TwoRounds DEF FP!BeginConfig
  <2> QED
    BY <2>5 DEF FP!Next
<1>4. CASE ComputeMeans
  <2>1. FP!ComputeMeans
    BY <1>4, SameMeans DEF ComputeMeans, FP!ComputeMeans, MainInv, InRound
  <2> QED
    BY <2>1 DEF FP!Next
<1>5. CASE FatFinish
  <2>1. FP!FinishConfigs
    BY <1>5, TwoRounds
       DEF FatFinish, FP!FinishConfigs, Unlink, FP!Unlink, NoFile, FP!NoFile
  <2> QED
    BY <2>1 DEF FP!Next
<1> QED
  BY <1>1, <1>2, <1>3, <1>4, <1>5

LEMMA FatInitMaps ==
  ASSUME Init, program = "fat" PROVE FP!Init
<1>1. FP!ChunkInit(LEFTOVERS)
  BY DEF Init, ChunkInit, FP!ChunkInit, rows_used, cols_used, RowIndex, ColIndex,
         FP!RowIndex, FP!ColIndex, NoFile, FP!NoFile, Closed, FP!Closed, WalkStart,
         FP!WalkStart
<1>2. mounted = FALSE
  <2>1. mounted = (program = "lfs") /\ "fat" # "lfs"
    BY DEF Init
  <2> QED
    BY <2>1, Zenon
<1>3. stats = [n \in FP!Iterations |-> FP!NoStats]
  BY DEF Init, NoStats, Fat!NoStats, FP!NoStats, Iterations, FP!Iterations
<1>4. fat_pc = "mount" /\ round = 0 /\ iter = 0 /\ rc = 0 /\ reports = [n \in {} |-> 0]
  BY DEF Init, fat_pc
<1> QED
  BY <1>1, <1>2, <1>3, <1>4, Zenon DEF FP!Init

\* Every step of the FAT program is one of FatPerf, or a stutter.
LEMMA FatStepMaps ==
  ASSUME ControlInv, program = "fat", [Next]_vars
  PROVE  [FP!Next]_(FP!vars) /\ program' = "fat"
<1>1. CASE FatTestWrite
  BY <1>1, FatWriteMaps, FatWriteInner DEF ControlInv, MainInv, InRound
<1>2. CASE FatTestRead
  BY <1>2, FatReadMaps, FatReadInner DEF ControlInv, MainInv, InRound
<1>3. CASE FatMounting \/ Prepare \/ BeginRound \/ ComputeMeans \/ FatFinish
  BY <1>3, FatMainMaps DEF FatMounting, Prepare, BeginRound, ComputeMeans, FatFinish
<1>4. CASE UNCHANGED vars
  BY <1>4 DEF vars, chunkvars, FP!vars, FP!chunkvars, fat_pc, rows_used, cols_used
<1> QED
  BY <1>1, <1>2, <1>3, <1>4 DEF Next, BeginIteration, LfsTestWrite, LfsTestRead, LfsFinish

\* The case of a round, as LfsPerf sees it.
LEMMA LfsRound ==
  ASSUME NEW n \in 1 .. 2
  PROVE  /\ ~LP!Skipped(LP!Case(n))
         /\ LP!Case(n).rows = Case(1).rows /\ LP!Case(n).cols = Case(1).cols
         /\ LP!Case(n).file = TEST_FILE_SIZE
         /\ LP!Case(n) = Case(n)
<1>1. LP!Case(n) = Case(n)
  BY DEF LP!Case, LP!Config, LP!Rows, LP!Cols, Case, Config, Rows, Cols
<1>2. LP!Accepted(TEST_FILE_SIZE \div TEST_BLOCK_SIZE)
  BY Sizes, RangesAssumption DEF LP!Accepted, LP!Rows, LP!Cols, UINT8_SIZE, UINT16_SIZE
<1>3. /\ Case(n).file = TEST_FILE_SIZE /\ Case(n).block = TEST_BLOCK_SIZE
      /\ Case(n).rows = Case(1).rows /\ Case(n).cols = Case(1).cols
  BY DEF Case, Config
<1>4. ~LP!Skipped(Case(n))
  BY <1>2, <1>3, Sizes DEF LP!Skipped
<1> QED
  BY <1>1, <1>3, <1>4

\* Up to the means, a step of main is one of LfsPerf.
LEMMA LfsMainMaps ==
  ASSUME ControlInv, program = "lfs",
         Prepare \/ BeginRound \/ BeginIteration \/ LfsFinish
  PROVE  LP!Next
<1> USE DEF ControlInv, lfs_pc, rows_used, cols_used, Goto, Lfs!Goto, LP!Goto, arrays,
            Lfs!arrays, LP!arrays, loopvars, Lfs!loopvars, LP!loopvars, chunkvars,
            LP!chunkvars, LP!mainvars, Lfs!mainvars, Works, Fails, Lfs!Works, LP!Works,
            Lfs!Fails, LP!Fails
<1>2. CASE Prepare
  <2>1. LP!CleanStart
    BY <1>2 DEF Prepare, LP!CleanStart, MainInv, Unlink, LP!Unlink, NoFile, LP!NoFile
  <2> QED
    BY <2>1 DEF LP!Next
<1>3. CASE BeginRound
  <2>1. /\ round \in 0 .. 1 /\ round' = round + 1
        /\ randrows \in Shuffles(NoRows, Case(1).rows)
        /\ randcols \in Shuffles(NoCols, Case(1).cols)
    BY <1>3 DEF BeginRound, MainInv, ShuffledInv
  <2>2. /\ rows_used' = randrows /\ rows_used \in {NoRows, randrows}
        /\ cols_used' = randcols /\ cols_used \in {NoCols, randcols}
    BY <1>3, <2>1 DEF BeginRound, NoRows, NoCols
  <2>3. /\ rows_used' \in Shuffles(rows_used, Case(1).rows)
        /\ cols_used' \in Shuffles(cols_used, Case(1).cols)
    BY <2>1, <2>2, Reshuffled
  <2>4. LP!RandomPermutationsInitialize(LP!Case(round + 1))
    <3>1. /\ LP!Case(round + 1).rows = Case(1).rows
          /\ LP!Case(round + 1).cols = Case(1).cols
      BY <2>1, LfsRound
    <3> QED
      BY <2>3, <3>1 DEF LP!RandomPermutationsInitialize, Shuffles, LP!Shuffles,
                        IsPermutation, LP!IsPermutation
  <2>5. LP!BeginCase
    <3>1. /\ lfs_pc = "case" /\ lfs_pc' = "unlink" /\ iter' = 0
          /\ UNCHANGED <<disk, handle, at, total, faults, rc>>
      BY <1>3 DEF BeginRound
    <3>2. ~LP!Skipped(LP!Case(round + 1)) /\ round < LP!TotalCases
      BY <2>1, LfsRound DEF LP!TotalCases
    <3>3. stats' = [n \in LP!Iterations |-> LP!NoStats]
      BY <1>3 DEF BeginRound, NoStats, Lfs!NoStats, LP!NoStats, Iterations, LP!Iterations
    <3> QED
      BY <2>1, <2>4, <3>1, <3>2, <3>3 DEF LP!BeginCase
  <2> QED
    BY <2>5 DEF LP!Next
<1>4. CASE BeginIteration
  <2>1. LP!BeginIteration
    BY <1>4
       DEF BeginIteration, Lfs!BeginIteration, LP!BeginIteration, MainInv, InRound,
           Lfs!Unlink, LP!Unlink, Lfs!NoFile, LP!NoFile
  <2> QED
    BY <2>1 DEF LP!Next
<1>5. CASE LfsFinish
  <2>1. LP!Finish
    BY <1>5 DEF LfsFinish, LP!Finish, LP!TotalCases
  <2> QED
    BY <2>1 DEF LP!Next
<1> QED
  BY <1>2, <1>3, <1>4, <1>5

LEMMA LfsInitMaps == ASSUME Init, program = "lfs" PROVE LP!Init
<1>1. LP!ChunkInit(LEFTOVERS)
  BY DEF Init, ChunkInit, LP!ChunkInit, rows_used, cols_used, RowIndex, ColIndex,
         LP!RowIndex, LP!ColIndex, NoFile, LP!NoFile, Closed, LP!Closed, WalkStart,
         LP!WalkStart
<1>3. stats = [n \in LP!Iterations |-> LP!NoStats]
  BY DEF Init, NoStats, Lfs!NoStats, LP!NoStats, Iterations, LP!Iterations
<1>4. lfs_pc = "start" /\ round = 0 /\ iter = 0 /\ rc = 0
  BY DEF Init, lfs_pc
<1>5. <<>> = [n \in {} |-> 0]
  OBVIOUS
<1> QED
  BY <1>1, <1>3, <1>4, <1>5, Zenon DEF LP!Init

\* The means are reported per round here; nothing LfsPerf speaks of changes.
LEMMA LfsMeansKeep ==
  ASSUME ControlInv, program = "lfs", LP!IInv, ComputeMeans
  PROVE  LP!IInv'
<1>1. /\ lfs_pc' = "case" /\ rows_used' = rows_used /\ cols_used' = cols_used
      /\ UNCHANGED <<disk, handle, at, total, faults, round, iter, rc, stats>>
  BY DEF ComputeMeans, Goto, chunkvars, lfs_pc, rows_used, cols_used
<1>2. LP!ChunkTypeOK'
  BY <1>1 DEF LP!IInv, LP!TypeOK, LP!ChunkTypeOK
<1>3. LP!TypeOK'
  BY <1>1, <1>2 DEF LP!IInv, LP!TypeOK
<1> QED
  BY <1>1, <1>3
     DEF LP!IInv, LP!CaseInv, LP!InCase, LP!LoopInv, LP!WrittenInv, LP!WholeInv,
         LP!CompleteWriteIsOnVolume

\* So the invariant of LfsPerf is kept by every step of the littlefs program.
LEMMA LfsStepKeeps ==
  ASSUME ControlInv, program = "lfs", LP!IInv, [Next]_vars
  PROVE  LP!IInv' /\ program' = "lfs"
<1>1. CASE LfsTestWrite
  <2>1. LP!Next
    BY <1>1, LfsWriteMaps, LfsWriteInner DEF ControlInv, MainInv, InRound, LP!Next
  <2> QED
    BY <1>1, <2>1, LfsStep, LfsWriteInner
<1>2. CASE LfsTestRead
  <2>1. LP!Next
    BY <1>2, LfsReadMaps, LfsReadInner DEF ControlInv, MainInv, InRound, LP!Next
  <2> QED
    BY <1>2, <2>1, LfsStep, LfsReadInner
<1>3. CASE Prepare \/ BeginRound \/ BeginIteration \/ LfsFinish
  BY <1>3, LfsMainMaps, LfsStep DEF Prepare, BeginRound, BeginIteration, LfsFinish
<1>4. CASE ComputeMeans
  BY <1>4, LfsMeansKeep DEF ComputeMeans
<1>5. CASE UNCHANGED vars
  <2>1. UNCHANGED LP!vars
    BY <1>5 DEF vars, chunkvars, LP!vars, LP!chunkvars, lfs_pc, rows_used, cols_used
  <2> QED
    BY <1>5, <2>1, LfsStep DEF vars
<1> QED
  BY <1>1, <1>2, <1>3, <1>4, <1>5
     DEF Next, FatMounting, FatTestWrite, FatTestRead, FatFinish

\* The iteration under way, as the arguments below need it.
LEMMA LfsIteration ==
  ASSUME ControlInv, program = "lfs", LP!IInv, InRound
  PROVE  /\ lfs_pc = pc /\ round \in 1 .. 2
         /\ LP!config.file = TEST_FILE_SIZE /\ LP!config.random = (round = 2)
         /\ LP!config = config
         /\ pc # "mean" => /\ LP!ValidConfig(LP!config) /\ LP!Shuffled(LP!config)
                           /\ iter \in Iterations /\ LP!Tag(iter) \in Nat
         /\ pc \in {"write", "read"} => \E k : LP!ChunksDone(LP!config, k)
         /\ handle \in [open : BOOLEAN, cells : Seq(Nat)]
         /\ disk \in [exists : BOOLEAN, cells : Seq(Nat)]
         /\ total \in Nat /\ faults \in Nat
         /\ DOMAIN stats = Iterations
<1>1. lfs_pc = pc /\ round \in 1 .. 2
  BY DEF ControlInv, MainInv, InRound, lfs_pc
<1>2. LP!config = Case(round)
  BY <1>1, LfsRound DEF LP!config
<1>3. Case(round).file = TEST_FILE_SIZE /\ Case(round).random = (round = 2)
  BY DEF Case, Config
<1>4. lfs_pc \in LP!InCase
  <2>1. lfs_pc \in LP!InCase \union {"start", "case", "done"}
    BY DEF LP!IInv, LP!TypeOK, LP!InCase
  <2>2. pc \notin {"start", "case", "done"}
    BY DEF ControlInv, MainInv, InRound
  <2> QED
    BY <1>1, <2>1, <2>2
<1>5. pc # "mean" => /\ LP!ValidConfig(LP!config) /\ LP!Shuffled(LP!config)
                     /\ iter \in Iterations /\ LP!Tag(iter) \in Nat
  <2> SUFFICES ASSUME pc # "mean"
               PROVE  /\ LP!ValidConfig(LP!config) /\ LP!Shuffled(LP!config)
                      /\ iter \in Iterations /\ LP!Tag(iter) \in Nat
    OBVIOUS
  <2>1. lfs_pc \in LP!InCase \ {"mean"}
    BY <1>1, <1>4
  <2>2. /\ LP!ValidConfig(LP!config) /\ LP!Shuffled(LP!config)
        /\ iter \in LP!Iterations /\ LP!Tag(iter) \in Nat
    BY <2>1, LP!CaseFacts, LfsAssumptions
  <2> QED
    BY <2>2 DEF LP!Iterations, Iterations
<1>6. pc \in {"write", "read"} => \E k : LP!ChunksDone(LP!config, k)
  BY <1>1 DEF LP!IInv, LP!LoopInv
<1>7. /\ handle \in [open : BOOLEAN, cells : Seq(Nat)]
      /\ disk \in [exists : BOOLEAN, cells : Seq(Nat)]
      /\ total \in Nat /\ faults \in Nat
      /\ DOMAIN stats = Iterations
  BY DEF LP!IInv, LP!TypeOK, LP!ChunkTypeOK, LP!Iterations, Iterations
<1> QED
  BY <1>1, <1>2, <1>3, <1>5, <1>6, <1>7 DEF config

\* The chunk a loop transfers next.
LEMMA LfsNextChunk ==
  ASSUME ControlInv, program = "lfs", LP!IInv, pc \in {"write", "read"},
         LP!More(LP!config)
  PROVE  /\ LP!ChunkSize(LP!config) = TEST_BLOCK_SIZE /\ LP!config.block = TEST_BLOCK_SIZE
         /\ LP!Offset(LP!config) \in Nat
         /\ LP!Offset(LP!config) + TEST_BLOCK_SIZE <= TEST_FILE_SIZE
         /\ round = 1 => LP!Offset(LP!config) = total
         /\ LP!Advance(LP!config) => total' = total + TEST_BLOCK_SIZE
<1>1. PICK cfg : cfg = LP!config
  OBVIOUS
<1>2. pc \notin {"mean"} /\ InRound
  BY DEF InRound
<1>3. /\ LP!ValidConfig(cfg) /\ LP!Shuffled(cfg) /\ \E k : LP!ChunksDone(cfg, k)
      /\ cfg.file = TEST_FILE_SIZE /\ cfg.random = (round = 2) /\ cfg = config
  BY <1>1, <1>2, LfsIteration
<1>4. cfg.block = TEST_BLOCK_SIZE
  BY <1>3 DEF config, Case, Config
<1>5. PICK k : LP!ChunksDone(cfg, k)
  BY <1>3
<1>6. LP!More(cfg)
  BY <1>1
<1>7. /\ LP!ChunkSize(cfg) = cfg.block
      /\ LP!Offset(cfg) \in Nat /\ LP!Offset(cfg) + cfg.block <= cfg.file
      /\ LP!Advance(cfg) => total' = total + cfg.block
  BY <1>3, <1>5, <1>6, LP!LoopStep, LfsAssumptions
<1>8. round = 1 => LP!Offset(cfg) = total
  <2>1. round = 1 => ~(round = 2)
    OBVIOUS
  <2>2. round = 1 => ~cfg.random
    BY <1>3, <2>1, Zenon
  <2> QED
    BY <2>2 DEF LP!Offset
<1> QED
  BY <1>1, <1>3, <1>4, <1>7, <1>8

\* A loop that is done has transferred the whole file.
LEMMA LfsLoopEnds ==
  ASSUME ControlInv, program = "lfs", LP!IInv, pc \in {"write", "read"},
         ~LP!More(LP!config)
  PROVE  total = TEST_FILE_SIZE
<1>1. PICK cfg : cfg = LP!config
  OBVIOUS
<1>2. pc \notin {"mean"} /\ InRound
  BY DEF InRound
<1>3. /\ LP!ValidConfig(cfg) /\ \E k : LP!ChunksDone(cfg, k)
      /\ cfg.file = TEST_FILE_SIZE /\ ~(total < cfg.file)
  BY <1>1, <1>2, LfsIteration DEF LP!More
<1>4. PICK k : LP!WholeChunks(cfg, at, total, k)
  BY <1>3 DEF LP!ChunksDone
<1>5. total = cfg.file
  BY <1>3, <1>4, LP!LoopEnds, LfsAssumptions
<1> QED
  BY <1>3, <1>5

\* A chunk that fits is stored, or read, as a whole.
LEMMA WholeChunkFits ==
  ASSUME NEW off \in Nat, NEW n \in Nat, NEW room \in Nat, off + n <= room
  PROVE  LP!Smaller(n, LP!Larger(0, room - off)) = n
BY DEF LP!Smaller, LP!Larger

\* A read of full length has stayed inside the file.
LEMMA ReadInside ==
  ASSUME NEW off \in Nat, NEW n \in Nat \ {0}, NEW length \in Nat,
         LP!Smaller(n, LP!Larger(0, length - off)) = n
  PROVE  off + n <= length
BY DEF LP!Smaller, LP!Larger

-----------------------------------------------------------------------------
(* The sequential round of the littlefs program.                           *)

OnlyOurs(cells) == \A k \in 1 .. Len(cells) : cells[k] = LP!Tag(iter)

\* Once the file of an earlier run is gone, there is nothing in the file that
\* this iteration has not written.
SequentialInv ==
  program = "lfs" /\ fresh /\ round = 1 =>
    /\ pc \in {"wopen", "write", "sync", "wout", "ropen"} => OnlyOurs(disk.cells)
    /\ pc \in {"write", "sync", "wout", "read", "rout"} => OnlyOurs(handle.cells)
    /\ pc \in {"read", "rout"} => total <= Len(handle.cells)

\* Writing over the own units, or behind them without a gap, leaves only own
\* units.
LEMMA OverwriteOurs ==
  ASSUME NEW cells \in Seq(Nat), NEW off \in Nat, off <= Len(cells), NEW n \in Int,
         NEW tag, \A k \in 1 .. Len(cells) : cells[k] = tag
  PROVE  \A k \in 1 .. Len(LP!Overwrite(cells, off, n, tag)) :
           LP!Overwrite(cells, off, n, tag)[k] = tag
<1>1. CASE n <= 0
  BY <1>1 DEF LP!Overwrite
<1>2. CASE n > 0
  <2> DEFINE L == LP!Larger(Len(cells), off + n)
             new == [k \in 1 .. L |-> IF k \in off + 1 .. off + n THEN tag
                                      ELSE IF k <= Len(cells) THEN cells[k] ELSE LP!Hole]
  <2>1. LP!Overwrite(cells, off, n, tag) = new
    BY <1>2 DEF LP!Overwrite
  <2>2. L \in Nat /\ (L = Len(cells) \/ L = off + n)
    BY <1>2 DEF LP!Larger
  <2>3. Len(new) = L
    BY <2>2
  <2>4. \A k \in 1 .. L : new[k] = tag
    BY <2>2
  <2> QED
    BY <2>1, <2>3, <2>4
<1> QED
  BY <1>1, <1>2

\* A step of the write loop, whatever part of the chunk it stores.
LEMMA StoredOurs ==
  ASSUME ControlInv, program = "lfs", LP!IInv, pc = "write", round = 1,
         LP!More(LP!config), OnlyOurs(handle.cells),
         NEW n \in Int, LP!Stored(LP!config, n, LP!Tag(iter))
  PROVE  \A k \in 1 .. Len(handle'.cells) : handle'.cells[k] = LP!Tag(iter)
<1>1. PICK cfg, tag : cfg = LP!config /\ tag = LP!Tag(iter)
  OBVIOUS
<1>2. InRound /\ pc # "mean"
  BY DEF InRound
<1>3. /\ handle \in [open : BOOLEAN, cells : Seq(Nat)] /\ total \in Nat
      /\ cfg.random = (round = 2)
  BY <1>1, <1>2, LfsIteration
<1>4. LP!Offset(cfg) = total
  BY <1>1, LfsNextChunk
<1>5. total <= Len(handle.cells)
  <2>1. LP!WrittenSoFar(cfg, tag)
    BY <1>1, <1>2 DEF LP!IInv, LP!WrittenInv, lfs_pc
  <2>2. ~(round = 2)
    OBVIOUS
  <2>3. ~cfg.random
    BY <1>3, <2>2, Zenon
  <2> QED
    BY <1>3, <2>1, <2>3 DEF LP!WrittenSoFar, LP!WrittenUpTo, LP!Holds
<1>6. handle'.cells = LP!Overwrite(handle.cells, total, n, tag)
  BY <1>1, <1>3, <1>4 DEF LP!Stored
<1>7. \A k \in 1 .. Len(handle.cells) : handle.cells[k] = tag
  BY <1>1 DEF OnlyOurs
<1>8. handle.cells \in Seq(Nat)
  BY <1>3
<1>9. \A k \in 1 .. Len(LP!Overwrite(handle.cells, total, n, tag)) :
        LP!Overwrite(handle.cells, total, n, tag)[k] = tag
  BY <1>3, <1>5, <1>7, <1>8, OverwriteOurs
<1> QED
  BY <1>1, <1>6, <1>9

\* The write loop of the sequential round.
LEMMA SequentialWriteKept ==
  ASSUME ControlInv, LP!IInv, SequentialInv, LfsTestWrite
  PROVE  SequentialInv'
<1> USE DEF lfs_pc, LP!Goto
<1> SUFFICES ASSUME fresh', round' = 1
             PROVE  /\ pc' \in {"wopen", "write", "sync", "wout", "ropen"} => OnlyOurs(disk.cells)'
                    /\ pc' \in {"write", "sync", "wout", "read", "rout"} => OnlyOurs(handle.cells)'
                    /\ pc' \in {"read", "rout"} => total' <= Len(handle'.cells)
  BY DEF SequentialInv
<1>1. /\ program = "lfs" /\ round = 1 /\ iter' = iter /\ fresh
      /\ pc \in {"wopen", "write", "sync", "wout"}
      /\ pc' \in {"write", "sync", "wout", "ropen"}
      /\ LP!Tag(iter)' = LP!Tag(iter)
  BY LfsWriteInner DEF LP!Tag
<1>2. /\ OnlyOurs(disk.cells)
      /\ pc \in {"write", "sync", "wout"} => OnlyOurs(handle.cells)
  BY <1>1 DEF SequentialInv
<1>3. ASSUME disk'.cells = disk.cells \/ (pc # "wopen" /\ disk'.cells = handle.cells)
      PROVE  OnlyOurs(disk.cells)'
  BY <1>1, <1>2, <1>3 DEF OnlyOurs
<1>4. ASSUME (pc # "wopen" /\ handle'.cells = handle.cells) \/ handle'.cells = disk.cells
      PROVE  OnlyOurs(handle.cells)'
  BY <1>1, <1>2, <1>4 DEF OnlyOurs
<1>5. /\ handle \in [open : BOOLEAN, cells : Seq(Nat)]
      /\ disk \in [exists : BOOLEAN, cells : Seq(Nat)]
  BY <1>1, LfsIteration DEF InRound
<1>6. CASE LP!WriteOpen
  BY <1>1, <1>3, <1>4, <1>5, <1>6 DEF LP!WriteOpen, LP!OpenForWriting
<1>7. CASE LP!WriteOpenFails
  BY <1>1, <1>3, <1>7 DEF LP!WriteOpenFails
<1>8. CASE LP!WriteStep
  <2>1. /\ pc = "write" /\ LP!More(LP!config) /\ disk' = disk
        /\ LP!Stored(LP!config, LP!ChunkSize(LP!config), LP!Tag(iter))
    BY <1>1, <1>8 DEF LP!WriteStep, LP!WriteChunk
  <2>2. LP!ChunkSize(LP!config) \in Int
    BY <1>1, <2>1, LfsNextChunk, Sizes
  <2>3. OnlyOurs(handle.cells)'
    BY <1>1, <1>2, <2>1, <2>2, StoredOurs DEF OnlyOurs
  <2> QED
    BY <1>1, <1>3, <2>1, <2>3
<1>9. CASE LP!WriteStepFails
  <2>1. PICK n \in -1 .. LP!config.block : LP!WriteFails(LP!config, LP!Tag(iter), n)
    BY <1>9 DEF LP!WriteStepFails
  <2>2. /\ pc = "write" /\ LP!More(LP!config) /\ disk' = disk
        /\ LP!Stored(LP!config, n, LP!Tag(iter))
    BY <1>1, <1>9, <2>1 DEF LP!WriteStepFails, LP!WriteFails
  <2>3. n \in Int
    OBVIOUS
  <2>4. OnlyOurs(handle.cells)'
    BY <1>1, <1>2, <2>2, <2>3, StoredOurs DEF OnlyOurs
  <2> QED
    BY <1>1, <1>3, <2>2, <2>4
<1>10. CASE LP!WriteSeekFails \/ LP!WriteLoopEnds
  BY <1>1, <1>3, <1>4, <1>10
     DEF LP!WriteSeekFails, LP!SeekFails, LP!WriteLoopEnds, LP!chunkvars
<1>11. CASE LP!WriteSync
  BY <1>1, <1>3, <1>4, <1>11 DEF LP!WriteSync, LP!Sync, LP!Commit
<1>12. CASE LP!WriteOut
  BY <1>1, <1>3, <1>12 DEF LP!WriteOut, LP!CloseWorks, LP!CloseFails, LP!Commit
<1> QED
  BY <1>1, <1>6, <1>7, <1>8, <1>9, <1>10, <1>11, <1>12, LfsWriteMaps

\* The read loop finds what the write loop has left.
LEMMA SequentialReadKept ==
  ASSUME ControlInv, LP!IInv, SequentialInv, LfsTestRead
  PROVE  SequentialInv'
<1> USE DEF lfs_pc, LP!Goto
<1> SUFFICES ASSUME fresh', round' = 1, pc' \in {"read", "rout"}
             PROVE  OnlyOurs(handle.cells)' /\ total' <= Len(handle'.cells)
  BY LfsReadInner DEF SequentialInv
<1>1. /\ program = "lfs" /\ round = 1 /\ fresh /\ pc \in {"ropen", "read", "rout"}
      /\ pc = "ropen" => OnlyOurs(disk.cells)
      /\ pc \in {"read", "rout"} => OnlyOurs(handle.cells) /\ total <= Len(handle.cells)
  BY LfsReadInner DEF SequentialInv
<1>2. /\ handle \in [open : BOOLEAN, cells : Seq(Nat)] /\ total \in Nat
      /\ disk \in [exists : BOOLEAN, cells : Seq(Nat)]
  BY <1>1, LfsIteration DEF InRound
<1>3. ASSUME iter' = iter, pc = "read", handle' = handle, total' = total
      PROVE  OnlyOurs(handle.cells)' /\ total' <= Len(handle'.cells)
  BY <1>1, <1>3 DEF OnlyOurs, LP!Tag
<1>4. CASE LP!ReadOpen
  <2>1. pc = "ropen" /\ iter' = iter /\ handle'.cells = disk.cells /\ total' = 0
    BY <1>1, <1>4 DEF LP!ReadOpen, LP!OpenForReading, LP!BeginLoop, LP!mainvars
  <2> QED
    BY <1>1, <1>2, <2>1 DEF OnlyOurs, LP!Tag
<1>5. CASE LP!ReadStep
  <2>1. PICK off, n : off = LP!Offset(LP!config) /\ n = LP!ChunkSize(LP!config)
    OBVIOUS
  <2>2. /\ pc = "read" /\ iter' = iter /\ handle' = handle
        /\ LP!More(LP!config) /\ LP!Advance(LP!config) /\ LP!Readable(off, n) = n
    BY <1>1, <1>5, <2>1 DEF LP!ReadStep, LP!ReadChunk
  <2>3. n = TEST_BLOCK_SIZE /\ off = total /\ total' = total + TEST_BLOCK_SIZE
    BY <1>1, <2>1, <2>2, LfsNextChunk
  <2>4. Len(handle.cells) \in Nat
    BY <1>2
  <2>5. total + TEST_BLOCK_SIZE <= Len(handle.cells)
    BY <1>2, <2>2, <2>3, <2>4, ReadInside, Sizes DEF LP!Readable
  <2> QED
    BY <1>1, <2>2, <2>3, <2>5 DEF OnlyOurs, LP!Tag
<1>6. CASE LP!ReadStepFails
  BY <1>1, <1>3, <1>6 DEF LP!ReadStepFails, LP!SeekFails, LP!ReadFails
<1>7. CASE LP!ReadLoopEnds
  BY <1>1, <1>3, <1>7 DEF LP!ReadLoopEnds, LP!chunkvars, LP!mainvars
<1>8. CASE LP!ReadOpenFails \/ LP!ReadOut
  BY <1>1, <1>8 DEF LP!ReadOpenFails, LP!ReadOut, LP!IterationEnds
<1> QED
  BY <1>1, <1>4, <1>5, <1>6, <1>7, <1>8, LfsReadMaps

LEMMA SequentialKept ==
  ASSUME ControlInv, program = "lfs", LP!IInv, SequentialInv, [Next]_vars
  PROVE  SequentialInv'
<1>1. faults \in Nat
  BY DEF LP!IInv, LP!TypeOK, LP!ChunkTypeOK
<1>2. CASE BeginIteration
  <2>1. pc' = "wopen" /\ (fresh' => faults' = faults) /\ LP!Unlink
    BY <1>2 DEF BeginIteration, Lfs!BeginIteration, Lfs!Goto, Lfs!Unlink, LP!Unlink,
                Lfs!NoFile, LP!NoFile, Lfs!Works, LP!Works, Lfs!Fails, LP!Fails
  <2>2. fresh' => disk'.cells = <<>>
    BY <1>1, <2>1 DEF LP!Unlink, LP!Fails, LP!NoFile
  <2>3. fresh' => OnlyOurs(disk.cells)'
    BY <2>2 DEF OnlyOurs
  <2> QED
    BY <2>1, <2>3 DEF SequentialInv
<1>3. CASE Prepare \/ BeginRound \/ LfsFinish \/ ComputeMeans
  <2>1. pc' \in {"round", "unlink", "done"}
    BY <1>3 DEF Prepare, BeginRound, LfsFinish, ComputeMeans, Goto
  <2> QED
    BY <2>1 DEF SequentialInv
<1>4. CASE UNCHANGED vars
  BY <1>4 DEF vars, chunkvars, SequentialInv, OnlyOurs, LP!Tag
<1> QED
  BY <1>2, <1>3, <1>4, SequentialWriteKept, SequentialReadKept
     DEF Next, FatMounting, FatTestWrite, FatTestRead, FatFinish

-----------------------------------------------------------------------------
(* Runs of the littlefs program in which no call fails.                    *)

CleanRun == faults = 0 /\ TEST_FILE_SIZE <= CAPACITY

\* Each pass of an iteration is whole.
CleanInv ==
  program = "lfs" /\ CleanRun =>
    /\ pc \in {"sync", "wout"} => total = TEST_FILE_SIZE
    /\ pc = "ropen" => stats[iter].write_success /\ rc = 0 /\ disk.exists
    /\ pc \in {"read", "rout"} => LP!WrittenBy(handle.cells, LP!config, LP!Tag(iter))
    /\ pc = "rout" => total = TEST_FILE_SIZE

\* The statistics of the iterations done, and of the one under way.
SpeedsInv ==
  program = "lfs" /\ CleanRun /\ InRound =>
    /\ \A n \in Iterations : n < iter =>
         stats[n].written_bytes = TEST_FILE_SIZE /\ stats[n].read_bytes = TEST_FILE_SIZE
    /\ pc \in {"ropen", "read", "rout"} => stats[iter].written_bytes = TEST_FILE_SIZE
    /\ pc = "mean" => iter = TEST_ITERATIONS

\* The means of equal counts.
ReportsInv ==
  program = "lfs" /\ CleanRun =>
    \A n \in DOMAIN reports :
      reports[n] = [avg_write_speed |-> TEST_FILE_SIZE, avg_read_speed |-> TEST_FILE_SIZE]

\* The count of failed calls only grows: a clean run has been clean all along.
LEMMA FaultsGrow ==
  ASSUME ControlInv, program = "lfs", LP!IInv, [Next]_vars, CleanRun'
  PROVE  CleanRun /\ faults' = faults /\ ~LP!Fails
<1>1. faults \in Nat /\ faults' = 0 /\ TEST_FILE_SIZE <= CAPACITY
  BY DEF LP!IInv, LP!TypeOK, LP!ChunkTypeOK, CleanRun
<1>2. ~LP!Fails
  BY <1>1 DEF LP!Fails
<1>3. ASSUME LP!Works \/ LP!Fails \/ faults' = faults
      PROVE  CleanRun /\ faults' = faults /\ ~LP!Fails
  BY <1>1, <1>2, <1>3 DEF LP!Works, CleanRun
<1>4. CASE LfsTestWrite
  <2>1. LP!Works \/ LP!Fails \/ faults' = faults
    <3>1. round \in 1 .. 2
      BY <1>4, LfsWriteInner DEF ControlInv, MainInv, InRound
    <3> QED
      BY <1>4, <3>1, LfsWriteMaps
         DEF LP!WriteOpen, LP!WriteOpenFails, LP!WriteStep, LP!WriteSeekFails,
             LP!WriteStepFails, LP!WriteLoopEnds, LP!WriteSync, LP!WriteOut,
             LP!WriteChunk, LP!WriteFails, LP!SeekFails, LP!Sync, LP!CloseWorks,
             LP!CloseFails, LP!chunkvars
  <2> QED
    BY <1>3, <2>1
<1>5. CASE LfsTestRead
  <2>1. LP!Works \/ LP!Fails \/ faults' = faults
    <3>1. round \in 1 .. 2
      BY <1>5, LfsReadInner DEF ControlInv, MainInv, InRound
    <3> QED
      BY <1>5, <3>1, LfsReadMaps
         DEF LP!ReadOpen, LP!ReadOpenFails, LP!ReadStep, LP!ReadStepFails,
           LP!ReadLoopEnds, LP!ReadOut, LP!ReadChunk, LP!ReadFails, LP!SeekFails,
           LP!CloseReading, LP!chunkvars
  <2> QED
    BY <1>3, <2>1
<1>6. CASE Prepare \/ BeginIteration
  BY <1>3, <1>6
     DEF Prepare, BeginIteration, Lfs!BeginIteration, Unlink, Lfs!Unlink, Works, Fails,
         Lfs!Works, Lfs!Fails, LP!Works, LP!Fails
<1>7. CASE BeginRound \/ LfsFinish \/ ComputeMeans \/ UNCHANGED vars
  BY <1>3, <1>7 DEF BeginRound, LfsFinish, ComputeMeans, vars, chunkvars
<1> QED
  BY <1>4, <1>5, <1>6, <1>7 DEF Next, FatMounting, FatTestWrite, FatTestRead, FatFinish

\* On a volume with room for the file, no chunk is stored in part.
LEMMA NoShortWrite ==
  ASSUME ControlInv, LP!IInv, CleanRun, ~LP!Fails, LfsTestWrite
  PROVE  ~LP!WriteSeekFails /\ ~LP!WriteStepFails
<1> USE DEF lfs_pc
<1>1. /\ program = "lfs" /\ pc \in {"wopen", "write", "sync", "wout"}
      /\ InRound
  BY LfsWriteInner DEF InRound
<1>2. ~LP!WriteSeekFails
  BY DEF LP!WriteSeekFails, LP!SeekFails
<1>3. ASSUME LP!WriteStepFails PROVE FALSE
  <2>1. PICK n \in -1 .. LP!config.block : LP!WriteFails(LP!config, LP!Tag(iter), n)
    BY <1>3 DEF LP!WriteStepFails
  <2>2. PICK off, size : off = LP!Offset(LP!config) /\ size = LP!ChunkSize(LP!config)
    OBVIOUS
  <2>3. /\ pc = "write" /\ LP!More(LP!config)
        /\ LP!Storable(off, size) < size
    BY <1>1, <1>3, <2>1, <2>2 DEF LP!WriteStepFails, LP!WriteFails
  <2>4. off \in Nat /\ off + size <= TEST_FILE_SIZE /\ size = TEST_BLOCK_SIZE
    BY <1>1, <2>2, <2>3, LfsNextChunk
  <2>5. PICK room : room = LP!Larger(CAPACITY, Len(handle.cells))
    OBVIOUS
  <2>6. room \in Nat /\ CAPACITY <= room
    <3>1. CAPACITY \in Nat /\ Len(handle.cells) \in Nat
      BY <1>1, LfsIteration, VolumeAssumption
    <3> QED
      BY <2>5, <3>1 DEF LP!Larger
  <2>7. off + size <= room
    BY <2>4, <2>6, Sizes, VolumeAssumption DEF CleanRun
  <2>8. LP!Smaller(size, LP!Larger(0, room - off)) = size
    BY <2>4, <2>6, <2>7, Sizes, WholeChunkFits
  <2> QED
    BY <2>3, <2>4, <2>5, <2>8, Sizes DEF LP!Storable
<1> QED
  BY <1>2, <1>3

\* Over a file this iteration has written, no chunk is read in part.
LEMMA NoShortRead ==
  ASSUME ControlInv, LP!IInv, CleanRun, ~LP!Fails, LfsTestRead, pc = "read",
         LP!WrittenBy(handle.cells, LP!config, LP!Tag(iter))
  PROVE  ~LP!ReadStepFails
<1> USE DEF lfs_pc
<1>1. program = "lfs" /\ InRound
  BY LfsReadInner DEF InRound
<1> SUFFICES ASSUME LP!ReadStepFails PROVE FALSE
  OBVIOUS
<1>2. PICK off, size : off = LP!Offset(LP!config) /\ size = LP!ChunkSize(LP!config)
  OBVIOUS
<1>3. LP!More(LP!config) /\ LP!Readable(off, size) < size
  BY <1>2 DEF LP!ReadStepFails, LP!SeekFails, LP!ReadFails
<1>4. off \in Nat /\ off + size <= TEST_FILE_SIZE /\ size = TEST_BLOCK_SIZE
  BY <1>1, <1>2, <1>3, LfsNextChunk
<1>5. Len(handle.cells) \in Nat /\ TEST_FILE_SIZE <= Len(handle.cells)
  <2>1. LP!config.file = TEST_FILE_SIZE /\ Len(handle.cells) \in Nat
    BY <1>1, LfsIteration
  <2> QED
    BY <2>1, Sizes DEF LP!WrittenBy
<1>6. off + size <= Len(handle.cells)
  BY <1>4, <1>5, Sizes
<1>7. LP!Smaller(size, LP!Larger(0, Len(handle.cells) - off)) = size
  BY <1>4, <1>5, <1>6, Sizes, WholeChunkFits
<1> QED
  BY <1>3, <1>4, <1>7, Sizes DEF LP!Readable

\* What WriteOut and ReadOut record.
LEMMA Recorded ==
  ASSUME ControlInv, program = "lfs", LP!IInv, InRound, pc # "mean"
  PROVE  /\ LP!WriteOut =>
              /\ stats'[iter].write_success = (total = TEST_FILE_SIZE)
              /\ stats'[iter].written_bytes = total
              /\ \A n \in Iterations : n # iter => stats'[n] = stats[n]
         /\ LP!ReadOut =>
              /\ stats'[iter].written_bytes = stats[iter].written_bytes
              /\ stats'[iter].read_bytes = total
              /\ \A n \in Iterations : n # iter => stats'[n] = stats[n]
<1>1. /\ iter \in Iterations /\ DOMAIN stats = Iterations
      /\ LP!config.file = TEST_FILE_SIZE
  BY LfsIteration
<1>2. DOMAIN stats[iter] = {"write_success", "written_bytes", "write_time",
                            "read_success", "read_bytes", "read_time"}
  BY <1>1 DEF LP!IInv, LP!TypeOK, LP!NoStats, LP!Iterations, Iterations
<1>3. LP!WriteOut =>
        /\ stats'[iter].write_success = (total = TEST_FILE_SIZE)
        /\ stats'[iter].written_bytes = total
        /\ \A n \in Iterations : n # iter => stats'[n] = stats[n]
  BY <1>1, <1>2 DEF LP!WriteOut
<1>4. LP!ReadOut =>
        /\ stats'[iter].written_bytes = stats[iter].written_bytes
        /\ stats'[iter].read_bytes = total
        /\ \A n \in Iterations : n # iter => stats'[n] = stats[n]
  BY <1>1, <1>2 DEF LP!ReadOut
<1> QED
  BY <1>3, <1>4

\* In a clean run every write loop comes to its end.
LEMMA CleanWriteKept ==
  ASSUME ControlInv, LP!IInv, CleanInv, LfsTestWrite, CleanRun, ~LP!Fails
  PROVE  CleanInv'
<1> USE DEF lfs_pc, LP!Goto
<1>1. /\ program = "lfs" /\ InRound /\ pc # "mean" /\ round \in 1 .. 2 /\ iter' = iter
      /\ pc \in {"wopen", "write", "sync", "wout"}
      /\ pc' \in {"write", "sync", "wout", "ropen"}
  BY LfsWriteInner DEF InRound, ControlInv, MainInv
<1>2. pc \in {"sync", "wout"} => total = TEST_FILE_SIZE
  BY <1>1 DEF CleanInv
<1>3. ~LP!WriteSeekFails /\ ~LP!WriteStepFails /\ ~LP!WriteOpenFails
  BY NoShortWrite DEF LP!WriteOpenFails
<1>4. CASE LP!WriteOpen \/ LP!WriteStep
  <2>1. pc' = "write"
    BY <1>1, <1>4 DEF LP!WriteOpen, LP!WriteStep
  <2> QED
    BY <2>1 DEF CleanInv
<1>5. CASE LP!WriteLoopEnds
  <2>1. total = TEST_FILE_SIZE
    BY <1>1, <1>5, LfsLoopEnds DEF LP!WriteLoopEnds
  <2>2. pc' = "sync" /\ total' = total
    BY <1>1, <1>5 DEF LP!WriteLoopEnds, LP!chunkvars
  <2> QED
    BY <2>1, <2>2 DEF CleanInv
<1>6. CASE LP!WriteSync
  <2>1. pc = "sync" /\ pc' = "wout" /\ total' = total
    BY <1>1, <1>6 DEF LP!WriteSync, LP!loopvars
  <2> QED
    BY <1>2, <2>1 DEF CleanInv
<1>7. CASE LP!WriteOut
  <2>1. pc = "wout" /\ pc' = "ropen" /\ rc' = 0 /\ disk'.exists
    BY <1>1, <1>7 DEF LP!WriteOut, LP!CloseWorks, LP!CloseFails, LP!Commit
  <2>2. stats'[iter].write_success = (total = TEST_FILE_SIZE)
    BY <1>1, <1>7, Recorded
  <2>3. stats'[iter].write_success
    BY <1>2, <2>1, <2>2, Zenon
  <2>4. stats'[iter'].write_success
    BY <1>1, <2>3
  <2> QED
    BY <2>1, <2>4 DEF CleanInv
<1> QED
  BY <1>1, <1>3, <1>4, <1>5, <1>6, <1>7, LfsWriteMaps

\* And so does every read loop.
LEMMA CleanReadKept ==
  ASSUME ControlInv, LP!IInv, CleanInv, LfsTestRead, CleanRun, ~LP!Fails
  PROVE  CleanInv'
<1> USE DEF lfs_pc, LP!Goto
<1>1. /\ program = "lfs" /\ InRound /\ pc # "mean" /\ round \in 1 .. 2 /\ round' = round
      /\ pc \in {"ropen", "read", "rout"}
      /\ pc' \in {"read", "rout", "unlink", "mean"}
  BY LfsReadInner DEF InRound, ControlInv, MainInv
<1>2. /\ pc = "ropen" => stats[iter].write_success /\ rc = 0 /\ disk.exists
      /\ pc = "read" => LP!WrittenBy(handle.cells, LP!config, LP!Tag(iter))
  BY <1>1 DEF CleanInv
<1>3. ASSUME iter' = iter, pc' \in {"read", "rout"}, pc' = "rout" => total' = TEST_FILE_SIZE,
             LP!WrittenBy(handle.cells, LP!config, LP!Tag(iter))'
      PROVE  CleanInv'
  BY <1>3 DEF CleanInv
<1>4. LP!config' = LP!config /\ (iter' = iter => LP!Tag(iter)' = LP!Tag(iter))
  BY <1>1 DEF LP!config, LP!Tag
<1>5. CASE LP!ReadOpen
  <2>1. pc = "ropen" /\ pc' = "read" /\ iter' = iter /\ handle'.cells = disk.cells
    BY <1>1, <1>5 DEF LP!ReadOpen, LP!OpenForReading, LP!mainvars
  <2>2. LP!WrittenBy(disk.cells, LP!config, LP!Tag(iter))
    BY <1>2, <2>1 DEF LP!IInv, LP!CompleteWriteIsOnVolume
  <2>3. LP!WrittenBy(handle.cells, LP!config, LP!Tag(iter))'
    BY <1>4, <2>1, <2>2 DEF LP!WrittenBy
  <2> QED
    BY <1>3, <2>1, <2>3
<1>6. CASE LP!ReadStep \/ LP!ReadLoopEnds
  <2>1. /\ pc = "read" /\ iter' = iter /\ handle' = handle
        /\ LP!ReadStep => pc' = "read"
        /\ LP!ReadLoopEnds => pc' = "rout" /\ total' = total
    BY <1>1, <1>6
       DEF LP!ReadStep, LP!ReadChunk, LP!ReadLoopEnds, LP!chunkvars, LP!mainvars
  <2>2. LP!ReadLoopEnds => total = TEST_FILE_SIZE
    BY <1>1, <2>1, LfsLoopEnds DEF LP!ReadLoopEnds
  <2>3. LP!WrittenBy(handle.cells, LP!config, LP!Tag(iter))'
    BY <1>2, <1>4, <2>1 DEF LP!WrittenBy
  <2> QED
    BY <1>3, <1>6, <2>1, <2>2, <2>3
<1>7. CASE LP!ReadOpenFails \/ LP!ReadOut
  <2>1. pc' \in {"unlink", "mean"}
    BY <1>1, <1>7 DEF LP!ReadOpenFails, LP!ReadOut, LP!IterationEnds
  <2> QED
    BY <2>1 DEF CleanInv
<1>8. ~LP!ReadStepFails
  <2>1. CASE pc = "read"
    BY <1>2, <2>1, NoShortRead
  <2>2. CASE pc # "read"
    BY <1>1, <2>2 DEF LP!ReadStepFails
  <2> QED
    BY <2>1, <2>2
<1> QED
  BY <1>1, <1>5, <1>6, <1>7, <1>8, LfsReadMaps

LEMMA CleanKept ==
  ASSUME ControlInv, program = "lfs", LP!IInv, CleanInv, [Next]_vars
  PROVE  CleanInv'
<1> SUFFICES ASSUME CleanRun' PROVE CleanInv'
  BY DEF CleanInv
<1>1. CleanRun /\ ~LP!Fails
  BY FaultsGrow
<1>2. CASE Prepare \/ BeginRound \/ BeginIteration \/ LfsFinish \/ ComputeMeans
  <2>1. pc' \in {"round", "unlink", "wopen", "done"}
    BY <1>2
       DEF Prepare, BeginRound, BeginIteration, Lfs!BeginIteration, Lfs!Goto, LfsFinish,
           ComputeMeans, Goto
  <2> QED
    BY <2>1 DEF CleanInv
<1>3. CASE UNCHANGED vars
  <2>1. LP!config' = LP!config /\ LP!Tag(iter)' = LP!Tag(iter)
    BY <1>3 DEF vars, LP!config, LP!Tag
  <2>2. UNCHANGED <<program, pc, total, stats, iter, rc, disk, handle>>
    BY <1>3 DEF vars, chunkvars
  <2> QED
    BY <1>1, <2>1, <2>2 DEF CleanInv, LP!WrittenBy
<1> QED
  BY <1>1, <1>2, <1>3, CleanWriteKept, CleanReadKept
     DEF Next, FatMounting, FatTestWrite, FatTestRead, FatFinish

\* The byte counts of the passes.
LEMMA SpeedsWriteKept ==
  ASSUME ControlInv, LP!IInv, CleanInv, SpeedsInv, LfsTestWrite, CleanRun, ~LP!Fails
  PROVE  SpeedsInv'
<1> USE DEF lfs_pc, LP!Goto
<1>1. /\ program = "lfs" /\ InRound /\ pc # "mean" /\ round \in 1 .. 2 /\ iter' = iter
      /\ pc \in {"wopen", "write", "sync", "wout"}
      /\ pc' \in {"write", "sync", "wout", "ropen"}
  BY LfsWriteInner DEF InRound, ControlInv, MainInv
<1>2. \A n \in Iterations : n < iter =>
         stats[n].written_bytes = TEST_FILE_SIZE /\ stats[n].read_bytes = TEST_FILE_SIZE
  BY <1>1 DEF SpeedsInv
<1>3. iter \in Iterations /\ Iterations' = Iterations
  BY <1>1, LfsIteration DEF Iterations
<1>4. CASE LP!WriteOut
  <2>1. pc = "wout" /\ total = TEST_FILE_SIZE
    BY <1>1, <1>4 DEF LP!WriteOut, CleanInv
  <2>2. /\ stats'[iter].written_bytes = total
        /\ \A n \in Iterations : n # iter => stats'[n] = stats[n]
    BY <1>1, <1>4, Recorded
  <2>3. \A n \in Iterations : n < iter => n # iter
    BY <1>3 DEF Iterations
  <2> QED
    BY <1>1, <1>2, <1>3, <2>1, <2>2, <2>3 DEF SpeedsInv
<1>5. CASE LP!WriteOpen \/ LP!WriteStep \/ LP!WriteLoopEnds \/ LP!WriteSync
  <2>1. stats' = stats /\ pc' \notin {"ropen", "read", "rout", "mean"}
    BY <1>1, <1>5
       DEF LP!WriteOpen, LP!WriteStep, LP!WriteLoopEnds, LP!WriteSync, LP!mainvars
  <2> QED
    BY <1>1, <1>2, <1>3, <2>1 DEF SpeedsInv
<1>6. ~LP!WriteSeekFails /\ ~LP!WriteStepFails /\ ~LP!WriteOpenFails
  BY NoShortWrite DEF LP!WriteOpenFails
<1> QED
  BY <1>1, <1>4, <1>5, <1>6, LfsWriteMaps

LEMMA SpeedsReadKept ==
  ASSUME ControlInv, LP!IInv, CleanInv, SpeedsInv, LfsTestRead, CleanRun, ~LP!Fails
  PROVE  SpeedsInv'
<1> USE DEF lfs_pc, LP!Goto
<1>1. /\ program = "lfs" /\ InRound /\ pc # "mean" /\ round \in 1 .. 2
      /\ pc \in {"ropen", "read", "rout"}
      /\ pc' \in {"read", "rout", "unlink", "mean"}
  BY LfsReadInner DEF InRound, ControlInv, MainInv
<1>2. /\ \A n \in Iterations : n < iter =>
           stats[n].written_bytes = TEST_FILE_SIZE /\ stats[n].read_bytes = TEST_FILE_SIZE
      /\ stats[iter].written_bytes = TEST_FILE_SIZE
  BY <1>1 DEF SpeedsInv
<1>3. iter \in Iterations /\ Iterations' = Iterations
  BY <1>1, LfsIteration DEF Iterations
<1>4. CASE LP!ReadOut
  <2>1. /\ pc = "rout" /\ total = TEST_FILE_SIZE /\ iter' = iter + 1
        /\ pc' = IF iter + 1 < TEST_ITERATIONS THEN "unlink" ELSE "mean"
    BY <1>1, <1>4 DEF LP!ReadOut, LP!IterationEnds, CleanInv
  <2>2. /\ stats'[iter].written_bytes = stats[iter].written_bytes
        /\ stats'[iter].read_bytes = total
        /\ \A n \in Iterations : n # iter => stats'[n] = stats[n]
    BY <1>1, <1>4, Recorded
  <2>3. \A n \in Iterations : n < iter' => n = iter \/ (n < iter /\ n # iter)
    BY <1>3, <2>1 DEF Iterations
  <2>4. pc' = "mean" => iter' = TEST_ITERATIONS
    BY <1>3, <2>1, HandoverAssumption DEF Iterations
  <2>5. pc' \notin {"ropen", "read", "rout"}
    BY <2>1
  <2>6. \A n \in Iterations : n < iter' =>
          stats'[n].written_bytes = TEST_FILE_SIZE /\ stats'[n].read_bytes = TEST_FILE_SIZE
    BY <1>2, <2>1, <2>2, <2>3
  <2> QED
    BY <1>3, <2>4, <2>5, <2>6 DEF SpeedsInv
<1>5. CASE LP!ReadOpen \/ LP!ReadStep \/ LP!ReadStepFails \/ LP!ReadLoopEnds
  <2>1. stats' = stats /\ iter' = iter /\ pc' # "mean"
    BY <1>1, <1>5
       DEF LP!ReadOpen, LP!ReadStep, LP!ReadStepFails, LP!ReadLoopEnds, LP!mainvars
  <2> QED
    BY <1>2, <1>3, <2>1 DEF SpeedsInv
<1>6. ~LP!ReadOpenFails
  BY <1>1 DEF LP!ReadOpenFails, CleanInv
<1> QED
  BY <1>1, <1>4, <1>5, <1>6, LfsReadMaps

LEMMA SpeedsKept ==
  ASSUME ControlInv, program = "lfs", LP!IInv, CleanInv, SpeedsInv, [Next]_vars
  PROVE  SpeedsInv'
<1> SUFFICES ASSUME CleanRun' PROVE SpeedsInv'
  BY DEF SpeedsInv
<1>1. CleanRun /\ ~LP!Fails
  BY FaultsGrow
<1>2. CASE BeginRound
  <2>1. iter' = 0 /\ pc' = "unlink" /\ Iterations' = Iterations
    BY <1>2 DEF BeginRound, Goto, Iterations
  <2>2. \A n \in Iterations : ~(n < 0)
    BY DEF Iterations
  <2> QED
    BY <2>1, <2>2 DEF SpeedsInv
<1>3. CASE BeginIteration
  <2>1. stats' = stats /\ iter' = iter /\ pc = "unlink" /\ pc' = "wopen" /\ Iterations' = Iterations
    BY <1>3 DEF BeginIteration, Lfs!BeginIteration, Lfs!Goto, Lfs!mainvars, Iterations
  <2> QED
    BY <1>1, <2>1 DEF SpeedsInv, InRound
<1>4. CASE Prepare \/ LfsFinish \/ ComputeMeans
  <2>1. pc' \in {"round", "done"}
    BY <1>4 DEF Prepare, LfsFinish, ComputeMeans, Goto
  <2> QED
    BY <2>1 DEF SpeedsInv, InRound
<1>5. CASE UNCHANGED vars
  BY <1>1, <1>5 DEF vars, chunkvars, SpeedsInv, InRound, Iterations
<1> QED
  BY <1>1, <1>2, <1>3, <1>4, <1>5, SpeedsWriteKept, SpeedsReadKept
     DEF Next, FatMounting, FatTestWrite, FatTestRead, FatFinish

-----------------------------------------------------------------------------
(* The means of the littlefs program, over all iterations.                 *)

\* The mean of equal counts is that count.
LEMMA IterationsFinite ==
  IsFiniteSet(Iterations) /\ Cardinality(Iterations) = TEST_ITERATIONS
<1>1. TEST_ITERATIONS \in Nat /\ TEST_ITERATIONS > 0
  BY HandoverAssumption
<1> QED
  BY <1>1, FS_Interval DEF Iterations

LEMMA SumOfSpeeds ==
  ASSUME NEW field, NEW v \in Nat, \A n \in Iterations : stats[n][field] = v
  PROVE  TotalSpeed(field) = v * TEST_ITERATIONS
<1> DEFINE S == Iterations
           Terms(it) == [s \in SUBSET S |->
             IF s = {} THEN 0
             ELSE stats[CHOOSE x \in s : TRUE][field] + it[s \ {CHOOSE x \in s : TRUE}]]
           sum == CHOOSE it : it = Terms(it)
<1>1. TotalSpeed(field) = sum[S]
  BY DEF TotalSpeed, MapThenSumSet, MapThenFoldSet
<1>2. \E it : it = Terms(it)
  <2> DEFINE whole == [s \in SUBSET S |-> v * Cardinality(s)]
  <2>1. ASSUME NEW s \in SUBSET S
        PROVE  whole[s] = Terms(whole)[s]
    <3>1. CASE s = {}
      BY <3>1, FS_EmptySet
    <3>2. CASE s # {}
      <4>1. PICK x \in s : x = CHOOSE y \in s : TRUE
        BY <3>2
      <4>2. IsFiniteSet(s) /\ s \ {x} \in SUBSET S
        BY FS_Subset, IterationsFinite
      <4>3. /\ Cardinality(s \ {x}) = Cardinality(s) - 1 /\ Cardinality(s) \in Nat
        BY <4>1, <4>2, FS_RemoveElement, FS_CardinalityType
      <4>4. v * Cardinality(s) = v + v * (Cardinality(s) - 1)
        BY <4>3
      <4>5. stats[x][field] = v
        BY <4>1
      <4> QED
        BY <3>2, <4>1, <4>2, <4>3, <4>4, <4>5
    <3> QED
      BY <3>1, <3>2
  <2> QED
    BY <2>1
<1>3. sum = Terms(sum)
  BY <1>2
<1> HIDE DEF sum
<1>4. sum[{}] = 0
  BY <1>3
<1>5. ASSUME NEW s \in SUBSET S, s # {}
      PROVE  \E x \in s : sum[s] = v + sum[s \ {x}]
  <2>1. PICK x \in s : x = CHOOSE y \in s : TRUE
    BY <1>5
  <2>2. sum[s] = stats[x][field] + sum[s \ {x}]
    BY <1>3, <1>5, <2>1
  <2> QED
    BY <2>1, <2>2
<1>6. IsFiniteSet(S)
  BY IterationsFinite
<1> HIDE DEF S
<1>7. sum[S] = v * Cardinality(S)
  <2>1. \A s \in SUBSET S : s # {} => \E x \in s : sum[s] = v + sum[s \ {x}]
    BY <1>5
  <2> QED
    BY <1>4, <1>6, <2>1, SumOfEqualTerms
<1> QED
  BY <1>1, <1>7, IterationsFinite DEF S

\* So every report of a clean run shows the size of the file.
LEMMA ReportsKept ==
  ASSUME ControlInv, program = "lfs", LP!IInv, SpeedsInv, ReportsInv, [Next]_vars
  PROVE  ReportsInv'
<1> SUFFICES ASSUME CleanRun' PROVE ReportsInv'
  BY DEF ReportsInv
<1>1. CleanRun
  BY FaultsGrow
<1>2. CASE ComputeMeans
  <2>1. PICK T, v : T = TEST_ITERATIONS /\ v = TEST_FILE_SIZE
    OBVIOUS
  <2>2. T \in Nat /\ T > 0 /\ v \in Nat
    BY <2>1, Sizes, HandoverAssumption
  <2>3. pc = "mean" /\ program' = "lfs"
    BY <1>2 DEF ComputeMeans
  <2>4. \A n \in Iterations : stats[n]["written_bytes"] = v /\ stats[n]["read_bytes"] = v
    <3>1. iter = T
      BY <1>1, <2>1, <2>3 DEF SpeedsInv, InRound
    <3>2. \A n \in Iterations : n < iter
      BY <2>1, <2>2, <3>1 DEF Iterations
    <3> QED
      BY <1>1, <2>1, <2>3, <3>2 DEF SpeedsInv, InRound
  <2>5. TotalSpeed("written_bytes") = v * T /\ TotalSpeed("read_bytes") = v * T
    BY <2>1, <2>2, <2>4, SumOfSpeeds
  <2>6. TotalSpeed(WriteSpeed) = v * T /\ TotalSpeed(ReadSpeed) = v * T
    BY <2>5 DEF WriteSpeed, ReadSpeed
  <2>7. (v * T) \div T = v
    BY <2>2
  <2>8. reports' = [n \in DOMAIN reports \union {round} |->
          IF n # round THEN reports[n]
          ELSE [avg_write_speed |-> v, avg_read_speed |-> v]]
    BY <1>2, <2>1, <2>6, <2>7 DEF ComputeMeans
  <2> QED
    BY <1>1, <2>1, <2>8 DEF ReportsInv
<1>3. ASSUME reports' = reports PROVE ReportsInv'
  BY <1>1, <1>3 DEF ReportsInv
<1>4. CASE Prepare \/ BeginRound \/ BeginIteration \/ LfsFinish
  BY <1>3, <1>4
     DEF Prepare, BeginRound, BeginIteration, Lfs!BeginIteration, Lfs!mainvars,
         LfsFinish
<1>5. CASE UNCHANGED vars
  BY <1>3, <1>5 DEF vars
<1> QED
  BY <1>2, <1>3, <1>4, <1>5, LfsWriteInner, LfsReadInner
     DEF Next, FatMounting, FatTestWrite, FatTestRead, FatFinish

-----------------------------------------------------------------------------
(* The invariant of both programs.                                         *)

IInv ==
  /\ ControlInv
  /\ program = "fat" => FP!IInv
  /\ program = "lfs" => LP!IInv
  /\ SequentialInv /\ CleanInv /\ SpeedsInv /\ ReportsInv

LEMMA InitInv == Init => IInv
<1> SUFFICES ASSUME Init PROVE IInv
  OBVIOUS
<1>1. ControlInv
  BY InitControl
<1>2. program = "fat" => FP!IInv
  BY FatInitMaps, FP!InitInv, FatAssumptions
<1>3. program = "lfs" => LP!IInv
  BY LfsInitMaps, LP!InitInv, LfsAssumptions
<1>4. SequentialInv /\ CleanInv /\ SpeedsInv /\ ReportsInv
  BY DEF Init, SequentialInv, CleanInv, SpeedsInv, ReportsInv, InRound
<1> QED
  BY <1>1, <1>2, <1>3, <1>4 DEF IInv

\* Every step keeps the control of main.
LEMMA ControlKept ==
  ASSUME ControlInv, faults \in Nat, [Next]_vars
  PROVE  ControlInv'
<1>1. CASE UNCHANGED vars
  BY <1>1 DEF vars, chunkvars, ControlInv, MainInv, InRound, ShuffledInv, ReportedInv
<1> QED
  BY <1>1, MainKeepsControl, RoundKeepsControl DEF Next

LEMMA StepInv == IInv /\ [Next]_vars => IInv'
<1> SUFFICES ASSUME IInv, [Next]_vars PROVE IInv'
  OBVIOUS
<1>1. program \in {"lfs", "fat"}
  BY DEF IInv, ControlInv, MainInv
<1>2. CASE program = "fat"
  <2>1. ControlInv /\ FP!IInv
    BY <1>2 DEF IInv
  <2>2. faults \in Nat
    BY <2>1 DEF FP!IInv, FP!TypeOK, FP!ChunkTypeOK
  <2>3. ControlInv'
    BY <2>1, <2>2, ControlKept
  <2>4. FP!IInv' /\ program' = "fat"
    BY <1>2, <2>1, FatStepMaps, FatStep
  <2>5. program' # "lfs"
    BY <2>4
  <2> QED
    BY <2>3, <2>4, <2>5 DEF IInv, SequentialInv, CleanInv, SpeedsInv, ReportsInv
<1>3. CASE program = "lfs"
  <2>1. ControlInv /\ LP!IInv /\ SequentialInv /\ CleanInv /\ SpeedsInv /\ ReportsInv
    BY <1>3 DEF IInv
  <2>2. faults \in Nat
    BY <2>1 DEF LP!IInv, LP!TypeOK, LP!ChunkTypeOK
  <2>3. ControlInv'
    BY <2>1, <2>2, ControlKept
  <2>4. LP!IInv' /\ program' = "lfs"
    BY <1>3, <2>1, LfsStepKeeps
  <2>5. SequentialInv' /\ CleanInv' /\ SpeedsInv' /\ ReportsInv'
    BY <1>3, <2>1, SequentialKept, CleanKept, SpeedsKept, ReportsKept
  <2>6. program' # "fat"
    BY <2>4
  <2> QED
    BY <2>3, <2>4, <2>5, <2>6 DEF IInv
<1> QED
  BY <1>1, <1>2, <1>3

LEMMA Invariance == Spec => []IInv
BY InitInv, StepInv, PTL DEF Spec

-----------------------------------------------------------------------------
\* The FAT copy implements the full benchmark run on two configurations, one
\* sequential and one at random over the same file: shuffling once and skipping
\* the checks of the sizes makes no difference.
THEOREM FatImplements == Spec /\ program = "fat" => FP!Spec
<1>1. Init /\ program = "fat" => FP!Init
  BY FatInitMaps
<1>2. IInv /\ program = "fat" /\ [Next]_vars => [FP!Next]_(FP!vars) /\ (program = "fat")'
  BY FatStepMaps DEF IInv
<1> QED
  BY <1>1, <1>2, Invariance, PTL DEF Spec, FP!Spec

\* The random round of the FAT program seeks only inside the file that its
\* sequential round has left (with the proviso of FatPerf).
THEOREM SeeksStayInside == Spec => []SeekInsideFile
<1>1. IInv => SeekInsideFile
  <2> SUFFICES ASSUME IInv, program = "fat", pc \in {"write", "read"}, Fat!config.random,
                      Fat!config.file <= CAPACITY, Fat!More(Fat!config),
                      faults < 2 * TEST_ITERATIONS
               PROVE  Fat!Offset(Fat!config) <= Len(handle.cells)
    BY DEF SeekInsideFile, Fat!SeekInsideFile
  <2>1. FP!IInv /\ round \in 1 .. 2
    BY DEF IInv, ControlInv, MainInv, InRound
  <2>2. fat_pc \in {"write", "read"}
    BY DEF fat_pc
  <2>3. FP!config = Fat!config
    BY FatConfig
  <2>4. FP!More(FP!config) /\ FP!config.random /\ FP!config.file <= CAPACITY
    BY <2>3, FatChunk
  <2>5. FP!Offset(FP!config) <= Len(handle.cells)
    BY <2>1, <2>2, <2>4, FP!SeeksInside, FatAssumptions
  <2> QED
    BY <2>1, <2>3, <2>5, FatOffset
<1> QED
  BY <1>1, Invariance, PTL

\* What a clean run of either program leaves.
LEMMA FatCleanRun ==
  ASSUME IInv, program = "fat", CleanRun
  PROVE  /\ pc = "ropen" => WrittenBy(disk.cells, config, Fat!Tag)
         /\ \A n \in DOMAIN reports :
              reports[n] = [avg_write_speed |-> TEST_FILE_SIZE,
                            avg_read_speed |-> TEST_FILE_SIZE]
         /\ pc = "done" => ~mounted
<1>1. FP!IInv
  BY DEF IInv
<1>2. ASSUME pc = "ropen" PROVE WrittenBy(disk.cells, config, Fat!Tag)
  <2>1. round \in 1 .. 2
    BY <1>2 DEF IInv, ControlInv, MainInv, InRound
  <2>2. FP!Case(round) = Case(round) /\ Case(round).file = TEST_FILE_SIZE
    BY <2>1 DEF FP!Case, FP!Config, FP!Rows, FP!Cols, Case, Config, Rows, Cols, Rounds
  <2>3. FP!config = config /\ config.file = TEST_FILE_SIZE
    BY <2>2 DEF FP!config, config
  <2>4. FP!WrittenBy(disk.cells, FP!config, FP!Tag)
    BY <1>1, <1>2, <2>3 DEF FP!IInv, FP!CleanInv, FP!InConfig, fat_pc, CleanRun
  <2> QED
    BY <2>3, <2>4, FatConfig DEF WrittenBy, FP!WrittenBy
<1>3. ASSUME NEW n \in DOMAIN reports
      PROVE  reports[n] = [avg_write_speed |-> TEST_FILE_SIZE,
                           avg_read_speed |-> TEST_FILE_SIZE]
  <2>1. n \in Rounds
    BY <1>1, TwoRounds DEF FP!IInv, FP!TypeOK, Rounds
  <2> QED
    BY <1>1, <2>1 DEF FP!IInv, FP!ReportsInv, CleanRun
<1>4. ASSUME pc = "done", mounted PROVE FALSE
  <2>1. fat_pc = "done" /\ round \in 1 .. 2
    BY <1>4 DEF fat_pc, IInv, ControlInv, MainInv
  <2>2. FP!config.file = TEST_FILE_SIZE
    BY <2>1 DEF FP!config, FP!Case, FP!Config, Rounds
  <2>3. faults > 0 \/ CAPACITY < TEST_FILE_SIZE
    BY <1>1, <1>4, <2>1, <2>2 DEF FP!IInv, FP!LeavesMountedOnlyOnFailure
  <2> QED
    BY <2>3, Sizes, VolumeAssumption DEF CleanRun
<1> QED
  BY <1>2, <1>3, <1>4

LEMMA LfsCleanRun ==
  ASSUME IInv, program = "lfs", CleanRun
  PROVE  /\ pc = "ropen" => WrittenBy(disk.cells, config, Lfs!Tag(iter))
         /\ \A n \in DOMAIN reports :
              reports[n] = [avg_write_speed |-> TEST_FILE_SIZE,
                            avg_read_speed |-> TEST_FILE_SIZE]
         /\ mounted
<1>1. ASSUME pc = "ropen" PROVE WrittenBy(disk.cells, config, Lfs!Tag(iter))
  <2>1. stats[iter].write_success /\ rc = 0
    BY <1>1 DEF IInv, CleanInv
  <2>2. LP!WrittenBy(disk.cells, LP!config, LP!Tag(iter))
    BY <1>1, <2>1 DEF IInv, LP!IInv, LP!CompleteWriteIsOnVolume, lfs_pc
  <2>3. LP!config = config /\ LP!Tag(iter) = Lfs!Tag(iter)
    BY <1>1, LfsIteration, LfsConfig DEF IInv, InRound
  <2> QED
    BY <2>2, <2>3 DEF WrittenBy, LP!WrittenBy
<1> QED
  BY <1>1 DEF IInv, ReportsInv, ControlInv, MainInv

\* As long as no call fails, both programs measure what they print, each over
\* files it has written itself, and main leaves the volume as it should.
THEOREM CleanRunsHonest == Spec => []CleanRunIsHonest
<1>1. IInv => CleanRunIsHonest
  <2> SUFFICES ASSUME IInv, CleanRun
               PROVE  /\ pc = "ropen" =>
                           WrittenBy(disk.cells, config,
                                     IF program = "lfs" THEN Lfs!Tag(iter) ELSE Fat!Tag)
                      /\ \A n \in DOMAIN reports :
                           reports[n] = [avg_write_speed |-> TEST_FILE_SIZE,
                                         avg_read_speed |-> TEST_FILE_SIZE]
                      /\ pc = "done" => DOMAIN reports = Rounds /\ mounted = (program = "lfs")
    BY DEF CleanRunIsHonest, CleanRun
  <2>1. CASE program = "lfs"
    <3>1. pc = "done" => DOMAIN reports = Rounds
      BY <2>1 DEF IInv, ControlInv, ReportedInv
    <3>2. mounted = (program = "lfs")
      <4>1. mounted /\ mounted \in BOOLEAN
        BY <2>1, LfsCleanRun DEF IInv, ControlInv, MainInv
      <4> QED
        BY <2>1, <4>1, Zenon
    <3> QED
      BY <2>1, <3>1, <3>2, LfsCleanRun
  <2>2. CASE program = "fat"
    <3>1. program # "lfs"
      BY <2>2
    <3>2. pc = "done" => DOMAIN reports = Rounds
      BY <2>2, FatCleanRun DEF IInv, ControlInv, ReportedInv, CleanRun
    <3>3. pc = "done" => mounted = (program = "lfs")
      <4>1. pc = "done" => ~mounted /\ mounted \in BOOLEAN
        BY <2>2, FatCleanRun DEF IInv, ControlInv, MainInv
      <4> QED
        BY <3>1, <4>1, Zenon
    <3> QED
      BY <2>2, <3>1, <3>2, <3>3, FatCleanRun
  <2> QED
    BY <2>1, <2>2 DEF IInv, ControlInv, MainInv
<1> QED
  BY <1>1, Invariance, PTL

\* A read test of the sequential round that came to the end has read a file
\* every unit of which its own iteration has written.
THEOREM SequentialReads == Spec => []SequentialReadVouches
<1>1. IInv => SequentialReadVouches
  <2> SUFFICES ASSUME IInv, program = "lfs", pc = "rout", ~config.random, fresh,
                      total = TEST_FILE_SIZE
               PROVE  WrittenBy(handle.cells, config, Lfs!Tag(iter))
    BY DEF SequentialReadVouches
  <2>1. InRound /\ round \in 1 .. 2
    BY DEF IInv, ControlInv, MainInv, InRound
  <2>2. config.random = (round = 2) /\ config.file = TEST_FILE_SIZE
    BY DEF config, Case, Config
  <2>3. round = 1
    <3>1. ~(round = 2)
      BY <2>2, Zenon
    <3> QED
      BY <2>1, <3>1
  <2>4. OnlyOurs(handle.cells) /\ total <= Len(handle.cells)
    BY <2>3 DEF IInv, SequentialInv
  <2>5. handle \in [open : BOOLEAN, cells : Seq(Nat)] /\ LP!Tag(iter) = Lfs!Tag(iter)
    BY <2>1, LfsIteration, LfsConfig DEF IInv
  <2> QED
    BY <2>2, <2>4, <2>5, Sizes DEF WrittenBy, OnlyOurs
<1> QED
  BY <1>1, Invariance, PTL
=============================================================================
