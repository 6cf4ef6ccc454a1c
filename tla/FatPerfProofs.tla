---------------------------- MODULE FatPerfProofs ----------------------------
(***************************************************************************)
(* For any table of configurations in which a random one stands behind a   *)
(* sequential one of its file, any card and any number of failing calls:   *)
(*                                                                         *)
(*   FilesClosed          no return leaves a file open                     *)
(*   TypeCorrect          the types                                        *)
(*   CleanRunsHonest      without a failing call, and with room on the     *)
(*                        card, every pass is whole and so are the means   *)
(*   SeeksStayInside      random access stays inside the file              *)
(*   UnmountedUnlessFailed                                                 *)
(*                        main unmounts, or something has failed           *)
(*                                                                         *)
(* All but the first share one invariant, IInv.  It follows the length of  *)
(* the file, which only grows until main is done with it, and the results  *)
(* main gets to see.                                                       *)
(***************************************************************************)
EXTENDS FatPerf, PerfGeometryProofs

\* Where a file may be open: ReturnsWithFileClosed with the places added that
\* lead to those it names.
HandleInv ==
  pc \notin {"write", "wclose", "sync", "wout", "read", "rclose", "rout"} => ~handle.open

LEMMA InitHandle == Init => HandleInv
BY DEF Init, ChunkInit, Closed, HandleInv

LEMMA MainKeepsHandle ==
  ASSUME HandleInv,
         \/ Mount \/ CleanStart \/ SkipConfig \/ BeginConfig
         \/ ComputeMeans \/ FinishConfigs \/ Unmount
  PROVE  HandleInv'
<1>1. CASE Mount
  BY <1>1 DEF Mount, Goto, HandleInv
<1>2. CASE CleanStart
  BY <1>2 DEF CleanStart, Goto, HandleInv
<1>3. CASE SkipConfig
  BY <1>3 DEF SkipConfig, chunkvars, HandleInv
<1>4. CASE BeginConfig
  BY <1>4 DEF BeginConfig, Goto, HandleInv
<1>5. CASE ComputeMeans
  BY <1>5 DEF ComputeMeans, Goto, chunkvars, HandleInv
<1>6. CASE FinishConfigs
  BY <1>6 DEF FinishConfigs, Goto, HandleInv
<1>7. CASE Unmount
  BY <1>7 DEF Unmount, Goto, HandleInv
<1> QED
  BY <1>1, <1>2, <1>3, <1>4, <1>5, <1>6, <1>7

\* test_write: a failing open, the close after a failing write, and the close
\* at its end are its only ways out.
LEMMA WriteKeepsHandle ==
  ASSUME HandleInv,
         \/ WriteOpen \/ WriteStep \/ WriteSeekFails \/ WriteStepFails
         \/ WriteFailureCloses \/ WriteLoopEnds \/ WriteSync \/ WriteOut
  PROVE  HandleInv'
<1>1. CASE WriteOpen
  BY <1>1 DEF WriteOpen, Returned, Goto, HandleInv
<1>2. CASE WriteStep
  BY <1>2 DEF WriteStep, HandleInv
<1>3. CASE WriteSeekFails \/ WriteStepFails \/ WriteLoopEnds \/ WriteSync
  BY <1>3 DEF WriteSeekFails, WriteStepFails, WriteLoopEnds, WriteSync, Goto, HandleInv
<1>4. CASE WriteFailureCloses
  BY <1>4 DEF WriteFailureCloses, Close, CloseWorks, CloseFails, Closed, HandleInv
<1>5. CASE WriteOut
  BY <1>5 DEF WriteOut, Close, CloseWorks, CloseFails, Closed, HandleInv
<1> QED
  BY <1>1, <1>2, <1>3, <1>4, <1>5

LEMMA ReadKeepsHandle ==
  ASSUME HandleInv,
         \/ ReadOpen \/ ReadOpenFails \/ ReadStep \/ ReadSeekFails \/ ReadStepFails
         \/ ReadFailureCloses \/ ReadLoopEnds \/ ReadOut
  PROVE  HandleInv'
<1>1. CASE ReadOpen
  BY <1>1 DEF ReadOpen, Goto, HandleInv
<1>2. CASE ReadOpenFails
  BY <1>2 DEF ReadOpenFails, HandleInv
<1>3. CASE ReadStep
  BY <1>3 DEF ReadStep, HandleInv
<1>4. CASE ReadSeekFails \/ ReadStepFails \/ ReadLoopEnds
  BY <1>4 DEF ReadSeekFails, ReadStepFails, ReadLoopEnds, Goto, HandleInv
<1>5. CASE ReadFailureCloses
  BY <1>5 DEF ReadFailureCloses, CloseReading, Closed, HandleInv
<1>6. CASE ReadOut
  BY <1>6 DEF ReadOut, CloseReading, Closed, HandleInv
<1> QED
  BY <1>1, <1>2, <1>3, <1>4, <1>5, <1>6

\* Whichever way test_write and test_read return, the file is closed.
THEOREM FilesClosed == Spec => []ReturnsWithFileClosed
<1>1. HandleInv /\ [Next]_vars => HandleInv'
  <2>1. UNCHANGED vars /\ HandleInv => HandleInv'
    BY DEF vars, chunkvars, HandleInv
  <2> QED
    BY <2>1, MainKeepsHandle, WriteKeepsHandle, ReadKeepsHandle DEF Next
<1>2. HandleInv => ReturnsWithFileClosed
  BY DEF HandleInv, ReturnsWithFileClosed
<1> QED
  BY <1>1, <1>2, InitHandle, PTL DEF Spec

-----------------------------------------------------------------------------
(* The configurations main does not skip.                                  *)

LEMMA ConfigIsValid ==
  ASSUME NEW n \in DOMAIN CONFIGS, ~Skipped(Case(n))
  PROVE  /\ ValidConfig(Case(n))
         /\ Case(n).file = CONFIGS[n].file /\ Case(n).block = CONFIGS[n].block
         /\ Case(n).random = CONFIGS[n].random
<1>1. PICK file \in Nat \ {0}, block \in Nat \ {0}, random \in BOOLEAN :
        /\ CONFIGS[n].file = file /\ CONFIGS[n].block = block /\ CONFIGS[n].random = random
        /\ file % block = 0
  <2> DEFINE Records == [file : Nat \ {0}, block : Nat \ {0}, random : BOOLEAN]
  <2>1. CONFIGS \in Seq(Records)
    BY FatPerfAssumption
  <2>2. CONFIGS[n] \in Records
    <3> HIDE DEF Records
    <3> QED
      BY <2>1
  <2> QED
    BY <2>2, FatPerfAssumption
<1>2. Case(n) = Config(file, block, random)
  BY <1>1 DEF Case
<1>3. Case(n).file = file /\ Case(n).block = block /\ Case(n).random = random
  BY <1>2 DEF Config
<1>4. Accepted(file \div block)
  BY <1>3 DEF Skipped
<1> QED
  BY <1>1, <1>2, <1>3, <1>4, AcceptedIsValid

-----------------------------------------------------------------------------
(* The chunks of a loop, from its variables, and the calls it makes.       *)

Shuffled(cfg) == Permuted(cfg, randrows, randcols)
ChunksDone(cfg, k) == WholeChunks(cfg, at, total, k)
WrittenSoFar(cfg, tag) ==
  WrittenUpTo(cfg, randrows, randcols, at, total, handle.cells, tag)

\* While a loop goes on, its next chunk is a whole block inside the file, and
\* Advance counts it.
LEMMA LoopStep ==
  ASSUME NEW cfg, ValidConfig(cfg), Shuffled(cfg), NEW k, ChunksDone(cfg, k), More(cfg)
  PROVE  /\ ChunkSize(cfg) = cfg.block
         /\ Offset(cfg) = PlaceOf(cfg, randrows, randcols, at, total)
         /\ Offset(cfg) \in Nat /\ Offset(cfg) + cfg.block <= cfg.file
         /\ Advance(cfg) => at' = PlaceAfter(cfg, at) /\ total' = total + cfg.block
<1>1. total < cfg.file
  BY DEF More
<1>2. Offset(cfg) = PlaceOf(cfg, randrows, randcols, at, total)
  BY DEF Offset, PlaceOf
<1>3. ChunkSize(cfg) = cfg.block
  BY <1>1, NextChunk DEF ChunkSize, Shuffled, ChunksDone
<1>4. Offset(cfg) \in Nat /\ Offset(cfg) + cfg.block <= cfg.file
  BY <1>1, <1>2, NextChunk DEF Shuffled, ChunksDone
<1> QED
  BY <1>2, <1>3, <1>4 DEF Advance, PlaceAfter

LEMMA LoopStepTypes ==
  ASSUME NEW cfg, ValidConfig(cfg), Shuffled(cfg), NEW k, ChunksDone(cfg, k), More(cfg),
         Advance(cfg), at \in [row : Nat, row_start : Nat, col : Nat]
  PROVE  /\ ChunksDone(cfg, k + 1)'
         /\ at' \in [row : Nat, row_start : Nat, col : Nat] /\ total' \in Nat
<1>1. at' = PlaceAfter(cfg, at) /\ total' = total + cfg.block
  BY LoopStep
<1>2. total < cfg.file
  BY DEF More
<1>3. /\ WholeChunks(cfg, PlaceAfter(cfg, at), total + cfg.block, k + 1)
      /\ PlaceAfter(cfg, at) \in [row : Nat, row_start : Nat, col : Nat]
  BY <1>2, LoopAdvances DEF Shuffled, ChunksDone
<1>4. total + cfg.block \in Nat
  <2>1. total \in Nat
    BY <1>2, NextChunk DEF Shuffled, ChunksDone
  <2> QED
    BY <2>1 DEF ValidConfig
<1> QED
  BY <1>1, <1>3, <1>4 DEF ChunksDone

\* The handle after a chunk that was stored as a whole.
LEMMA ChunkStored ==
  ASSUME ChunkTypeOK, NEW cfg, ValidConfig(cfg), Shuffled(cfg), NEW k, ChunksDone(cfg, k),
         NEW tag \in Nat, WriteChunk(cfg, tag)
  PROVE  /\ handle' \in [open : BOOLEAN, cells : Seq(Nat)]
         /\ Len(handle'.cells) >= Len(handle.cells)
         /\ WrittenSoFar(cfg, tag) => WrittenSoFar(cfg, tag)'
<1>1. PICK off, new : off = Offset(cfg) /\ new = Overwrite(handle.cells, off, cfg.block, tag)
  OBVIOUS
<1>2. /\ More(cfg) /\ Advance(cfg) /\ UNCHANGED <<randrows, randcols>>
      /\ handle' = [handle EXCEPT !.cells = new]
  BY <1>1, LoopStep DEF WriteChunk, Stored
<1>3. /\ off \in Nat /\ off = PlaceOf(cfg, randrows, randcols, at, total)
      /\ at' = PlaceAfter(cfg, at) /\ total' = total + cfg.block /\ total < cfg.file
  BY <1>1, <1>2, LoopStep DEF More
<1>4. handle \in [open : BOOLEAN, cells : Seq(Nat)] /\ handle.cells \in Seq(Nat)
  BY DEF ChunkTypeOK
<1>5. cfg.block \in Int
  BY DEF ValidConfig
<1>6. new \in Seq(Nat) /\ Len(new) >= Len(handle.cells)
  BY <1>1, <1>3, <1>4, <1>5, OverwriteEffect
<1>7. handle' \in [open : BOOLEAN, cells : Seq(Nat)] /\ handle'.cells = new
  BY <1>2, <1>4, <1>6
<1>8. ASSUME WrittenSoFar(cfg, tag) PROVE WrittenSoFar(cfg, tag)'
  <2>1. WrittenUpTo(cfg, randrows, randcols, PlaceAfter(cfg, at), total + cfg.block, new, tag)
    BY <1>1, <1>3, <1>4, <1>8, ChunkExtends DEF WrittenSoFar, Shuffled, ChunksDone
  <2> QED
    BY <1>2, <1>3, <1>7, <2>1 DEF WrittenSoFar
<1> QED
  BY <1>6, <1>7, <1>8

\* Failing calls are counted to their bound, and calls of the file system
\* interface leave a file of units.
LEMMA CallTypes ==
  ASSUME ChunkTypeOK
  PROVE  /\ Works => faults' \in 0 .. MAX_FAULTS
         /\ Fails => faults' \in 0 .. MAX_FAULTS
         /\ Unlink => disk' \in [exists : BOOLEAN, cells : Seq(Nat)]
         /\ Unlink => faults' \in 0 .. MAX_FAULTS
         /\ Commit => disk' \in [exists : BOOLEAN, cells : Seq(Nat)]
         /\ UNCHANGED disk => disk' \in [exists : BOOLEAN, cells : Seq(Nat)]
         /\ OpenForWriting \/ OpenForReading =>
              /\ disk' \in [exists : BOOLEAN, cells : Seq(Nat)]
              /\ handle' \in [open : BOOLEAN, cells : Seq(Nat)]
         /\ handle' = Closed => handle' \in [open : BOOLEAN, cells : Seq(Nat)]
<1>1. faults \in 0 .. MAX_FAULTS /\ MAX_FAULTS \in Nat
  BY VolumeAssumption DEF ChunkTypeOK
<1>2. /\ disk \in [exists : BOOLEAN, cells : Seq(Nat)]
      /\ handle \in [open : BOOLEAN, cells : Seq(Nat)]
  BY DEF ChunkTypeOK
<1>3. <<>> \in Seq(Nat)
  OBVIOUS
<1>4. NoFile \in [exists : BOOLEAN, cells : Seq(Nat)] /\ Closed \in [open : BOOLEAN, cells : Seq(Nat)]
  BY <1>3 DEF NoFile, Closed
<1>5. Works \/ Fails => faults' \in 0 .. MAX_FAULTS
  BY <1>1 DEF Works, Fails
<1>6. Unlink => disk' \in [exists : BOOLEAN, cells : Seq(Nat)] /\ (Works \/ Fails)
  BY <1>2, <1>4 DEF Unlink
<1>7. Commit => disk' \in [exists : BOOLEAN, cells : Seq(Nat)]
  BY <1>2 DEF Commit
<1>8. OpenForWriting \/ OpenForReading =>
        /\ disk' \in [exists : BOOLEAN, cells : Seq(Nat)]
        /\ handle' \in [open : BOOLEAN, cells : Seq(Nat)]
  <2>1. disk.cells \in Seq(Nat) /\ [disk EXCEPT !.exists = TRUE] \in [exists : BOOLEAN, cells : Seq(Nat)]
    BY <1>2
  <2>2. [open |-> TRUE, cells |-> disk.cells] \in [open : BOOLEAN, cells : Seq(Nat)]
    BY <2>1
  <2> QED
    BY <1>2, <2>1, <2>2 DEF OpenForWriting, OpenForReading
<1> QED
  BY <1>2, <1>4, <1>5, <1>6, <1>7, <1>8

LEMMA LoopTypes ==
  BeginLoop => at' \in [row : Nat, row_start : Nat, col : Nat] /\ total' \in Nat
BY DEF BeginLoop, WalkStart

-----------------------------------------------------------------------------
(* The invariant.                                                          *)

InConfig == {"wopen", "write", "wclose", "sync", "wout", "ropen", "read", "rclose", "rout",
             "mean"}

\* A configuration under way is one main does not skip, with shuffled arrays.
ConfigInv ==
  /\ pc \in {"mount", "clean"} => c = 0
  /\ pc \in InConfig =>
       c \in 1 .. Len(CONFIGS) /\ ~Skipped(config) /\ Shuffled(config)
  /\ pc \in InConfig \ {"mean"} => iter \in Iterations
  /\ pc = "mean" => iter = TEST_ITERATIONS

\* The open file is never shorter than what the card holds.
FileInv ==
  /\ pc \in InConfig \ {"wopen", "mean"} => disk.exists
  /\ pc \in {"write", "wclose", "sync", "wout", "read"} =>
       Len(handle.cells) >= Len(disk.cells)

\* The card holds `units` units of the file, or k calls have failed.
KeptOr(units, k) == Len(disk.cells) >= units \/ faults >= k

\* A sequential pass fills the file; to lose it again costs two failing calls,
\* of fs_sync and of fs_close, in each iteration.
SequentialInv ==
  pc \in InConfig /\ ~config.random /\ config.file <= CAPACITY =>
    /\ pc \in {"wopen", "write", "wclose", "sync"} => KeptOr(config.file, 2 * iter)
    /\ pc = "wout" => KeptOr(config.file, 2 * iter + 1)
    /\ pc \in {"ropen", "read", "rclose", "rout"} => KeptOr(config.file, 2 * iter + 2)
    /\ pc = "mean" => KeptOr(config.file, 2 * TEST_ITERATIONS)
    /\ pc \in {"sync", "wout"} => Len(handle.cells) >= config.file

Sequential(m) ==
  ~CONFIGS[m].random /\ CONFIGS[m].file <= CAPACITY /\ ~Skipped(Case(m))

\* What the sequential configurations have left stays on the card.
FinishedInv ==
  pc \in InConfig \union {"config"} =>
    \A m \in DOMAIN CONFIGS :
      Sequential(m) /\ (m < c \/ (m = c /\ pc = "config")) =>
        KeptOr(CONFIGS[m].file, 2 * TEST_ITERATIONS)

\* The result a failing pass returns.
ResultInv ==
  /\ pc = "wclose" =>
       \/ rc = -1 /\ faults > 0
       \/ rc \in 0 .. config.block - 1 /\ CAPACITY < config.file
  /\ pc = "rclose" =>
       \/ rc \in -1 .. config.block - 1 /\ faults > 0
       \/ rc \in 0 .. config.block - 1 /\ CAPACITY < config.file

\* While no call has failed, and with room on the card, every pass is whole.
CleanInv ==
  pc \in InConfig /\ faults = 0 /\ config.file <= CAPACITY =>
    /\ pc \in {"sync", "wout"} => WrittenBy(handle.cells, config, Tag)
    /\ pc = "ropen" => WrittenBy(disk.cells, config, Tag)
    /\ pc = "read" => Len(handle.cells) >= config.file

SpeedsInv ==
  pc \in InConfig /\ faults = 0 /\ config.file <= CAPACITY =>
    \A i \in Iterations :
      /\ i < iter => stats[i] = [write_speed |-> config.file, read_speed |-> config.file]
      /\ i = iter /\ pc \in {"ropen", "read", "rout"} => stats[i].write_speed = config.file

LoopInv == pc \in {"write", "read"} => \E k : ChunksDone(config, k)

WrittenInv == pc = "write" => WrittenSoFar(config, Tag)

\* The second half of CleanRunIsHonest.
ReportsInv ==
  faults = 0 =>
    \A n \in {m \in DOMAIN reports : CONFIGS[m].file <= CAPACITY} :
      reports[n] = [avg_write_speed |-> CONFIGS[n].file,
                    avg_read_speed |-> CONFIGS[n].file]

IInv ==
  /\ TypeOK /\ ConfigInv /\ LoopInv /\ WrittenInv
  /\ FileInv /\ SequentialInv /\ FinishedInv
  /\ ResultInv /\ CleanInv /\ SpeedsInv /\ ReportsInv
  /\ LeavesMountedOnlyOnFailure

-----------------------------------------------------------------------------
(* What the steps of a pass do, under the invariant.                       *)

Disks == [exists : BOOLEAN, cells : Seq(Nat)]
Handles == [open : BOOLEAN, cells : Seq(Nat)]
Places == [row : Nat, row_start : Nat, col : Nat]
Speeds == [write_speed : Nat, read_speed : Nat]

\* The values arithmetic is done with.
LEMMA Numbers ==
  ASSUME IInv
  PROVE  /\ faults \in Nat /\ MAX_FAULTS \in Nat /\ CAPACITY \in Nat
         /\ iter \in Nat /\ c \in Nat /\ TEST_ITERATIONS \in Nat /\ TEST_ITERATIONS > 0
         /\ Len(CONFIGS) \in Nat
         /\ disk \in Disks /\ handle \in Handles /\ at \in Places /\ total \in Nat
         /\ Len(disk.cells) \in Nat /\ Len(handle.cells) \in Nat
<1>1. TypeOK /\ ChunkTypeOK
  BY DEF IInv, TypeOK
<1>2. Len(CONFIGS) \in Nat
  BY FatPerfAssumption
<1>3. disk \in Disks /\ handle \in Handles
  BY <1>1 DEF ChunkTypeOK, Disks, Handles
<1>4. Len(disk.cells) \in Nat /\ Len(handle.cells) \in Nat
  BY <1>3 DEF Disks, Handles
<1> QED
  BY <1>1, <1>2, <1>3, <1>4, VolumeAssumption, FatPerfAssumption DEF TypeOK, ChunkTypeOK, Places

LEMMA ConfigFacts ==
  ASSUME IInv, pc \in InConfig
  PROVE  /\ c \in DOMAIN CONFIGS /\ c \in 1 .. Len(CONFIGS) /\ c \in Nat
         /\ ~Skipped(Case(c)) /\ Shuffled(config) /\ ValidConfig(config)
         /\ config.file = CONFIGS[c].file /\ config.file \in Nat
         /\ config.block = CONFIGS[c].block /\ config.block \in Nat /\ config.block > 0
         /\ config.random = CONFIGS[c].random
<1>1. c \in 1 .. Len(CONFIGS) /\ ~Skipped(config) /\ Shuffled(config)
  BY DEF IInv, ConfigInv
<1>2. DOMAIN CONFIGS = 1 .. Len(CONFIGS) /\ Len(CONFIGS) \in Nat
  BY FatPerfAssumption
<1>3. /\ ValidConfig(config) /\ config.file = CONFIGS[c].file
      /\ config.block = CONFIGS[c].block /\ config.random = CONFIGS[c].random
  BY <1>1, <1>2, ConfigIsValid DEF config
<1> QED
  BY <1>1, <1>2, <1>3 DEF ValidConfig, config

LEMMA TagIsNat ==
  ASSUME IInv, pc \in InConfig
  PROVE  Tag \in Nat
<1>1. PICK a \in Nat, T \in Nat : a = c - 1 /\ T = TEST_ITERATIONS
  BY ConfigFacts, Numbers
<1>2. PICK p \in Nat : p = a * T
  OBVIOUS
<1>3. Tag = p + iter + 1
  BY <1>1, <1>2 DEF Tag
<1> QED
  BY <1>2, <1>3, Numbers

\* A place the walk reaches in a file the card has room for is not refused:
\* the file has its full length, or enough calls have failed.
LEMMA SeeksInside ==
  ASSUME IInv, pc \in {"write", "read"}, config.random, config.file <= CAPACITY,
         More(config), faults < 2 * TEST_ITERATIONS
  PROVE  Offset(config) <= Len(handle.cells)
<1>1. pc \in InConfig
  BY DEF InConfig
<1>2. /\ c \in DOMAIN CONFIGS /\ c \in Nat /\ ~Skipped(Case(c)) /\ CONFIGS[c].random
      /\ CONFIGS[c].file <= CAPACITY /\ config.file = CONFIGS[c].file
  BY <1>1, ConfigFacts
<1>3. PICK m \in 1 .. c - 1 : ~CONFIGS[m].random /\ CONFIGS[m].file = CONFIGS[c].file
                              /\ ~Skipped(Case(m))
  BY <1>2, SequentialFirst
<1>4. m \in DOMAIN CONFIGS /\ m < c
  BY <1>1, <1>3, ConfigFacts, FatPerfAssumption
<1>5. KeptOr(CONFIGS[m].file, 2 * TEST_ITERATIONS)
  BY <1>1, <1>2, <1>3, <1>4 DEF IInv, FinishedInv, Sequential
<1>6. Len(disk.cells) >= config.file
  <2>1. ~(faults >= 2 * TEST_ITERATIONS)
    BY Numbers
  <2> QED
    BY <1>2, <1>3, <1>5, <2>1 DEF KeptOr
<1>7. Len(handle.cells) >= Len(disk.cells)
  BY DEF IInv, FileInv
<1>8. Offset(config) \in Nat /\ Offset(config) + config.block <= config.file
  <2>1. PICK k : ChunksDone(config, k)
    BY DEF IInv, LoopInv
  <2> QED
    BY <1>1, <2>1, ConfigFacts, LoopStep
<1>9. PICK off \in Nat, block \in Nat, file \in Nat :
        off = Offset(config) /\ block = config.block /\ file = config.file
  BY <1>1, <1>8, ConfigFacts
<1>10. PICK long \in Nat, longer \in Nat :
         long = Len(disk.cells) /\ longer = Len(handle.cells)
  BY Numbers
<1>11. off + block <= file /\ file <= long /\ long <= longer
  BY <1>6, <1>7, <1>8, <1>9, <1>10
<1>12. off <= longer
  BY <1>11
<1> QED
  BY <1>9, <1>10, <1>12

LEMMA WriteStepEffect ==
  ASSUME IInv, WriteStep
  PROVE  /\ pc = "write" /\ pc' = "write"
         /\ UNCHANGED <<mainvars, disk, faults, arrays, config, Tag>>
         /\ handle' \in Handles /\ Len(handle'.cells) >= Len(handle.cells)
         /\ at' \in Places /\ total' \in Nat
         /\ \E k : ChunksDone(config, k)'
         /\ WrittenSoFar(config, Tag)'
<1>1. PICK cfg, tag : cfg = config /\ tag = Tag
  OBVIOUS
<1>2. pc = "write" /\ pc' = "write" /\ WriteChunk(cfg, tag) /\ UNCHANGED mainvars
  BY <1>1 DEF WriteStep
<1>3. /\ More(cfg) /\ Advance(cfg) /\ UNCHANGED <<disk, faults, arrays>>
  BY <1>2 DEF WriteChunk, Works, arrays
<1>4. config' = cfg /\ Tag' = tag
  BY <1>1, <1>2 DEF config, Tag, mainvars
<1>5. ValidConfig(cfg) /\ Shuffled(cfg) /\ tag \in Nat /\ ChunkTypeOK
  BY <1>1, <1>2, ConfigFacts, TagIsNat DEF InConfig, IInv, TypeOK
<1>6. PICK k : ChunksDone(cfg, k)
  BY <1>1, <1>2 DEF IInv, LoopInv
<1>7. WrittenSoFar(cfg, tag)
  BY <1>1, <1>2 DEF IInv, WrittenInv
<1>8. /\ handle' \in Handles /\ Len(handle'.cells) >= Len(handle.cells)
      /\ WrittenSoFar(cfg, tag)'
  BY <1>2, <1>5, <1>6, <1>7, ChunkStored DEF Handles
<1>9. ChunksDone(cfg, k + 1)' /\ at' \in Places /\ total' \in Nat
  BY <1>3, <1>5, <1>6, LoopStepTypes DEF ChunkTypeOK, Places
<1>10. WrittenSoFar(config, Tag)' /\ \E n : ChunksDone(config, n)'
  BY <1>4, <1>8, <1>9 DEF WrittenSoFar, ChunksDone
<1> QED
  BY <1>1, <1>2, <1>3, <1>4, <1>8, <1>9, <1>10

LEMMA ReadStepEffect ==
  ASSUME IInv, ReadStep
  PROVE  /\ pc = "read" /\ pc' = "read"
         /\ UNCHANGED <<mainvars, disk, handle, faults, arrays, config, Tag>>
         /\ at' \in Places /\ total' \in Nat
         /\ \E k : ChunksDone(config, k)'
<1>1. PICK cfg : cfg = config
  OBVIOUS
<1>2. pc = "read" /\ pc' = "read" /\ ReadChunk(cfg) /\ UNCHANGED mainvars
  BY <1>1 DEF ReadStep
<1>3. More(cfg) /\ Advance(cfg) /\ UNCHANGED <<disk, handle, faults, arrays>>
  BY <1>2 DEF ReadChunk, Works, arrays
<1>4. config' = cfg /\ Tag' = Tag
  BY <1>1, <1>2 DEF config, Tag, mainvars
<1>5. ValidConfig(cfg) /\ Shuffled(cfg) /\ ChunkTypeOK
  BY <1>1, <1>2, ConfigFacts DEF InConfig, IInv, TypeOK
<1>6. PICK k : ChunksDone(cfg, k)
  BY <1>1, <1>2 DEF IInv, LoopInv
<1>7. ChunksDone(cfg, k + 1)' /\ at' \in Places /\ total' \in Nat
  BY <1>3, <1>5, <1>6, LoopStepTypes DEF ChunkTypeOK, Places
<1>8. \E n : ChunksDone(config, n)'
  BY <1>4, <1>7 DEF ChunksDone
<1> QED
  BY <1>1, <1>2, <1>3, <1>4, <1>7, <1>8

\* A write that comes up short has met an error or the end of the card.
LEMMA WriteStepFailsEffect ==
  ASSUME IInv, WriteStepFails
  PROVE  /\ pc = "write" /\ pc' = "wclose"
         /\ UNCHANGED <<c, iter, mounted, stats, reports, disk, arrays, loopvars, config, Tag>>
         /\ handle' \in Handles /\ Len(handle'.cells) >= Len(handle.cells)
         /\ \/ rc' = -1 /\ Fails
            \/ rc' \in 0 .. config.block - 1 /\ CAPACITY < config.file /\ Works
<1>1. PICK cfg, tag : cfg = config /\ tag = Tag
  OBVIOUS
<1>2. /\ pc = "write" /\ pc' = "wclose"
      /\ UNCHANGED <<c, iter, mounted, stats, reports>>
  BY DEF WriteStepFails, Goto
<1>3. PICK n \in -1 .. cfg.block : WriteFails(cfg, tag, n) /\ rc' = n
  BY <1>1 DEF WriteStepFails
<1>4. /\ More(cfg) /\ UNCHANGED <<disk, arrays, loopvars>>
      /\ handle' = [handle EXCEPT !.cells = Overwrite(@, Offset(cfg), n, tag)]
      /\ \/ n = -1 /\ Fails
         \/ n = Storable(Offset(cfg), ChunkSize(cfg)) /\ n < ChunkSize(cfg) /\ Works
  BY <1>3 DEF WriteFails, Stored, arrays, loopvars
<1>5. config' = cfg /\ Tag' = tag
  BY <1>1, <1>2 DEF config, Tag
<1>6. /\ ValidConfig(cfg) /\ Shuffled(cfg) /\ tag \in Nat
      /\ cfg.block \in Nat /\ cfg.file \in Nat
  BY <1>1, <1>2, ConfigFacts, TagIsNat DEF InConfig
<1>7. PICK k : ChunksDone(cfg, k)
  BY <1>1, <1>2 DEF IInv, LoopInv
<1>8. PICK off \in Nat : off = Offset(cfg) /\ off + cfg.block <= cfg.file /\ ChunkSize(cfg) = cfg.block
  BY <1>4, <1>6, <1>7, LoopStep
<1>9. handle \in Handles /\ handle.cells \in Seq(Nat) /\ Len(handle.cells) \in Nat
  BY Numbers DEF Handles
<1>10. PICK new : new = Overwrite(handle.cells, off, n, tag)
  OBVIOUS
<1>11. new \in Seq(Nat) /\ Len(new) >= Len(handle.cells)
  <2>1. n \in Int
    BY <1>6
  <2> QED
    BY <1>6, <1>9, <1>10, <2>1, OverwriteEffect
<1>12. handle' = [handle EXCEPT !.cells = new]
  BY <1>4, <1>8, <1>10
<1>13. handle' \in Handles /\ Len(handle'.cells) >= Len(handle.cells)
  BY <1>9, <1>11, <1>12 DEF Handles
<1>14. PICK room \in Nat : room = Larger(CAPACITY, Len(handle.cells)) /\ room >= CAPACITY
  BY <1>9, Numbers DEF Larger
<1>15. n # -1 => n = Smaller(cfg.block, Larger(0, room - off)) /\ n < cfg.block /\ Works
  BY <1>4, <1>8, <1>14 DEF Storable
<1>16. n # -1 => n \in 0 .. cfg.block - 1 /\ room < cfg.file
  BY <1>6, <1>8, <1>15 DEF Smaller, Larger
<1>17. n = -1 => Fails
  <2>1. n = -1 => n # Smaller(cfg.block, Larger(0, room - off))
    BY <1>6 DEF Smaller, Larger
  <2> QED
    BY <1>4, <1>8, <1>14, <2>1 DEF Storable
<1>18. n # -1 => n \in 0 .. cfg.block - 1 /\ CAPACITY < cfg.file
  BY <1>6, <1>14, <1>16, Numbers
<1> QED
  BY <1>1, <1>2, <1>3, <1>4, <1>5, <1>13, <1>15, <1>17, <1>18

\* A read that comes up short has met an error or the end of the file.
LEMMA ReadStepFailsEffect ==
  ASSUME IInv, ReadStepFails
  PROVE  /\ pc = "read" /\ pc' = "rclose"
         /\ UNCHANGED <<c, iter, mounted, stats, reports, disk, handle, arrays, loopvars,
                        config, Tag>>
         /\ \/ rc' = -1 /\ Fails
            \/ rc' \in 0 .. config.block - 1 /\ Len(handle.cells) < config.file /\ Works
<1>1. PICK cfg : cfg = config
  OBVIOUS
<1>2. /\ pc = "read" /\ pc' = "rclose"
      /\ UNCHANGED <<c, iter, mounted, stats, reports>>
  BY DEF ReadStepFails, Goto
<1>3. PICK n \in -1 .. cfg.block : ReadFails(cfg, n) /\ rc' = n
  BY <1>1 DEF ReadStepFails
<1>4. /\ More(cfg) /\ UNCHANGED <<disk, handle, arrays, loopvars>>
      /\ \/ n = -1 /\ Fails
         \/ n = Readable(Offset(cfg), ChunkSize(cfg)) /\ n < ChunkSize(cfg) /\ Works
  BY <1>3 DEF ReadFails, arrays, loopvars
<1>5. config' = cfg /\ Tag' = Tag
  BY <1>1, <1>2 DEF config, Tag
<1>6. ValidConfig(cfg) /\ Shuffled(cfg) /\ cfg.block \in Nat /\ cfg.file \in Nat
  BY <1>1, <1>2, ConfigFacts DEF InConfig
<1>7. PICK k : ChunksDone(cfg, k)
  BY <1>1, <1>2 DEF IInv, LoopInv
<1>8. PICK off \in Nat : off = Offset(cfg) /\ off + cfg.block <= cfg.file /\ ChunkSize(cfg) = cfg.block
  BY <1>4, <1>6, <1>7, LoopStep
<1>9. PICK len \in Nat : len = Len(handle.cells)
  BY Numbers
<1>10. n # -1 => /\ n = Smaller(cfg.block, Larger(0, len - off)) /\ n < cfg.block /\ Works
  BY <1>4, <1>8, <1>9 DEF Readable
<1>11. n # -1 => n \in 0 .. cfg.block - 1 /\ len < cfg.file
  BY <1>6, <1>8, <1>10 DEF Smaller, Larger
<1>12. n = -1 => Fails
  BY <1>4, <1>6, <1>8, <1>9 DEF Readable, Smaller, Larger
<1> QED
  BY <1>1, <1>2, <1>3, <1>4, <1>5, <1>9, <1>10, <1>11, <1>12

-----------------------------------------------------------------------------
(* The invariant is inductive.                                             *)

LEMMA InitInv == Init => IInv
<1> SUFFICES ASSUME Init PROVE IInv
  OBVIOUS
<1>1. 0 \in RowIndex /\ 0 \in ColIndex
  BY Ranges DEF RowIndex, ColIndex
<1>2. ChunkTypeOK
  <2>1. <<>> \in Seq(Nat)
    OBVIOUS
  <2>2. disk \in [exists : BOOLEAN, cells : Seq(Nat)]
    <3>1. CASE disk = NoFile
      BY <2>1, <3>1 DEF NoFile
    <3>2. ASSUME NEW s \in LEFTOVERS, disk = [exists |-> TRUE, cells |-> s]
          PROVE  disk \in [exists : BOOLEAN, cells : Seq(Nat)]
      <4>1. s \in Seq(Nat)
        BY FatPerfAssumption
      <4> QED
        BY <3>2, <4>1
    <3> QED
      BY <3>1, <3>2 DEF Init, ChunkInit
  <2>3. handle \in [open : BOOLEAN, cells : Seq(Nat)]
    BY <2>1 DEF Init, ChunkInit, Closed
  <2>4. at \in [row : Nat, row_start : Nat, col : Nat] /\ total \in Nat
    BY DEF Init, ChunkInit, WalkStart
  <2>5. faults \in 0 .. MAX_FAULTS
    BY VolumeAssumption DEF Init, ChunkInit
  <2>6. randrows \in [RowIndex -> RowIndex] /\ randcols \in [ColIndex -> ColIndex]
    BY <1>1 DEF Init, ChunkInit
  <2> QED
    BY <2>2, <2>3, <2>4, <2>5, <2>6 DEF ChunkTypeOK
<1>3. TypeOK
  <2>1. Len(CONFIGS) \in Nat /\ TEST_ITERATIONS \in Nat
    BY FatPerfAssumption
  <2>2. stats \in [Iterations -> Speeds]
    BY DEF Init, NoStats, Speeds
  <2>3. DOMAIN reports = {}
    BY DEF Init
  <2>4. c \in 0 .. Len(CONFIGS) /\ iter \in 0 .. TEST_ITERATIONS
    BY <2>1 DEF Init
  <2>5. mounted = FALSE /\ pc = "mount"
    BY DEF Init
  <2>6. rc \in Int
    BY DEF Init
  <2> QED
    BY <1>2, <2>2, <2>3, <2>4, <2>5, <2>6 DEF TypeOK, Speeds
<1> QED
  BY <1>3 DEF Init, IInv, ConfigInv, InConfig, LoopInv, WrittenInv, FileInv, SequentialInv,
              FinishedInv, ResultInv, CleanInv, SpeedsInv, ReportsInv,
              LeavesMountedOnlyOnFailure

\* An iteration that is not the last leads to the next.
LEMMA IterationFacts ==
  ASSUME NEW r, IterationEnds(r), iter \in Iterations
  PROVE  /\ pc' \in {"done", "wopen", "mean"} /\ rc' = r
         /\ iter' \in 0 .. TEST_ITERATIONS
         /\ pc' # "done" => r = 0 /\ iter' = iter + 1
         /\ pc' = "wopen" => iter' \in Iterations
         /\ pc' = "mean" => iter' = TEST_ITERATIONS
<1>1. iter \in Nat /\ iter < TEST_ITERATIONS /\ TEST_ITERATIONS \in Nat
  BY FatPerfAssumption DEF Iterations
<1>2. CASE r = 0
  BY <1>1, <1>2 DEF IterationEnds, Goto, Iterations
<1>3. CASE r # 0
  BY <1>1, <1>3 DEF IterationEnds, Goto, Iterations
<1> QED
  BY <1>2, <1>3

LEMMA SameConfig ==
  ASSUME UNCHANGED <<c, arrays>>
  PROVE  /\ config' = config
         /\ Shuffled(config)' = Shuffled(config) /\ Skipped(config)' = Skipped(config)
BY DEF config, Shuffled, arrays

LEMMA ConfigKept == ASSUME IInv, [Next]_vars PROVE ConfigInv'
<1> USE DEF Goto, InConfig
<1>0. Iterations' = Iterations
  BY DEF Iterations
<1>1. CASE Mount \/ CleanStart \/ SkipConfig \/ ComputeMeans \/ FinishConfigs \/ Unmount
  BY <1>1 DEF Mount, CleanStart, SkipConfig, ComputeMeans, FinishConfigs, Unmount, mainvars,
              IInv, ConfigInv
<1>2. CASE BeginConfig
  <2>1. /\ c < Len(CONFIGS) /\ c' = c + 1 /\ ~Skipped(Case(c + 1)) /\ iter' = 0
        /\ pc' = "wopen"
    BY <1>2 DEF BeginConfig
  <2>2. c' \in 1 .. Len(CONFIGS)
    BY <2>1, Numbers
  <2>3. /\ IsPermutation(randrows', Case(c + 1).rows)
        /\ IsPermutation(randcols', Case(c + 1).cols)
    BY <1>2 DEF BeginConfig, RandomPermutationsInitialize, Shuffles
  <2>4. config' = Case(c + 1)
    BY <2>1 DEF config
  <2>5. Shuffled(config)' /\ ~Skipped(config)'
    BY <2>1, <2>3, <2>4 DEF Shuffled, Permuted, Skipped
  <2>6. iter' \in Iterations
    BY <2>1, FatPerfAssumption DEF Iterations
  <2> QED
    BY <1>0, <2>1, <2>2, <2>5, <2>6 DEF ConfigInv
<1>3. ASSUME UNCHANGED <<c, arrays>>, pc \in InConfig, pc' \in InConfig,
             /\ pc' # "mean" => iter' \in Iterations
             /\ pc' = "mean" => iter' = TEST_ITERATIONS
      PROVE  ConfigInv'
  BY <1>0, <1>3, SameConfig DEF IInv, ConfigInv
<1>4. ASSUME pc' = "done" PROVE ConfigInv'
  BY <1>4 DEF ConfigInv
<1>5. pc \in InConfig \ {"mean"} => iter \in Iterations
  BY DEF IInv, ConfigInv
<1>6. CASE WriteOpen
  BY <1>3, <1>4, <1>5, <1>6 DEF WriteOpen, Returned
<1>7. CASE WriteStep \/ ReadStep
  BY <1>3, <1>5, <1>7, WriteStepEffect, ReadStepEffect DEF mainvars
<1>8. CASE WriteSeekFails \/ ReadSeekFails
  BY <1>3, <1>5, <1>8 DEF WriteSeekFails, ReadSeekFails, SeekFails, mainvars, chunkvars, arrays
<1>9. CASE WriteStepFails \/ ReadStepFails
  BY <1>3, <1>5, <1>9, WriteStepFailsEffect, ReadStepFailsEffect
<1>10. CASE WriteLoopEnds \/ ReadLoopEnds \/ WriteSync \/ ReadOpen
  BY <1>3, <1>5, <1>10 DEF WriteLoopEnds, ReadLoopEnds, WriteSync, ReadOpen, mainvars,
                           chunkvars, arrays
<1>11. CASE WriteFailureCloses \/ WriteOut
  BY <1>3, <1>4, <1>5, <1>11 DEF WriteFailureCloses, WriteOut, Returned
<1>12. CASE ReadOpenFails
  BY <1>4, <1>12 DEF ReadOpenFails, IterationEnds
<1>13. CASE ReadFailureCloses \/ ReadOut
  <2>1. PICK r : IterationEnds(r)
    BY <1>13 DEF ReadFailureCloses, ReadOut
  <2>2. UNCHANGED <<c, arrays>> /\ pc \in InConfig \ {"mean"}
    BY <1>13 DEF ReadFailureCloses, ReadOut
  <2> QED
    BY <1>3, <1>4, <1>5, <2>1, <2>2, IterationFacts
<1>14. CASE UNCHANGED vars
  BY <1>0, <1>14, SameConfig DEF vars, chunkvars, arrays, IInv, ConfigInv
<1> QED
  BY <1>1, <1>2, <1>6, <1>7, <1>8, <1>9, <1>10, <1>11, <1>12, <1>13, <1>14 DEF Next

LEMMA LoopKept == ASSUME IInv, [Next]_vars PROVE LoopInv'
<1> USE DEF Goto
<1> SUFFICES ASSUME pc' \in {"write", "read"} PROVE \E k : ChunksDone(config, k)'
  BY DEF LoopInv
<1>1. CASE WriteOpen \/ ReadOpen
  <2>1. PICK cfg : cfg = config
    OBVIOUS
  <2>2. pc \in InConfig /\ BeginLoop /\ c' = c
    BY <1>1 DEF WriteOpen, ReadOpen, Returned, InConfig, mainvars
  <2>3. config' = cfg /\ ValidConfig(cfg)
    BY <2>1, <2>2, ConfigFacts DEF config
  <2>4. ChunksDone(cfg, 0)'
    BY <2>2, <2>3, LoopBegins DEF BeginLoop, ChunksDone
  <2> QED
    BY <2>3, <2>4 DEF ChunksDone
<1>2. CASE WriteStep \/ ReadStep
  BY <1>2, WriteStepEffect, ReadStepEffect
<1>3. CASE UNCHANGED vars
  <2>1. PICK k : ChunksDone(config, k)
    BY <1>3 DEF vars, IInv, LoopInv
  <2> QED
    BY <1>3, <2>1 DEF ChunksDone, vars, chunkvars, config
<1>4. CASE \/ Mount \/ CleanStart \/ SkipConfig \/ BeginConfig \/ ComputeMeans
           \/ FinishConfigs \/ Unmount
  BY <1>4 DEF Mount, CleanStart, SkipConfig, BeginConfig, ComputeMeans, FinishConfigs, Unmount
<1>5. CASE \/ WriteSeekFails \/ WriteStepFails \/ WriteFailureCloses \/ WriteLoopEnds
           \/ WriteSync \/ WriteOut
  BY <1>5 DEF WriteSeekFails, WriteStepFails, WriteFailureCloses, WriteLoopEnds, WriteSync,
              WriteOut, Returned
<1>6. CASE \/ ReadOpenFails \/ ReadSeekFails \/ ReadStepFails \/ ReadFailureCloses
           \/ ReadLoopEnds \/ ReadOut
  BY <1>6 DEF ReadOpenFails, ReadSeekFails, ReadStepFails, ReadFailureCloses, ReadLoopEnds,
              ReadOut, IterationEnds
<1> QED
  BY <1>1, <1>2, <1>3, <1>4, <1>5, <1>6 DEF Next

\* Which steps lead to a place in a pass.
LEMMA Predecessors ==
  ASSUME Next
  PROVE  /\ pc' = "wopen" => BeginConfig \/ ReadFailureCloses \/ ReadOut
         /\ pc' = "write" => WriteOpen \/ WriteStep
         /\ pc' = "wclose" => WriteStepFails
         /\ pc' = "sync" => WriteSeekFails \/ WriteLoopEnds
         /\ pc' = "wout" => WriteSync
         /\ pc' = "ropen" => WriteFailureCloses \/ WriteOut
         /\ pc' = "read" => ReadOpen \/ ReadStep
         /\ pc' = "rclose" => ReadStepFails
         /\ pc' = "rout" => ReadSeekFails \/ ReadLoopEnds
         /\ pc' = "mean" => ReadFailureCloses \/ ReadOut
<1> USE DEF Goto
<1>1. CASE \/ Mount \/ CleanStart \/ SkipConfig \/ BeginConfig \/ ComputeMeans
           \/ FinishConfigs \/ Unmount
  BY <1>1 DEF Mount, CleanStart, SkipConfig, BeginConfig, ComputeMeans, FinishConfigs, Unmount
<1>2. CASE WriteOpen \/ WriteStep \/ WriteSeekFails \/ WriteStepFails
  BY <1>2 DEF WriteOpen, WriteStep, WriteSeekFails, WriteStepFails, Returned
<1>3. CASE WriteFailureCloses \/ WriteLoopEnds \/ WriteSync \/ WriteOut
  BY <1>3 DEF WriteFailureCloses, WriteLoopEnds, WriteSync, WriteOut, Returned
<1>4. CASE ReadOpen \/ ReadOpenFails \/ ReadStep \/ ReadSeekFails
  BY <1>4 DEF ReadOpen, ReadOpenFails, ReadStep, ReadSeekFails, IterationEnds
<1>5. CASE ReadStepFails \/ ReadFailureCloses \/ ReadLoopEnds \/ ReadOut
  BY <1>5 DEF ReadStepFails, ReadFailureCloses, ReadLoopEnds, ReadOut, IterationEnds
<1> QED
  BY <1>1, <1>2, <1>3, <1>4, <1>5 DEF Next

LEMMA WrittenKept == ASSUME IInv, [Next]_vars PROVE WrittenInv'
<1> SUFFICES ASSUME pc' = "write" PROVE WrittenSoFar(config, Tag)'
  BY DEF WrittenInv
<1>1. CASE WriteOpen
  <2>1. /\ pc = "wopen" /\ at' = WalkStart /\ total' = 0 /\ handle'.cells = disk.cells
        /\ UNCHANGED <<c, iter>>
    BY <1>1 DEF WriteOpen, Returned, Goto, BeginLoop, OpenForWriting
  <2>2. config' = config /\ ValidConfig(config)
    BY <2>1, ConfigFacts DEF config, InConfig
  <2>3. disk.cells \in Seq(Nat)
    BY Numbers DEF Disks
  <2> QED
    BY <2>1, <2>2, <2>3, NothingWritten DEF WrittenSoFar
<1>2. CASE WriteStep
  BY <1>2, WriteStepEffect
<1>3. CASE UNCHANGED vars
  <2>1. WrittenSoFar(config, Tag)
    BY <1>3 DEF vars, IInv, WrittenInv
  <2> QED
    BY <1>3, <2>1 DEF vars, chunkvars, WrittenSoFar, config, Tag
<1> QED
  BY <1>1, <1>2, <1>3, Predecessors

LEMMA ChunkTypesKept == ASSUME IInv, [Next]_vars PROVE ChunkTypeOK'
<1>0. ChunkTypeOK
  BY DEF IInv, TypeOK
<1>1. ASSUME disk' \in Disks, handle' \in Handles, faults' \in 0 .. MAX_FAULTS,
             at' \in Places, total' \in Nat, UNCHANGED arrays
      PROVE  ChunkTypeOK'
  BY <1>0, <1>1 DEF ChunkTypeOK, Disks, Handles, Places, arrays
<1>2. /\ disk \in Disks /\ handle \in Handles /\ at \in Places /\ total \in Nat
      /\ UNCHANGED loopvars => at' \in Places /\ total' \in Nat
  BY Numbers DEF loopvars
<1>3. /\ Works \/ Fails => faults' \in 0 .. MAX_FAULTS
      /\ Unlink => disk' \in Disks /\ faults' \in 0 .. MAX_FAULTS
      /\ Commit \/ UNCHANGED disk => disk' \in Disks
      /\ OpenForWriting \/ OpenForReading => disk' \in Disks /\ handle' \in Handles
      /\ handle' = Closed => handle' \in Handles
  BY <1>0, CallTypes DEF Disks, Handles
<1>4. CASE BeginConfig
  <2>1. randrows' \in [RowIndex -> RowIndex] /\ randcols' \in [ColIndex -> ColIndex]
    BY <1>0, <1>4 DEF BeginConfig, RandomPermutationsInitialize, Shuffles, ChunkTypeOK
  <2> QED
    BY <1>0, <1>4, <2>1 DEF BeginConfig, ChunkTypeOK, loopvars
<1>5. CASE Mount \/ CleanStart \/ FinishConfigs \/ Unmount
  BY <1>1, <1>2, <1>3, <1>5 DEF Mount, CleanStart, FinishConfigs, Unmount
<1>6. CASE SkipConfig \/ ComputeMeans \/ WriteLoopEnds \/ ReadLoopEnds \/ UNCHANGED vars
  <2>1. UNCHANGED chunkvars
    BY <1>6 DEF SkipConfig, ComputeMeans, WriteLoopEnds, ReadLoopEnds, vars
  <2> QED
    BY <1>0, <2>1 DEF chunkvars, ChunkTypeOK
<1>7. CASE WriteOpen \/ ReadOpen
  <2>1. /\ Works \/ Fails
        /\ \/ OpenForWriting \/ OpenForReading
           \/ UNCHANGED <<disk, handle>>
        /\ BeginLoop \/ UNCHANGED loopvars
        /\ UNCHANGED arrays
    BY <1>7 DEF WriteOpen, ReadOpen
  <2> QED
    BY <1>1, <1>2, <1>3, <2>1, LoopTypes DEF Places
<1>8. CASE WriteStep
  BY <1>0, <1>1, <1>2, <1>8, WriteStepEffect DEF ChunkTypeOK
<1>9. CASE ReadStep
  BY <1>0, <1>1, <1>2, <1>9, ReadStepEffect DEF ChunkTypeOK
<1>10. CASE WriteStepFails
  BY <1>1, <1>2, <1>3, <1>10, WriteStepFailsEffect
<1>11. CASE ReadStepFails
  BY <1>1, <1>2, <1>3, <1>11, ReadStepFailsEffect
<1>12. CASE WriteSeekFails \/ ReadSeekFails
  <2>1. \/ Fails /\ UNCHANGED <<randrows, randcols, disk, handle, at, total>>
        \/ UNCHANGED chunkvars
    BY <1>12 DEF WriteSeekFails, ReadSeekFails, SeekFails
  <2> QED
    BY <1>0, <1>3, <2>1 DEF chunkvars, ChunkTypeOK
<1>13. CASE WriteSync
  BY <1>1, <1>2, <1>3, <1>13 DEF WriteSync, Sync
<1>14. CASE WriteFailureCloses \/ WriteOut
  BY <1>1, <1>2, <1>3, <1>14 DEF WriteFailureCloses, WriteOut, Close, CloseWorks, CloseFails
<1>15. CASE ReadFailureCloses \/ ReadOut
  BY <1>1, <1>2, <1>3, <1>15 DEF ReadFailureCloses, ReadOut, CloseReading
<1>16. CASE ReadOpenFails
  BY <1>1, <1>2, <1>3, <1>16 DEF ReadOpenFails
<1> QED
  BY <1>4, <1>5, <1>6, <1>7, <1>8, <1>9, <1>10, <1>11, <1>12, <1>13, <1>14, <1>15, <1>16
     DEF Next

LEMMA TypesKept == ASSUME IInv, [Next]_vars PROVE TypeOK'
<1> USE DEF Goto
<1>0. TypeOK
  BY DEF IInv
<1> DEFINE Labels ==
      {"mount", "clean", "config", "wopen", "write", "wclose", "sync", "wout",
       "ropen", "read", "rclose", "rout", "mean", "unmount", "done"}
<1> SUFFICES /\ c' \in 0 .. Len(CONFIGS)
             /\ iter' \in 0 .. TEST_ITERATIONS
             /\ mounted' \in BOOLEAN
             /\ rc' \in Int
             /\ stats' \in [Iterations -> Speeds]
             /\ DOMAIN reports' \subseteq 1 .. Len(CONFIGS)
             /\ pc' \in Labels
  BY ChunkTypesKept DEF TypeOK, Iterations, Speeds
<1>1. /\ c \in 0 .. Len(CONFIGS) /\ iter \in 0 .. TEST_ITERATIONS /\ mounted \in BOOLEAN
      /\ rc \in Int /\ stats \in [Iterations -> Speeds]
      /\ DOMAIN reports \subseteq 1 .. Len(CONFIGS) /\ pc \in Labels
  BY <1>0 DEF TypeOK, Speeds
<1>2. CASE Mount \/ CleanStart \/ FinishConfigs \/ Unmount
  BY <1>1, <1>2 DEF Mount, CleanStart, FinishConfigs, Unmount, mainvars
<1>3. CASE SkipConfig
  <2>1. c + 1 \in 0 .. Len(CONFIGS)
    BY <1>3, Numbers DEF SkipConfig
  <2> QED
    BY <1>1, <1>3, <2>1 DEF SkipConfig
<1>4. CASE BeginConfig
  <2>1. c + 1 \in 0 .. Len(CONFIGS)
    BY <1>4, Numbers DEF BeginConfig
  <2>2. 0 \in 0 .. TEST_ITERATIONS
    BY Numbers
  <2>3. stats' \in [Iterations -> Speeds]
    BY <1>4 DEF BeginConfig, NoStats, Speeds
  <2> QED
    BY <1>1, <1>4, <2>1, <2>2, <2>3 DEF BeginConfig
<1>5. CASE ComputeMeans
  <2>1. c \in 1 .. Len(CONFIGS)
    BY <1>5, ConfigFacts DEF ComputeMeans, InConfig
  <2>2. DOMAIN reports' = DOMAIN reports \union {c}
    BY <1>5 DEF ComputeMeans
  <2> QED
    BY <1>1, <1>5, <2>1, <2>2 DEF ComputeMeans
<1>6. CASE WriteOpen \/ WriteSeekFails \/ WriteFailureCloses \/ WriteLoopEnds \/ WriteSync
  BY <1>1, <1>6 DEF WriteOpen, WriteSeekFails, WriteFailureCloses, WriteLoopEnds, WriteSync,
                    Returned, mainvars
<1>7. CASE WriteStep \/ ReadStep
  BY <1>1, <1>7, WriteStepEffect, ReadStepEffect DEF mainvars
<1>8. CASE WriteStepFails
  <2>1. rc' \in Int
    BY <1>8, WriteStepFailsEffect, ConfigFacts DEF WriteStepFails, InConfig
  <2> QED
    BY <1>1, <1>8, <2>1, WriteStepFailsEffect
<1>9. CASE ReadStepFails
  <2>1. rc' \in Int
    BY <1>9, ReadStepFailsEffect, ConfigFacts DEF ReadStepFails, InConfig
  <2> QED
    BY <1>1, <1>9, <2>1, ReadStepFailsEffect
<1>10. pc \in InConfig \ {"mean"} => iter \in Iterations
  BY DEF IInv, ConfigInv
<1>11. CASE WriteOut
  <2>1. config.file \in Nat
    BY <1>11, ConfigFacts DEF WriteOut, InConfig
  <2>2. stats' = [stats EXCEPT ![iter].write_speed = config.file]
    BY <1>11 DEF WriteOut
  <2>3. stats' \in [Iterations -> Speeds]
    BY <1>1, <2>1, <2>2 DEF Speeds
  <2> QED
    BY <1>1, <1>11, <2>3 DEF WriteOut, Returned
<1>12. CASE ReadOpen \/ ReadSeekFails \/ ReadLoopEnds
  BY <1>1, <1>12 DEF ReadOpen, ReadSeekFails, ReadLoopEnds, mainvars
<1>13. CASE ReadOpenFails
  <2>1. IterationEnds(-1) /\ iter \in Iterations /\ UNCHANGED <<c, mounted, stats, reports>>
    BY <1>10, <1>13 DEF ReadOpenFails, InConfig
  <2> QED
    BY <1>1, <2>1, IterationFacts
<1>14. CASE ReadFailureCloses
  <2>1. IterationEnds(rc) /\ iter \in Iterations /\ UNCHANGED <<c, mounted, stats, reports>>
    BY <1>10, <1>14 DEF ReadFailureCloses, InConfig
  <2> QED
    BY <1>1, <2>1, IterationFacts
<1>15. CASE ReadOut
  <2>1. config.file \in Nat
    BY <1>15, ConfigFacts DEF ReadOut, InConfig
  <2>2. /\ IterationEnds(0) /\ iter \in Iterations /\ UNCHANGED <<c, mounted, reports>>
        /\ stats' = [stats EXCEPT ![iter].read_speed = config.file]
    BY <1>10, <1>15 DEF ReadOut, InConfig
  <2>3. stats' \in [Iterations -> Speeds]
    BY <1>1, <2>1, <2>2 DEF Speeds
  <2> QED
    BY <1>1, <2>2, <2>3, IterationFacts
<1>16. CASE UNCHANGED vars
  BY <1>1, <1>16 DEF vars
<1> QED
  BY <1>2, <1>3, <1>4, <1>5, <1>6, <1>7, <1>8, <1>9, <1>11, <1>12, <1>13, <1>14, <1>15, <1>16
     DEF Next

\* A step of test_write or test_read stays in its configuration, and only the
\* end of an iteration changes its number.
LEMMA PassSteps ==
  ASSUME IInv, Next, pc \in InConfig, pc # "mean"
  PROVE  /\ UNCHANGED <<c, arrays, mounted, reports, config>>
         /\ pc' \in InConfig \union {"done"}
         /\ \/ UNCHANGED <<iter, Tag>>
            \/ ReadOpenFails \/ ReadFailureCloses \/ ReadOut
<1> USE DEF Goto, InConfig
<1> SUFFICES /\ UNCHANGED <<c, arrays, mounted, reports>>
             /\ pc' \in InConfig \union {"done"}
             /\ UNCHANGED iter \/ ReadOpenFails \/ ReadFailureCloses \/ ReadOut
  BY DEF config, Tag
<1>1. CASE \/ Mount \/ CleanStart \/ SkipConfig \/ BeginConfig \/ ComputeMeans
           \/ FinishConfigs \/ Unmount
  BY <1>1 DEF Mount, CleanStart, SkipConfig, BeginConfig, ComputeMeans, FinishConfigs, Unmount
<1>2. CASE WriteOpen \/ WriteFailureCloses \/ WriteSync \/ WriteOut
  BY <1>2 DEF WriteOpen, WriteFailureCloses, WriteSync, WriteOut, Returned, mainvars
<1>3. CASE WriteStep \/ ReadStep
  BY <1>3, WriteStepEffect, ReadStepEffect DEF mainvars
<1>4. CASE WriteStepFails \/ ReadStepFails
  BY <1>4, WriteStepFailsEffect, ReadStepFailsEffect
<1>5. CASE WriteSeekFails \/ ReadSeekFails
  BY <1>5 DEF WriteSeekFails, ReadSeekFails, SeekFails, mainvars, chunkvars, arrays
<1>6. CASE WriteLoopEnds \/ ReadLoopEnds \/ ReadOpen
  BY <1>6 DEF WriteLoopEnds, ReadLoopEnds, ReadOpen, mainvars, chunkvars, arrays
<1>7. CASE ReadOpenFails \/ ReadFailureCloses \/ ReadOut
  BY <1>7 DEF ReadOpenFails, ReadFailureCloses, ReadOut, IterationEnds
<1> QED
  BY <1>1, <1>2, <1>3, <1>4, <1>5, <1>6, <1>7 DEF Next

LEMMA FileKept == ASSUME IInv, [Next]_vars PROVE FileInv'
<1> USE DEF Goto, InConfig
<1>0. /\ pc \in InConfig \ {"wopen", "mean"} => disk.exists
      /\ pc \in {"write", "wclose", "sync", "wout", "read"} =>
           Len(handle.cells) >= Len(disk.cells)
  BY DEF IInv, FileInv
<1> SUFFICES /\ pc' \in InConfig \ {"wopen", "mean"} => disk'.exists
             /\ pc' \in {"write", "wclose", "sync", "wout", "read"} =>
                  Len(handle'.cells) >= Len(disk'.cells)
  BY DEF FileInv
<1>1. disk \in Disks /\ Len(disk.cells) \in Nat /\ Len(handle.cells) \in Nat
  BY Numbers
<1>2. CASE WriteOpen
  <2>1. OpenForWriting => disk'.exists /\ disk'.cells = disk.cells /\ handle'.cells = disk.cells
    BY <1>1 DEF OpenForWriting, Disks
  <2> QED
    BY <1>1, <1>2, <2>1 DEF WriteOpen, Returned
<1>3. CASE WriteStep
  <2>1. Len(handle'.cells) \in Nat /\ Len(handle'.cells) >= Len(handle.cells)
    BY <1>3, WriteStepEffect DEF Handles
  <2> QED
    BY <1>0, <1>1, <1>3, <2>1, WriteStepEffect
<1>4. CASE WriteStepFails
  <2>1. Len(handle'.cells) \in Nat /\ Len(handle'.cells) >= Len(handle.cells)
    BY <1>4, WriteStepFailsEffect DEF Handles
  <2> QED
    BY <1>0, <1>1, <1>4, <2>1, WriteStepFailsEffect
<1>5. CASE WriteSeekFails \/ ReadSeekFails \/ WriteLoopEnds \/ ReadLoopEnds
  <2>1. UNCHANGED <<disk, handle>> /\ pc \in {"write", "read"}
        /\ ((pc' = "sync" /\ pc = "write") \/ pc' = "rout")
    BY <1>5 DEF WriteSeekFails, ReadSeekFails, WriteLoopEnds, ReadLoopEnds, SeekFails, chunkvars
  <2> QED
    BY <1>0, <2>1
<1>6. CASE WriteSync
  <2>1. Sync => disk' = [exists |-> TRUE, cells |-> handle.cells] \/ UNCHANGED disk
    BY DEF Sync, Commit
  <2> QED
    BY <1>0, <1>1, <1>6, <2>1 DEF WriteSync
<1>7. CASE WriteFailureCloses \/ WriteOut
  <2>1. Close => disk' = [exists |-> TRUE, cells |-> handle.cells] \/ UNCHANGED disk
    BY DEF Close, CloseWorks, CloseFails, Commit
  <2> QED
    BY <1>0, <1>7, <2>1 DEF WriteFailureCloses, WriteOut, Returned
<1>8. CASE ReadOpen
  <2>1. disk' = disk /\ handle'.cells = disk.cells /\ pc = "ropen" /\ pc' = "read"
    BY <1>8 DEF ReadOpen, OpenForReading
  <2> QED
    BY <1>0, <1>1, <2>1
<1>9. CASE ReadStep
  BY <1>0, <1>9, ReadStepEffect
<1>10. CASE ReadStepFails
  BY <1>0, <1>10, ReadStepFailsEffect
<1>11. CASE ReadOpenFails \/ ReadFailureCloses \/ ReadOut
  BY <1>11 DEF ReadOpenFails, ReadFailureCloses, ReadOut, IterationEnds
<1>12. CASE \/ Mount \/ CleanStart \/ SkipConfig \/ BeginConfig \/ ComputeMeans
            \/ FinishConfigs \/ Unmount
  BY <1>12 DEF Mount, CleanStart, SkipConfig, BeginConfig, ComputeMeans, FinishConfigs, Unmount
<1>13. CASE UNCHANGED vars
  BY <1>0, <1>13 DEF vars, chunkvars
<1> QED
  BY <1>2, <1>3, <1>4, <1>5, <1>6, <1>7, <1>8, <1>9, <1>10, <1>11, <1>12, <1>13 DEF Next

\* From the first configuration to the last the file never shrinks.
LEMMA DiskGrows ==
  ASSUME IInv, Next, pc \in InConfig \union {"config"}, pc' \in InConfig \union {"config"}
  PROVE  /\ Len(disk'.cells) \in Nat /\ Len(disk'.cells) >= Len(disk.cells)
         /\ faults' \in Nat /\ faults' >= faults
<1> USE DEF Goto, InConfig
<1>1. disk \in Disks /\ Len(disk.cells) \in Nat /\ Len(handle.cells) \in Nat /\ faults \in Nat
  BY Numbers
<1>2. /\ Works => faults' \in Nat /\ faults' >= faults
      /\ Fails => faults' \in Nat /\ faults' >= faults
  BY <1>1 DEF Works, Fails
<1>3. CASE Mount \/ CleanStart \/ FinishConfigs \/ Unmount
  BY <1>3 DEF Mount, CleanStart, FinishConfigs, Unmount
<1>4. ASSUME Works \/ Fails, disk'.cells = disk.cells
      PROVE  /\ Len(disk'.cells) \in Nat /\ Len(disk'.cells) >= Len(disk.cells)
             /\ faults' \in Nat /\ faults' >= faults
  BY <1>1, <1>2, <1>4
<1>5. CASE SkipConfig \/ BeginConfig \/ ComputeMeans \/ WriteLoopEnds \/ ReadLoopEnds
  BY <1>4, <1>5 DEF SkipConfig, BeginConfig, ComputeMeans, WriteLoopEnds, ReadLoopEnds,
                    chunkvars, Works
<1>6. CASE WriteOpen \/ ReadOpen
  <2>1. OpenForWriting => disk'.cells = disk.cells
    BY <1>1 DEF OpenForWriting, Disks
  <2> QED
    BY <1>4, <1>6, <2>1 DEF WriteOpen, ReadOpen, OpenForReading
<1>7. CASE WriteStep \/ ReadStep
  BY <1>4, <1>7, WriteStepEffect, ReadStepEffect DEF Works
<1>8. CASE WriteStepFails \/ ReadStepFails
  BY <1>4, <1>8, WriteStepFailsEffect, ReadStepFailsEffect
<1>9. CASE WriteSeekFails \/ ReadSeekFails
  BY <1>4, <1>9 DEF WriteSeekFails, ReadSeekFails, SeekFails, chunkvars, Works
<1>10. ASSUME Works \/ Fails, Commit \/ UNCHANGED disk, pc \in {"wclose", "sync", "wout"}
       PROVE  /\ Len(disk'.cells) \in Nat /\ Len(disk'.cells) >= Len(disk.cells)
              /\ faults' \in Nat /\ faults' >= faults
  <2>1. Len(handle.cells) >= Len(disk.cells)
    BY <1>10 DEF IInv, FileInv
  <2>2. disk'.cells = handle.cells \/ disk'.cells = disk.cells
    BY <1>10 DEF Commit
  <2> QED
    BY <1>1, <1>2, <1>10, <2>1, <2>2
<1>11. CASE WriteSync
  BY <1>10, <1>11 DEF WriteSync, Sync
<1>12. CASE WriteFailureCloses \/ WriteOut
  BY <1>10, <1>12 DEF WriteFailureCloses, WriteOut, Close, CloseWorks, CloseFails
<1>13. CASE ReadOpenFails \/ ReadFailureCloses \/ ReadOut
  BY <1>4, <1>13 DEF ReadOpenFails, ReadFailureCloses, ReadOut, CloseReading
<1> QED
  BY <1>3, <1>5, <1>6, <1>7, <1>8, <1>9, <1>11, <1>12, <1>13 DEF Next

LEMMA KeptStays ==
  ASSUME IInv, Next, pc \in InConfig \union {"config"}, pc' \in InConfig \union {"config"},
         NEW u \in Nat, NEW k \in Nat, KeptOr(u, k)
  PROVE  KeptOr(u, k)'
<1>1. PICK long \in Nat, longer \in Nat, few \in Nat, more \in Nat :
        /\ long = Len(disk.cells) /\ longer = Len(disk'.cells) /\ longer >= long
        /\ few = faults /\ more = faults' /\ more >= few
  BY DiskGrows, Numbers
<1>2. long >= u \/ few >= k
  BY <1>1 DEF KeptOr
<1>3. longer >= u \/ more >= k
  BY <1>1, <1>2
<1> QED
  BY <1>1, <1>3 DEF KeptOr

\* The loop of test_write ends with the whole file in the handle.
LEMMA LoopEndsWhole ==
  ASSUME IInv, WriteLoopEnds
  PROVE  /\ WrittenBy(handle.cells, config, Tag)
         /\ UNCHANGED <<chunkvars, mainvars, config, Tag>>
<1>1. PICK cfg, tag : cfg = config /\ tag = Tag
  OBVIOUS
<1>2. pc = "write" /\ ~(total < cfg.file) /\ UNCHANGED <<chunkvars, mainvars>>
  BY <1>1 DEF WriteLoopEnds, More
<1>3. ValidConfig(cfg) /\ Shuffled(cfg) /\ handle.cells \in Seq(Nat)
  BY <1>1, <1>2, ConfigFacts, Numbers DEF InConfig, Handles
<1>4. PICK k : ChunksDone(cfg, k)
  BY <1>1, <1>2 DEF IInv, LoopInv
<1>5. WrittenSoFar(cfg, tag)
  BY <1>1, <1>2 DEF IInv, WrittenInv
<1>6. WrittenBy(handle.cells, cfg, tag)
  BY <1>2, <1>3, <1>4, <1>5, LoopWritesFile DEF Shuffled, ChunksDone, WrittenSoFar
<1> QED
  BY <1>1, <1>2, <1>6 DEF config, Tag, mainvars

LEMMA SequentialKept == ASSUME IInv, [Next]_vars PROVE SequentialInv'
<1> USE DEF InConfig
<1>1. CASE UNCHANGED vars
  BY <1>1 DEF vars, chunkvars, IInv, SequentialInv, config, KeptOr
<1>2. CASE Next /\ pc \notin InConfig
  <2>1. pc' \in InConfig => BeginConfig
    BY <1>2, Predecessors DEF ReadFailureCloses, ReadOut, WriteOpen, WriteStep, WriteStepFails,
       WriteSeekFails, WriteLoopEnds, WriteSync, WriteFailureCloses, WriteOut, ReadOpen,
       ReadStep, ReadStepFails, ReadSeekFails, ReadLoopEnds
  <2>2. CASE BeginConfig
    <3>1. pc' = "wopen" /\ iter' = 0 /\ faults' = faults
      BY <2>2 DEF BeginConfig, Goto
    <3>2. faults' >= 2 * iter'
      BY <3>1, Numbers
    <3> QED
      BY <3>1, <3>2 DEF SequentialInv, KeptOr
  <2> QED
    BY <2>1, <2>2 DEF SequentialInv
<1>3. CASE Next /\ pc = "mean"
  <2>1. pc' \notin InConfig
    BY <1>3, Predecessors DEF ReadFailureCloses, ReadOut, WriteOpen, WriteStep, WriteStepFails,
       WriteSeekFails, WriteLoopEnds, WriteSync, WriteFailureCloses, WriteOut, ReadOpen,
       ReadStep, ReadStepFails, ReadSeekFails, ReadLoopEnds, BeginConfig
  <2> QED
    BY <2>1 DEF SequentialInv
<1>4. CASE Next /\ pc \in InConfig /\ pc # "mean"
  <2> SUFFICES ASSUME pc' \in InConfig, ~config'.random, config'.file <= CAPACITY
               PROVE  /\ pc' \in {"wopen", "write", "wclose", "sync"} =>
                           KeptOr(config.file, 2 * iter)'
                      /\ pc' = "wout" => KeptOr(config.file, 2 * iter + 1)'
                      /\ pc' \in {"ropen", "read", "rclose", "rout"} =>
                           KeptOr(config.file, 2 * iter + 2)'
                      /\ pc' = "mean" => KeptOr(config.file, 2 * TEST_ITERATIONS)'
                      /\ pc' \in {"sync", "wout"} => Len(handle'.cells) >= config'.file
    BY DEF SequentialInv
  <2>1. UNCHANGED <<c, config>>
    BY <1>4, PassSteps
  <2>2. PICK file \in Nat : file = config.file /\ file <= CAPACITY
    BY <1>4, <2>1, ConfigFacts
  <2>3. PICK i \in Nat : i = iter
    BY Numbers
  <2>4. ASSUME NEW k \in Nat, KeptOr(file, k)
        PROVE  Len(disk'.cells) >= file \/ faults' >= k
    <3>1. KeptOr(file, k)'
      BY <1>4, <2>2, <2>4, KeptStays
    <3> QED
      BY <3>1 DEF KeptOr
  <2>5. /\ pc \in {"wopen", "write", "wclose", "sync"} => KeptOr(file, 2 * i)
        /\ pc = "wout" => KeptOr(file, 2 * i + 1)
        /\ pc \in {"ropen", "read", "rclose", "rout"} => KeptOr(file, 2 * i + 2)
        /\ pc \in {"sync", "wout"} => Len(handle.cells) >= file
    BY <1>4, <2>1, <2>2, <2>3 DEF IInv, SequentialInv
  <2>6. iter' = i \/ ReadOpenFails \/ ReadFailureCloses \/ ReadOut
    BY <1>4, <2>3, PassSteps
  <2>7. CASE ReadOpenFails \/ ReadFailureCloses \/ ReadOut
    <3>1. PICK r : IterationEnds(r)
      BY <2>7 DEF ReadOpenFails, ReadFailureCloses, ReadOut
    <3>2. iter \in Iterations /\ pc \in {"ropen", "rclose", "rout"}
      BY <2>7 DEF IInv, ConfigInv, ReadOpenFails, ReadFailureCloses, ReadOut
    <3>3. /\ pc' \in {"wopen", "mean"} /\ iter' = i + 1
          /\ pc' = "mean" => iter' = TEST_ITERATIONS
      BY <2>3, <3>1, <3>2, IterationFacts
    <3>4. 2 * i + 2 \in Nat /\ 2 * i + 2 = 2 * (i + 1)
      OBVIOUS
    <3>5. Len(disk'.cells) >= file \/ faults' >= 2 * i + 2
      BY <2>4, <2>5, <3>2, <3>4
    <3>6. Len(disk'.cells) >= config'.file \/ faults' >= 2 * iter'
      BY <2>1, <2>2, <3>3, <3>4, <3>5
    <3>7. pc' = "mean" => 2 * iter' = 2 * TEST_ITERATIONS
      BY <3>3
    <3> QED
      BY <3>3, <3>6, <3>7 DEF KeptOr
  <2>8. CASE iter' = i /\ pc' \in {"wopen", "mean"}
    BY <1>4, <2>7, <2>8, Predecessors DEF BeginConfig
  <2>9. ASSUME iter' = i, NEW k \in Nat, KeptOr(file, k)
        PROVE  Len(disk'.cells) >= config'.file \/ faults' >= k
    BY <2>1, <2>2, <2>4, <2>9
  <2>10. 2 * i \in Nat /\ 2 * i + 1 \in Nat /\ 2 * i + 2 \in Nat
    OBVIOUS
  <2>11. CASE iter' = i /\ pc' \in {"write", "wclose"}
    <3>1. pc \in {"wopen", "write"}
      BY <1>4, <2>11, Predecessors DEF WriteOpen, WriteStep, WriteStepFails
    <3>2. Len(disk'.cells) >= config'.file \/ faults' >= 2 * i
      BY <2>5, <2>9, <2>10, <2>11, <3>1
    <3> QED
      BY <2>11, <3>2 DEF KeptOr
  <2>12. CASE iter' = i /\ pc' = "sync"
    <3>1. WriteLoopEnds
      BY <1>4, <2>1, <2>12, Predecessors DEF WriteSeekFails, SeekFails, SeekRefused
    <3>2. pc = "write"
      BY <3>1 DEF WriteLoopEnds
    <3>3. Len(disk'.cells) >= config'.file \/ faults' >= 2 * i
      BY <2>5, <2>9, <2>10, <2>12, <3>2
    <3>4. Len(handle'.cells) >= config'.file
      BY <2>1, <3>1, LoopEndsWhole DEF WrittenBy, chunkvars
    <3> QED
      BY <2>12, <3>3, <3>4 DEF KeptOr
  <2>13. CASE iter' = i /\ pc' = "wout"
    <3>1. WriteSync /\ pc = "sync" /\ handle' = handle /\ Sync
      BY <1>4, <2>13, Predecessors DEF WriteSync
    <3>2. Len(handle'.cells) >= config'.file
      BY <2>1, <2>2, <2>5, <3>1
    <3>3. Len(disk'.cells) >= config'.file \/ faults' >= 2 * i + 1
      <4>1. CASE Commit
        BY <2>1, <2>2, <2>5, <3>1, <4>1 DEF Commit
      <4>2. CASE Fails /\ UNCHANGED disk
        <5>1. KeptOr(file, 2 * i) /\ faults' = faults + 1
          BY <2>5, <3>1, <4>2 DEF Fails
        <5> QED
          BY <2>1, <2>2, <4>2, <5>1, Numbers DEF KeptOr
      <4> QED
        BY <3>1, <4>1, <4>2 DEF Sync
    <3> QED
      BY <2>3, <2>13, <3>2, <3>3 DEF KeptOr
  <2>14. CASE iter' = i /\ pc' = "ropen"
    <3>1. CASE WriteOut
      <4>1. pc = "wout" /\ Close
        BY <3>1 DEF WriteOut
      <4>2. CASE Commit
        BY <2>1, <2>2, <2>5, <2>14, <4>1, <4>2 DEF Commit, KeptOr
      <4>3. CASE Fails /\ UNCHANGED disk
        <5>1. KeptOr(file, 2 * i + 1) /\ faults' = faults + 1
          BY <2>5, <4>1, <4>3 DEF Fails
        <5>2. Len(disk'.cells) >= config'.file \/ faults' >= 2 * i + 2
          BY <2>1, <2>2, <4>3, <5>1, Numbers DEF KeptOr
        <5> QED
          BY <2>14, <5>2 DEF KeptOr
      <4> QED
        BY <4>1, <4>2, <4>3 DEF Close, CloseWorks, CloseFails
    <3>2. CASE WriteFailureCloses
      <4>1. pc = "wclose" /\ rc = 0
        BY <2>14, <3>2 DEF WriteFailureCloses, Returned, Goto
      <4>2. CAPACITY < config.file
        BY <4>1 DEF IInv, ResultInv
      <4> QED
        BY <2>2, <4>2, Numbers
    <3> QED
      BY <1>4, <2>14, <3>1, <3>2, Predecessors
  <2>15. CASE iter' = i /\ pc' \in {"read", "rclose", "rout"}
    <3>1. pc \in {"ropen", "read"}
      BY <1>4, <2>15, Predecessors DEF ReadOpen, ReadStep, ReadStepFails, ReadSeekFails, ReadLoopEnds
    <3>2. Len(disk'.cells) >= config'.file \/ faults' >= 2 * i + 2
      BY <2>5, <2>9, <2>10, <2>15, <3>1
    <3> QED
      BY <2>15, <3>2 DEF KeptOr
  <2> QED
    BY <2>6, <2>7, <2>8, <2>11, <2>12, <2>13, <2>14, <2>15
<1> QED
  BY <1>1, <1>2, <1>3, <1>4

\* No step takes the file of a finished sequential configuration away.
LEMMA FinishedKept == ASSUME IInv, [Next]_vars PROVE FinishedInv'
<1> USE DEF InConfig
<1>1. CASE UNCHANGED vars
  BY <1>1 DEF vars, chunkvars, IInv, FinishedInv, KeptOr
<1>2. CASE Next
  <2> SUFFICES ASSUME pc' \in InConfig \union {"config"}, NEW m \in DOMAIN CONFIGS,
                      Sequential(m), m < c' \/ (m = c' /\ pc' = "config")
               PROVE  KeptOr(CONFIGS[m].file, 2 * TEST_ITERATIONS)'
    BY DEF FinishedInv, Sequential
  <2>1. m \in Nat /\ m > 0 /\ c \in Nat
    BY Numbers, FatPerfAssumption
  <2>2. 2 * TEST_ITERATIONS \in Nat
    BY Numbers
  <2>3. CONFIGS[m].file \in Nat
    <3>1. ValidConfig(Case(m)) /\ Case(m).file = CONFIGS[m].file
      BY ConfigIsValid DEF Sequential
    <3> QED
      BY <3>1 DEF ValidConfig
  <2>4. ASSUME pc \in InConfig \union {"config"}, KeptOr(CONFIGS[m].file, 2 * TEST_ITERATIONS)
        PROVE  KeptOr(CONFIGS[m].file, 2 * TEST_ITERATIONS)'
    BY <1>2, <2>2, <2>3, <2>4, KeptStays
  <2>5. ASSUME pc \in InConfig \union {"config"}, m < c \/ (m = c /\ pc = "config")
        PROVE  KeptOr(CONFIGS[m].file, 2 * TEST_ITERATIONS)'
    BY <2>4, <2>5 DEF IInv, FinishedInv
  <2>6. CASE CleanStart
    <3>1. c' = c /\ c = 0
      BY <2>6 DEF CleanStart, mainvars, IInv, ConfigInv
    <3> QED
      BY <2>1, <3>1
  <2>7. CASE SkipConfig
    <3>1. pc = "config" /\ c' = c + 1 /\ Skipped(Case(c + 1))
      BY <2>7 DEF SkipConfig
    <3>2. m # c + 1
      BY <3>1 DEF Sequential
    <3>3. m < c \/ m = c
      BY <2>1, <3>1, <3>2
    <3> QED
      BY <2>5, <3>1, <3>3
  <2>8. CASE BeginConfig
    <3>1. pc = "config" /\ c' = c + 1 /\ pc' = "wopen"
      BY <2>8 DEF BeginConfig, Goto
    <3>2. m < c \/ m = c
      BY <2>1, <3>1
    <3> QED
      BY <2>5, <3>1, <3>2
  <2>9. CASE ComputeMeans
    <3>1. pc = "mean" /\ c' = c
      BY <2>9 DEF ComputeMeans
    <3>2. CASE m = c
      <4>1. /\ config.random = CONFIGS[m].random /\ config.file = CONFIGS[m].file
        BY <3>1, <3>2, ConfigFacts
      <4>2. KeptOr(CONFIGS[m].file, 2 * TEST_ITERATIONS)
        BY <3>1, <4>1 DEF IInv, SequentialInv, Sequential
      <4> QED
        BY <2>4, <3>1, <4>2
    <3> QED
      BY <2>5, <3>1, <3>2
  <2>10. CASE Mount \/ FinishConfigs \/ Unmount
    BY <2>10 DEF Mount, FinishConfigs, Unmount, Goto
  <2>11. CASE pc \in InConfig /\ pc # "mean"
    <3>1. c' = c /\ pc' # "config"
      BY <1>2, <2>11, PassSteps
    <3> QED
      BY <2>5, <2>11, <3>1
  <2>12. \/ pc \in InConfig /\ pc # "mean"
         \/ Mount \/ FinishConfigs \/ Unmount \/ ComputeMeans \/ BeginConfig \/ SkipConfig
         \/ CleanStart
    BY <1>2 DEF Next, WriteOpen, WriteStep, WriteSeekFails, WriteStepFails,
                WriteFailureCloses, WriteLoopEnds, WriteSync, WriteOut, ReadOpen,
                ReadOpenFails, ReadStep, ReadSeekFails, ReadStepFails, ReadFailureCloses,
                ReadLoopEnds, ReadOut
  <2> QED
    BY <2>6, <2>7, <2>8, <2>9, <2>10, <2>11, <2>12
<1> QED
  BY <1>1, <1>2

LEMMA ResultKept == ASSUME IInv, [Next]_vars PROVE ResultInv'
<1> USE DEF InConfig
<1>1. CASE UNCHANGED vars
  BY <1>1 DEF vars, chunkvars, IInv, ResultInv, config
<1>2. CASE WriteStepFails
  <2>1. Fails => faults' > 0
    BY Numbers DEF Fails
  <2> QED
    BY <1>2, <2>1, WriteStepFailsEffect DEF ResultInv
<1>3. CASE ReadStepFails
  <2>1. pc = "read"
    BY <1>3 DEF ReadStepFails
  <2>2. PICK file \in Nat, block \in Nat, len \in Nat :
          /\ file = config.file /\ block = config.block /\ block > 0
          /\ len = Len(handle.cells)
    BY <2>1, ConfigFacts, Numbers
  <2>3. CASE rc' = -1 /\ Fails
    <3>1. faults' > 0 /\ rc' \in -1 .. block - 1
      BY <2>2, <2>3, Numbers DEF Fails
    <3> QED
      BY <1>3, <2>2, <3>1, ReadStepFailsEffect DEF ResultInv
  <2>4. CASE rc' \in 0 .. block - 1 /\ len < file /\ faults' = faults
    <3>1. CASE CAPACITY < file
      BY <1>3, <2>2, <2>4, <3>1, ReadStepFailsEffect DEF ResultInv
    <3>2. CASE file <= CAPACITY
      <4>1. faults = 0 => len >= file
        BY <2>1, <2>2, <3>2 DEF IInv, CleanInv
      <4>2. faults' > 0 /\ rc' \in -1 .. block - 1
        BY <2>2, <2>4, <4>1, Numbers
      <4> QED
        BY <1>3, <2>2, <4>2, ReadStepFailsEffect DEF ResultInv
    <3> QED
      BY <2>2, <3>1, <3>2, Numbers
  <2> QED
    BY <1>3, <2>2, <2>3, <2>4, ReadStepFailsEffect DEF Works
<1> QED
  BY <1>1, <1>2, <1>3, Predecessors DEF ResultInv

\* Without a failing call each pass ends with the whole file in its place.
LEMMA CleanKept == ASSUME IInv, [Next]_vars PROVE CleanInv'
<1> USE DEF InConfig
<1>1. CASE UNCHANGED vars
  BY <1>1 DEF vars, chunkvars, IInv, CleanInv, config, Tag
<1>2. CASE Next
  <2> SUFFICES ASSUME pc' \in InConfig, faults' = 0, config'.file <= CAPACITY
               PROVE  /\ pc' \in {"sync", "wout"} => WrittenBy(handle.cells, config, Tag)'
                      /\ pc' = "ropen" => WrittenBy(disk.cells, config, Tag)'
                      /\ pc' = "read" => Len(handle'.cells) >= config'.file
    BY DEF CleanInv
  <2>1. faults \in Nat /\ faults + 1 # 0 /\ 0 < 2 * TEST_ITERATIONS
    BY Numbers
  <2>2. ~Fails /\ (Works => faults = 0)
    BY <2>1 DEF Fails, Works
  <2>3. CASE pc' = "sync"
    <3>1. CASE WriteLoopEnds
      BY <2>3, <3>1, LoopEndsWhole DEF chunkvars
    <3>2. CASE WriteSeekFails
      <4>1. pc = "write" /\ SeekRefused(config) /\ faults' = faults /\ c' = c
        BY <2>2, <3>2 DEF WriteSeekFails, SeekFails, chunkvars, mainvars
      <4>2. config' = config
        BY <4>1 DEF config
      <4>3. Offset(config) <= Len(handle.cells)
        BY <2>1, <4>1, <4>2, SeeksInside DEF SeekRefused
      <4>4. Offset(config) > Len(handle.cells)
        BY <4>1 DEF SeekRefused
      <4>5. PICK k : ChunksDone(config, k)
        BY <4>1 DEF IInv, LoopInv
      <4>6. Offset(config) \in Nat
        BY <4>1, <4>5, ConfigFacts, LoopStep DEF SeekRefused
      <4> QED
        BY <4>3, <4>4, <4>6, Numbers
    <3> QED
      BY <1>2, <2>3, <3>1, <3>2, Predecessors
  <2>4. CASE pc' = "wout"
    <3>1. pc = "sync" /\ handle' = handle /\ UNCHANGED <<c, iter>> /\ Works
      BY <1>2, <2>2, <2>4, Predecessors DEF WriteSync, Sync, mainvars
    <3>2. config' = config /\ Tag' = Tag
      BY <3>1 DEF config, Tag
    <3>3. WrittenBy(handle.cells, config, Tag)
      BY <2>2, <3>1, <3>2 DEF IInv, CleanInv
    <3> QED
      BY <2>4, <3>1, <3>2, <3>3
  <2>5. CASE pc' = "ropen"
    <3>1. CASE WriteOut
      <4>1. pc = "wout" /\ UNCHANGED <<c, iter>> /\ Works /\ disk'.cells = handle.cells
        BY <2>2, <3>1 DEF WriteOut, Close, CloseWorks, CloseFails, Commit
      <4>2. config' = config /\ Tag' = Tag
        BY <4>1 DEF config, Tag
      <4>3. WrittenBy(handle.cells, config, Tag)
        BY <2>2, <4>1, <4>2 DEF IInv, CleanInv
      <4> QED
        BY <2>5, <4>1, <4>2, <4>3
    <3>2. CASE WriteFailureCloses
      <4>1. pc = "wclose" /\ rc = 0 /\ c' = c
        BY <2>5, <3>2 DEF WriteFailureCloses, Returned, Goto
      <4>2. config' = config /\ CAPACITY < config.file
        BY <4>1 DEF IInv, ResultInv, config
      <4>3. config.file \in Nat
        BY <4>1, ConfigFacts
      <4> QED
        BY <4>2, <4>3, Numbers
    <3> QED
      BY <1>2, <2>5, <3>1, <3>2, Predecessors
  <2>6. CASE pc' = "read"
    <3>1. CASE ReadOpen
      <4>1. pc = "ropen" /\ c' = c /\ Works /\ handle'.cells = disk.cells
        BY <3>1 DEF ReadOpen, OpenForReading, mainvars
      <4>2. config' = config
        BY <4>1 DEF config
      <4>3. WrittenBy(disk.cells, config, Tag)
        BY <2>2, <4>1, <4>2 DEF IInv, CleanInv
      <4> QED
        BY <2>6, <4>1, <4>2, <4>3 DEF WrittenBy
    <3>2. CASE ReadStep
      <4>1. pc = "read" /\ UNCHANGED <<config, faults, handle>>
        BY <3>2, ReadStepEffect
      <4> QED
        BY <2>6, <4>1 DEF IInv, CleanInv
    <3> QED
      BY <1>2, <2>6, <3>1, <3>2, Predecessors
  <2> QED
    BY <2>3, <2>4, <2>5, <2>6
<1> QED
  BY <1>1, <1>2

LEMMA FaultsGrow ==
  ASSUME IInv, [Next]_vars
  PROVE  faults' = faults \/ Fails
<1>1. CASE \/ Mount \/ CleanStart \/ SkipConfig \/ BeginConfig \/ ComputeMeans
           \/ FinishConfigs \/ Unmount \/ UNCHANGED vars
  BY <1>1 DEF Mount, CleanStart, SkipConfig, BeginConfig, ComputeMeans, FinishConfigs, Unmount,
              Unlink, Works, chunkvars, vars
<1>2. CASE WriteOpen \/ WriteSync \/ WriteFailureCloses \/ WriteOut
  BY <1>2 DEF WriteOpen, WriteSync, Sync, WriteFailureCloses, WriteOut, Close, CloseWorks,
              CloseFails, Works
<1>3. CASE WriteStep \/ ReadStep \/ WriteStepFails \/ ReadStepFails
  BY <1>3, WriteStepEffect, ReadStepEffect, WriteStepFailsEffect, ReadStepFailsEffect DEF Works
<1>4. CASE WriteSeekFails \/ ReadSeekFails \/ WriteLoopEnds \/ ReadLoopEnds
  BY <1>4 DEF WriteSeekFails, ReadSeekFails, SeekFails, WriteLoopEnds, ReadLoopEnds, chunkvars
<1>5. CASE ReadOpen \/ ReadOpenFails \/ ReadFailureCloses \/ ReadOut
  BY <1>5 DEF ReadOpen, ReadOpenFails, ReadFailureCloses, ReadOut, CloseReading, Works
<1> QED
  BY <1>1, <1>2, <1>3, <1>4, <1>5 DEF Next

\* The speeds change at the start of a configuration and at the two ends of an
\* iteration.
LEMMA StatsStay ==
  ASSUME IInv, Next
  PROVE  UNCHANGED stats \/ BeginConfig \/ WriteOut \/ ReadOut
<1>1. CASE Mount \/ CleanStart \/ SkipConfig \/ ComputeMeans \/ FinishConfigs \/ Unmount
  BY <1>1 DEF Mount, CleanStart, SkipConfig, ComputeMeans, FinishConfigs, Unmount, mainvars
<1>2. CASE WriteOpen \/ WriteSync \/ WriteFailureCloses \/ WriteStep \/ WriteStepFails
  BY <1>2 DEF WriteOpen, WriteSync, WriteFailureCloses, WriteStep, WriteStepFails, mainvars
<1>3. CASE WriteSeekFails \/ ReadSeekFails \/ WriteLoopEnds \/ ReadLoopEnds
  BY <1>3 DEF WriteSeekFails, ReadSeekFails, WriteLoopEnds, ReadLoopEnds, mainvars
<1>4. CASE ReadOpen \/ ReadOpenFails \/ ReadFailureCloses \/ ReadStep \/ ReadStepFails
  BY <1>4 DEF ReadOpen, ReadOpenFails, ReadFailureCloses, ReadStep, ReadStepFails, mainvars
<1> QED
  BY <1>1, <1>2, <1>3, <1>4 DEF Next

LEMMA SpeedsKept == ASSUME IInv, [Next]_vars PROVE SpeedsInv'
<1> USE DEF InConfig
<1>0. Iterations' = Iterations
  BY DEF Iterations
<1>1. CASE UNCHANGED vars
  BY <1>0, <1>1 DEF vars, chunkvars, IInv, SpeedsInv, config
<1>2. CASE BeginConfig
  <2>1. pc' = "wopen" /\ iter' = 0
    BY <1>2 DEF BeginConfig, Goto
  <2>2. \A i \in Iterations : i \in Nat
    BY Numbers DEF Iterations
  <2> QED
    BY <1>0, <2>1, <2>2 DEF SpeedsInv
<1>3. CASE Next /\ ~BeginConfig
  <2> SUFFICES ASSUME pc' \in InConfig, faults' = 0, config'.file <= CAPACITY,
                      NEW i \in Iterations
               PROVE  /\ i < iter' =>
                           stats'[i] = [write_speed |-> config'.file,
                                        read_speed |-> config'.file]
                      /\ i = iter' /\ pc' \in {"ropen", "read", "rout"} =>
                           stats'[i].write_speed = config'.file
    BY <1>0 DEF SpeedsInv
  <2>1. faults = 0
    BY <1>3, FaultsGrow, Numbers DEF Fails
  <2>2. pc \in InConfig /\ pc # "mean"
    BY <1>3, Predecessors DEF ReadFailureCloses, ReadOut, WriteOpen, WriteStep, WriteStepFails,
       WriteSeekFails, WriteLoopEnds, WriteSync, WriteFailureCloses, WriteOut, ReadOpen,
       ReadStep, ReadStepFails, ReadSeekFails, ReadLoopEnds
  <2>3. config' = config
    BY <1>3, <2>2, PassSteps
  <2>4. PICK file \in Nat : file = config.file /\ file <= CAPACITY
    BY <2>2, <2>3, ConfigFacts
  <2>5. /\ i < iter => stats[i] = [write_speed |-> file, read_speed |-> file]
        /\ i = iter /\ pc \in {"ropen", "read", "rout"} => stats[i].write_speed = file
    BY <2>1, <2>2, <2>4 DEF IInv, SpeedsInv
  <2>6. pc \notin {"wclose", "rclose"} \/ rc # 0
    <3>1. ASSUME pc \in {"wclose", "rclose"}, rc = 0 PROVE CAPACITY < file
      BY <2>1, <2>4, <3>1 DEF IInv, ResultInv
    <3> QED
      BY <2>4, <3>1, Numbers
  <2>7. stats \in [Iterations -> Speeds] /\ iter \in Iterations /\ iter \in Nat
    BY <2>2, Numbers DEF IInv, TypeOK, ConfigInv, Speeds
  <2>8. CASE WriteOut
    <3>1. stats' = [stats EXCEPT ![iter].write_speed = file] /\ iter' = iter
      BY <2>4, <2>8 DEF WriteOut
    <3>2. i = iter => stats'[i].write_speed = file
      BY <2>7, <3>1 DEF Speeds
    <3>3. i # iter => stats'[i] = stats[i]
      BY <2>7, <3>1
    <3>4. i < iter => i # iter
      BY <2>7
    <3> QED
      BY <2>3, <2>4, <2>5, <3>1, <3>2, <3>3, <3>4
  <2>9. CASE ReadOut
    <3>1. /\ pc = "rout" /\ stats' = [stats EXCEPT ![iter].read_speed = file]
          /\ IterationEnds(0)
      BY <2>4, <2>9 DEF ReadOut
    <3>2. iter' = iter + 1 /\ pc' \in {"wopen", "mean"}
      BY <2>7, <3>1, IterationFacts
    <3>3. i = iter => stats'[i] = [write_speed |-> file, read_speed |-> file]
      BY <2>5, <2>7, <3>1 DEF Speeds
    <3>4. i # iter => stats'[i] = stats[i]
      BY <2>7, <3>1
    <3>5. i < iter' => i < iter \/ i = iter
      BY <2>7, <3>2, Numbers DEF Iterations
    <3> QED
      BY <2>3, <2>4, <2>5, <3>2, <3>3, <3>4, <3>5
  <2>10. CASE UNCHANGED stats /\ ~WriteOut /\ ~ReadOut
    <3>1. ~ReadOpenFails
      <4>1. ReadOpenFails => IterationEnds(-1)
        BY DEF ReadOpenFails
      <4> QED
        BY <2>7, <4>1, IterationFacts
    <3>2. ~ReadFailureCloses
      <4>1. ReadFailureCloses => IterationEnds(rc) /\ pc = "rclose"
        BY DEF ReadFailureCloses
      <4> QED
        BY <2>6, <2>7, <4>1, IterationFacts
    <3>3. iter' = iter
      BY <1>3, <2>2, <2>10, <3>1, <3>2, PassSteps
    <3>4. pc' = "ropen" => FALSE
      <4>1. pc' = "ropen" => WriteFailureCloses
        BY <1>3, <2>10, Predecessors
      <4>2. pc' = "ropen" /\ WriteFailureCloses => pc = "wclose" /\ rc = 0
        BY DEF WriteFailureCloses, Returned, Goto
      <4> QED
        BY <2>6, <4>1, <4>2
    <3>5. pc' \in {"read", "rout"} => pc \in {"ropen", "read"}
      BY <1>3, Predecessors DEF ReadOpen, ReadStep, ReadSeekFails, ReadLoopEnds
    <3> QED
      BY <2>3, <2>4, <2>5, <2>10, <3>3, <3>4, <3>5
  <2> QED
    BY <1>3, <2>8, <2>9, <2>10, StatsStay
<1> QED
  BY <1>1, <1>2, <1>3

\* Every way to the end of main, but through fs_unmount, is a failing call or
\* a count that came up short.
LEMMA MountedKept == ASSUME IInv, [Next]_vars PROVE LeavesMountedOnlyOnFailure'
<1> USE DEF Goto, InConfig
<1>0. Fails => faults' > 0
  BY Numbers DEF Fails
<1>1. faults > 0 => faults' > 0
  <2>1. faults' = faults \/ Fails
    BY FaultsGrow
  <2> QED
    BY <1>0, <2>1
<1>2. CASE UNCHANGED vars
  BY <1>2 DEF vars, chunkvars, IInv, LeavesMountedOnlyOnFailure, config
<1>3. CASE Mount \/ Unmount
  BY <1>0, <1>3 DEF Mount, Unmount, LeavesMountedOnlyOnFailure
<1>4. CASE CleanStart \/ SkipConfig \/ BeginConfig \/ ComputeMeans \/ FinishConfigs
  BY <1>4 DEF CleanStart, SkipConfig, BeginConfig, ComputeMeans, FinishConfigs,
              LeavesMountedOnlyOnFailure
<1>5. CASE WriteOpen
  BY <1>0, <1>5 DEF WriteOpen, LeavesMountedOnlyOnFailure
<1>6. CASE WriteStep \/ ReadStep \/ WriteStepFails \/ ReadStepFails
  BY <1>6, WriteStepEffect, ReadStepEffect, WriteStepFailsEffect, ReadStepFailsEffect
     DEF LeavesMountedOnlyOnFailure
<1>7. CASE WriteSeekFails \/ ReadSeekFails \/ WriteLoopEnds \/ ReadLoopEnds \/ WriteSync
  BY <1>7 DEF WriteSeekFails, ReadSeekFails, WriteLoopEnds, ReadLoopEnds, WriteSync,
              LeavesMountedOnlyOnFailure
<1>8. CASE WriteOut \/ ReadOpen
  BY <1>8 DEF WriteOut, ReadOpen, Returned, LeavesMountedOnlyOnFailure
<1>9. ASSUME pc \in {"wclose", "rclose"}, rc # 0, rc' = rc, c' = c
      PROVE  LeavesMountedOnlyOnFailure'
  <2>1. config' = config /\ config.block \in Nat
    BY <1>9, ConfigFacts DEF config
  <2>2. \/ faults > 0
        \/ rc \in 0 .. config.block - 1 /\ CAPACITY < config.file
    BY <1>9 DEF IInv, ResultInv
  <2>3. rc \in 0 .. config.block - 1 => rc \in 1 .. config.block - 1
    BY <1>9, <2>1
  <2> QED
    BY <1>1, <1>9, <2>1, <2>2, <2>3 DEF LeavesMountedOnlyOnFailure
<1>10. CASE WriteFailureCloses
  <2>1. pc = "wclose" /\ rc' = rc /\ c' = c /\ (pc' = "ropen" \/ rc # 0)
    BY <1>10 DEF WriteFailureCloses, Returned
  <2> QED
    BY <1>9, <2>1 DEF LeavesMountedOnlyOnFailure
<1>11. CASE ReadFailureCloses
  <2>1. pc = "rclose" /\ rc' = rc /\ c' = c /\ (pc' \in {"wopen", "mean"} \/ rc # 0)
    BY <1>11 DEF ReadFailureCloses, IterationEnds
  <2> QED
    BY <1>9, <2>1 DEF LeavesMountedOnlyOnFailure
<1>12. CASE ReadOpenFails
  <2>1. disk.exists
    BY <1>12 DEF ReadOpenFails, IInv, FileInv
  <2>2. faults' > 0
    BY <1>0, <1>12, <2>1 DEF ReadOpenFails
  <2> QED
    BY <2>2 DEF LeavesMountedOnlyOnFailure
<1>13. CASE ReadOut
  BY <1>13 DEF ReadOut, IterationEnds, LeavesMountedOnlyOnFailure
<1> QED
  BY <1>2, <1>3, <1>4, <1>5, <1>6, <1>7, <1>8, <1>10, <1>11, <1>12, <1>13 DEF Next

-----------------------------------------------------------------------------
(* The means.                                                              *)

LEMMA IterationsFinite ==
  IsFiniteSet(Iterations) /\ Cardinality(Iterations) = TEST_ITERATIONS
<1>1. 0 \in Int /\ TEST_ITERATIONS - 1 \in Int /\ TEST_ITERATIONS \in Nat \ {0}
  BY FatPerfAssumption
<1> QED
  BY <1>1, FS_Interval DEF Iterations

\* Equal speeds add up to so many times the speed.
LEMMA SumOfWriteSpeeds ==
  ASSUME NEW v \in Nat, IsFiniteSet(Iterations), \A i \in Iterations : WriteSpeed(i) = v
  PROVE  MapThenSumSet(WriteSpeed, Iterations) = v * Cardinality(Iterations)
<1> DEFINE S == Iterations
           Terms(it) == [s \in SUBSET S |->
             IF s = {} THEN 0
             ELSE WriteSpeed(CHOOSE x \in s : TRUE) + it[s \ {CHOOSE x \in s : TRUE}]]
           sum == CHOOSE it : it = Terms(it)
<1>1. MapThenSumSet(WriteSpeed, S) = sum[S]
  BY DEF MapThenSumSet, MapThenFoldSet
<1>2. \E it : it = Terms(it)
  <2> DEFINE whole == [s \in SUBSET S |-> v * Cardinality(s)]
  <2>1. ASSUME NEW s \in SUBSET S
        PROVE  whole[s] = Terms(whole)[s]
    <3>1. CASE s = {}
      BY <3>1, FS_EmptySet
    <3>2. CASE s # {}
      <4>1. PICK x \in s : x = CHOOSE y \in s : TRUE
        BY <3>2
      <4>2. IsFiniteSet(s) /\ s \ {x} \in SUBSET S
        BY FS_Subset
      <4>3. /\ Cardinality(s \ {x}) = Cardinality(s) - 1 /\ Cardinality(s) \in Nat
        BY <4>1, <4>2, FS_RemoveElement, FS_CardinalityType
      <4>4. v * Cardinality(s) = v + v * (Cardinality(s) - 1)
        BY <4>3
      <4>5. WriteSpeed(x) = v
        BY <4>1
      <4> QED
        BY <3>2, <4>1, <4>2, <4>3, <4>4, <4>5
    <3> QED
      BY <3>1, <3>2
  <2> QED
    BY <2>1
<1>3. sum = Terms(sum)
  BY <1>2
<1> HIDE DEF sum
<1>4. sum[{}] = 0
  BY <1>3
<1>5. ASSUME NEW s \in SUBSET S, s # {}
      PROVE  \E x \in s : sum[s] = v + sum[s \ {x}]
  <2>1. PICK x \in s : x = CHOOSE y \in s : TRUE
    BY <1>5
  <2>2. sum[s] = WriteSpeed(x) + sum[s \ {x}]
    BY <1>3, <1>5, <2>1
  <2> QED
    BY <2>1, <2>2
<1> QED
  BY <1>1, <1>4, <1>5, SumOfEqualTerms

LEMMA SumOfReadSpeeds ==
  ASSUME NEW v \in Nat, IsFiniteSet(Iterations), \A i \in Iterations : ReadSpeed(i) = v
  PROVE  MapThenSumSet(ReadSpeed, Iterations) = v * Cardinality(Iterations)
<1> DEFINE S == Iterations
           Terms(it) == [s \in SUBSET S |->
             IF s = {} THEN 0
             ELSE ReadSpeed(CHOOSE x \in s : TRUE) + it[s \ {CHOOSE x \in s : TRUE}]]
           sum == CHOOSE it : it = Terms(it)
<1>1. MapThenSumSet(ReadSpeed, S) = sum[S]
  BY DEF MapThenSumSet, MapThenFoldSet
<1>2. \E it : it = Terms(it)
  <2> DEFINE whole == [s \in SUBSET S |-> v * Cardinality(s)]
  <2>1. ASSUME NEW s \in SUBSET S
        PROVE  whole[s] = Terms(whole)[s]
    <3>1. CASE s = {}
      BY <3>1, FS_EmptySet
    <3>2. CASE s # {}
      <4>1. PICK x \in s : x = CHOOSE y \in s : TRUE
        BY <3>2
      <4>2. IsFiniteSet(s) /\ s \ {x} \in SUBSET S
        BY FS_Subset
      <4>3. /\ Cardinality(s \ {x}) = Cardinality(s) - 1 /\ Cardinality(s) \in Nat
        BY <4>1, <4>2, FS_RemoveElement, FS_CardinalityType
      <4>4. v * Cardinality(s) = v + v * (Cardinality(s) - 1)
        BY <4>3
      <4>5. ReadSpeed(x) = v
        BY <4>1
      <4> QED
        BY <3>2, <4>1, <4>2, <4>3, <4>4, <4>5
    <3> QED
      BY <3>1, <3>2
  <2> QED
    BY <2>1
<1>3. sum = Terms(sum)
  BY <1>2
<1> HIDE DEF sum
<1>4. sum[{}] = 0
  BY <1>3
<1>5. ASSUME NEW s \in SUBSET S, s # {}
      PROVE  \E x \in s : sum[s] = v + sum[s \ {x}]
  <2>1. PICK x \in s : x = CHOOSE y \in s : TRUE
    BY <1>5
  <2>2. sum[s] = ReadSpeed(x) + sum[s \ {x}]
    BY <1>3, <1>5, <2>1
  <2> QED
    BY <2>1, <2>2
<1> QED
  BY <1>1, <1>4, <1>5, SumOfEqualTerms

LEMMA ReportsKept == ASSUME IInv, [Next]_vars PROVE ReportsInv'
<1> USE DEF Goto, InConfig
<1>1. CASE ComputeMeans
  <2>1. PICK T \in Nat : T = TEST_ITERATIONS /\ T > 0
    BY Numbers
  <2>2. pc = "mean" /\ iter = T /\ faults' = faults
    BY <1>1, <2>1 DEF ComputeMeans, chunkvars, IInv, ConfigInv
  <2>3. PICK file \in Nat : file = config.file /\ file = CONFIGS[c].file
    BY <2>2, ConfigFacts
  <2>4. PICK w, r : /\ w = MapThenSumSet(WriteSpeed, Iterations)
                    /\ r = MapThenSumSet(ReadSpeed, Iterations)
    OBVIOUS
  <2>5. reports' = [n \in DOMAIN reports \union {c} |->
          IF n # c THEN reports[n]
          ELSE [avg_write_speed |-> w \div TEST_ITERATIONS,
                avg_read_speed |-> r \div TEST_ITERATIONS]]
    BY <1>1, <2>4 DEF ComputeMeans
  <2> SUFFICES ASSUME faults' = 0, NEW n \in DOMAIN reports', CONFIGS[n].file <= CAPACITY
               PROVE  reports'[n] = [avg_write_speed |-> CONFIGS[n].file,
                                     avg_read_speed |-> CONFIGS[n].file]
    BY DEF ReportsInv
  <2>6. CASE n = c
    <3>1. \A i \in Iterations : i < iter
      BY <2>1, <2>2 DEF Iterations
    <3>2. \A i \in Iterations : WriteSpeed(i) = file /\ ReadSpeed(i) = file
      BY <2>2, <2>3, <2>6, <3>1 DEF IInv, SpeedsInv, WriteSpeed, ReadSpeed
    <3>3. w = file * T /\ r = file * T
      BY <2>1, <2>4, <3>2, IterationsFinite, SumOfWriteSpeeds, SumOfReadSpeeds
    <3>4. (file * T) \div T = file
      BY <2>1
    <3> QED
      BY <2>1, <2>3, <2>5, <2>6, <3>3, <3>4
  <2>7. CASE n # c
    BY <2>2, <2>5, <2>7 DEF IInv, ReportsInv
  <2> QED
    BY <2>6, <2>7
<1>2. ASSUME reports' = reports PROVE ReportsInv'
  <2>1. faults' = 0 => faults = 0
    BY FaultsGrow, Numbers DEF Fails
  <2> QED
    BY <1>2, <2>1 DEF IInv, ReportsInv
<1>3. CASE Mount \/ CleanStart \/ SkipConfig \/ BeginConfig \/ FinishConfigs \/ Unmount
  BY <1>2, <1>3 DEF Mount, CleanStart, SkipConfig, BeginConfig, FinishConfigs, Unmount, mainvars
<1>4. CASE UNCHANGED vars
  BY <1>2, <1>4 DEF vars
<1>5. CASE Next /\ pc \in InConfig /\ pc # "mean"
  BY <1>2, <1>5, PassSteps
<1>6. Next => \/ pc \in InConfig /\ pc # "mean"
              \/ Mount \/ CleanStart \/ SkipConfig \/ BeginConfig \/ FinishConfigs
              \/ Unmount \/ ComputeMeans
  BY DEF Next, WriteOpen, WriteStep, WriteSeekFails, WriteStepFails,
         WriteFailureCloses, WriteLoopEnds, WriteSync, WriteOut, ReadOpen,
         ReadOpenFails, ReadStep, ReadSeekFails, ReadStepFails, ReadFailureCloses,
         ReadLoopEnds, ReadOut
<1> QED
  BY <1>1, <1>3, <1>4, <1>5, <1>6

-----------------------------------------------------------------------------
LEMMA StepInv == IInv /\ [Next]_vars => IInv'
BY TypesKept, ConfigKept, LoopKept, WrittenKept, FileKept, SequentialKept, FinishedKept,
   ResultKept, CleanKept, SpeedsKept, ReportsKept, MountedKept DEF IInv

LEMMA Invariance == Spec => []IInv
BY InitInv, StepInv, PTL DEF Spec

\* The variables keep their types: arrays inside their ranges, an iteration
\* that exists, a speed in every field of the statistics.
THEOREM TypeCorrect == Spec => []TypeOK
<1>1. IInv => TypeOK
  BY DEF IInv
<1> QED
  BY <1>1, Invariance, PTL

\* As long as no call fails, and for files the card has room for, test_write
\* returns with its whole file on the card and the printed means are those of
\* whole passes.
THEOREM CleanRunsHonest == Spec => []CleanRunIsHonest
<1>1. IInv => CleanRunIsHonest
  BY DEF IInv, CleanInv, ReportsInv, InConfig, CleanRunIsHonest
<1> QED
  BY <1>1, Invariance, PTL

\* A random configuration seeks only inside the file the sequential ones have
\* left on the card, unless fs_sync and fs_close both failed in each of their
\* iterations.
THEOREM SeeksStayInside == Spec => []SeekInsideFile
<1>1. IInv => SeekInsideFile
  BY SeeksInside DEF SeekInsideFile
<1> QED
  BY <1>1, Invariance, PTL

\* A main that leaves the card mounted has met a failing call, or a write that
\* came up short on a card without room for the file.
THEOREM UnmountedUnlessFailed == Spec => []LeavesMountedOnlyOnFailure
<1>1. IInv => LeavesMountedOnlyOnFailure
  BY DEF IInv
<1> QED
  BY <1>1, Invariance, PTL
=============================================================================
