----------------------------- MODULE HandoverPerf -----------------------------
(***************************************************************************)
(* fs_perf_handover: cut-down copies of the two benchmarks, for one file   *)
(* and one block length.  test_write and test_read are those of LfsPerf    *)
(* and FatPerf and are taken from there; main differs.  It shuffles the    *)
(* index arrays once, for both rounds (sequential, then at random), checks *)
(* no sizes, and takes its means over all iterations.                      *)
(*                                                                         *)
(* The littlefs copy keeps no success flags: those in the statistics of    *)
(* LfsPerf are history here.                                               *)
(***************************************************************************)
EXTENDS ChunkLoop, FiniteSetsExt

CONSTANTS
  PROGRAMS,          \* the programs to run: "lfs", "fat"
  TEST_FILE_SIZE, TEST_BLOCK_SIZE,
  TEST_ITERATIONS,
  LEFTOVERS          \* contents a file of an earlier run may have

\* The sizes in the code: 4 and 256 blocks, one row.
ASSUME HandoverAssumption ==
  /\ PROGRAMS \subseteq {"lfs", "fat"}
  /\ TEST_BLOCK_SIZE \in Nat \ {0}
  /\ TEST_ITERATIONS \in 1 .. 100 \* 10 and 5 in the code; the limit is that of LfsPerf
  /\ TEST_FILE_SIZE \in Nat /\ TEST_FILE_SIZE % TEST_BLOCK_SIZE = 0
  /\ TEST_FILE_SIZE \div TEST_BLOCK_SIZE \in 1 .. RANDOM_COL_RANGE
  /\ LEFTOVERS \subseteq Seq(Nat)

VARIABLES
  program,
  round, iter,   \* rounds begun (random is round - 1), i
  mounted, rc, stats, reports, pc,
  fresh          \* history: the unlink of this iteration has worked

vars == <<chunkvars, program, round, iter, mounted, rc, stats, reports, pc, fresh>>

Rounds == 1 .. 2
Iterations == 0 .. TEST_ITERATIONS - 1
Case(n) == Config(TEST_FILE_SIZE, TEST_BLOCK_SIZE, n = 2)
config == Case(round)

Lfs == INSTANCE LfsPerf WITH
  FILE_LENGTHS <- <<TEST_FILE_SIZE>>, BLOCK_LENGTHS <- <<TEST_BLOCK_SIZE>>,
  MIN_RANDOM_BLOCK <- 0, TEST_BLOCK_SIZE_MAX <- TEST_BLOCK_SIZE,
  case_number <- round

Fat == INSTANCE FatPerf WITH
  CONFIGS <- [n \in Rounds |->
                [file |-> TEST_FILE_SIZE, block |-> TEST_BLOCK_SIZE, random |-> n = 2]],
  TEST_BLOCK_SIZE_MAX <- TEST_BLOCK_SIZE, SEEK_PAST_END <- FALSE,
  c <- round

NoStats(p) == IF p = "lfs" THEN Lfs!NoStats ELSE Fat!NoStats

\* littlefs is mounted when main starts.
Init ==
  /\ ChunkInit(LEFTOVERS)
  /\ program \in PROGRAMS
  /\ round = 0 /\ iter = 0 /\ rc = 0
  /\ mounted = (program = "lfs")
  /\ stats = [n \in Iterations |-> NoStats(program)]
  /\ reports = [n \in {} |-> 0]
  /\ fresh = FALSE
  /\ pc = IF program = "lfs" THEN "clean" ELSE "mount"

Goto(label) == pc' = label

-----------------------------------------------------------------------------
\* Mutant of Shuffle: the arrays keep their zeros.
NoShuffle == UNCHANGED arrays

\* One shuffle serves both rounds; their configurations differ in random only.
Shuffle == RandomPermutationsInitialize(Case(1))

\* main.  The old file is removed, whatever comes of it, and the arrays are
\* shuffled.
Prepare ==
  /\ pc = "clean"
  /\ Unlink
  /\ Shuffle
  /\ Goto("round")
  /\ UNCHANGED <<handle, loopvars, program, round, iter, mounted, rc, stats, reports, fresh>>

\* Mutant of BeginRound: the FAT program removes its file for each round too.
BeginRoundUnlinks ==
  /\ pc = "round"
  /\ round < 2
  /\ round' = round + 1
  /\ stats' = [n \in Iterations |-> NoStats(program)]
  /\ iter' = 0
  /\ disk' = NoFile
  /\ Goto(IF program = "lfs" THEN "unlink" ELSE "wopen")
  /\ UNCHANGED <<arrays, handle, loopvars, faults, program, mounted, rc, reports, fresh>>

BeginRound ==
  /\ pc = "round"
  /\ round < 2
  /\ round' = round + 1
  /\ stats' = [n \in Iterations |-> NoStats(program)]
  /\ iter' = 0
  /\ Goto(IF program = "lfs" THEN "unlink" ELSE "wopen")
  /\ UNCHANGED <<chunkvars, program, mounted, rc, reports, fresh>>

\* Only the littlefs program removes the file for each iteration.
BeginIteration ==
  /\ program = "lfs"
  /\ Lfs!BeginIteration
  /\ fresh' = (faults' = faults)
  /\ UNCHANGED <<program, mounted>>

\* An iteration that could not open its file counts with a speed of 0.
TotalSpeed(field) ==
  LET Speed(n) == stats[n][field] IN MapThenSumSet(Speed, Iterations)

WriteSpeed == IF program = "lfs" THEN "written_bytes" ELSE "write_speed"
ReadSpeed == IF program = "lfs" THEN "read_bytes" ELSE "read_speed"

ComputeMeans ==
  /\ pc = "mean"
  /\ reports' = [n \in DOMAIN reports \union {round} |->
       IF n # round THEN reports[n]
       ELSE [avg_write_speed |-> TotalSpeed(WriteSpeed) \div TEST_ITERATIONS,
             avg_read_speed |-> TotalSpeed(ReadSpeed) \div TEST_ITERATIONS]]
  /\ Goto("round")
  /\ UNCHANGED <<chunkvars, program, round, iter, mounted, rc, stats, fresh>>

\* The littlefs program leaves its last file; the FAT program removes it and
\* unmounts the card.
LfsFinish ==
  /\ program = "lfs" /\ pc = "round" /\ round = 2
  /\ Goto("done")
  /\ UNCHANGED <<chunkvars, program, round, iter, mounted, rc, stats, reports, fresh>>

FatFinish ==
  /\ program = "fat" /\ pc = "round" /\ round = 2
  /\ Unlink
  /\ Goto("unmount")
  /\ UNCHANGED <<arrays, handle, loopvars, program, round, iter, mounted, rc, stats,
                 reports, fresh>>

-----------------------------------------------------------------------------
\* The functions of each program, with everything they call.
LfsTestWrite ==
  /\ \/ Lfs!WriteOpen \/ Lfs!WriteOpenFails \/ Lfs!WriteStep \/ Lfs!WriteSeekFails
     \/ Lfs!WriteStepFails \/ Lfs!WriteLoopEnds \/ Lfs!WriteSync \/ Lfs!WriteOut
  /\ program = "lfs" /\ UNCHANGED <<program, mounted, fresh>>

LfsTestRead ==
  /\ \/ Lfs!ReadOpen \/ Lfs!ReadOpenFails \/ Lfs!ReadStep \/ Lfs!ReadStepFails
     \/ Lfs!ReadLoopEnds \/ Lfs!ReadOut
  /\ program = "lfs" /\ UNCHANGED <<program, mounted, fresh>>

FatTestWrite ==
  /\ \/ Fat!WriteOpen \/ Fat!WriteStep \/ Fat!WriteSeekFails \/ Fat!WriteStepFails
     \/ Fat!WriteFailureCloses \/ Fat!WriteLoopEnds \/ Fat!WriteSync \/ Fat!WriteOut
  /\ program = "fat" /\ UNCHANGED <<program, fresh>>

FatTestRead ==
  /\ \/ Fat!ReadOpen \/ Fat!ReadOpenFails \/ Fat!ReadStep \/ Fat!ReadSeekFails
     \/ Fat!ReadStepFails \/ Fat!ReadFailureCloses \/ Fat!ReadLoopEnds \/ Fat!ReadOut
  /\ program = "fat" /\ UNCHANGED <<program, fresh>>

FatMounting ==
  /\ Fat!Mount \/ Fat!Unmount
  /\ program = "fat" /\ UNCHANGED <<program, fresh>>

Next ==
  \/ FatMounting \/ Prepare \/ BeginRound \/ BeginIteration
  \/ LfsTestWrite \/ LfsTestRead \/ FatTestWrite \/ FatTestRead
  \/ ComputeMeans \/ LfsFinish \/ FatFinish

Spec == Init /\ [][Next]_vars

-----------------------------------------------------------------------------
\* As long as no call fails, and the file fits on the volume, both programs
\* measure what they print: each test_write leaves a file that it alone has
\* written, one shuffle serves both rounds, the means are those of whole passes,
\* and the card is unmounted.
CleanRunIsHonest ==
  faults = 0 /\ TEST_FILE_SIZE <= CAPACITY =>
    /\ pc = "ropen" =>
         WrittenBy(disk.cells, config,
                   IF program = "lfs" THEN Lfs!Tag(iter) ELSE Fat!Tag)
    /\ \A n \in DOMAIN reports :
         reports[n] = [avg_write_speed |-> TEST_FILE_SIZE, avg_read_speed |-> TEST_FILE_SIZE]
    /\ pc = "done" => DOMAIN reports = Rounds /\ mounted = (program = "lfs")

\* The littlefs program loses the result of a failing write, and keeps no flag
\* that tells.  In the sequential round its read test makes up for it: a pass
\* that comes to the end has read a file that this iteration has written, every
\* unit of it, if only the old one could be removed.
SequentialReadVouches ==
  program = "lfs" /\ pc = "rout" /\ ~config.random /\ fresh /\ total = TEST_FILE_SIZE =>
    WrittenBy(handle.cells, config, Lfs!Tag(iter))

\* The random round of the FAT program never seeks behind the end of the file
\* (with the proviso of FatPerf): the round is reached only through a sequential
\* one whose passes have all been read back, and nothing removes the file in
\* between.
SeekInsideFile == program = "fat" => Fat!SeekInsideFile
=============================================================================
