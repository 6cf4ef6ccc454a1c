------------------------------- MODULE LfsPerf -------------------------------
(***************************************************************************)
(* performance_littlefs_norflash: main runs every combination of access    *)
(* pattern, block length and file length; a combination is TEST_ITERATIONS *)
(* times: remove the file, test_write, test_read.  A failing call never    *)
(* stops the run; it only decides which iterations enter the means.        *)
(*                                                                         *)
(* Time is abstracted: every timed pass takes one unit, so that the speed  *)
(* of a pass is the number of units it transferred.                        *)
(***************************************************************************)
EXTENDS ChunkLoop, FiniteSets, FiniteSetsExt

CONSTANTS
  FILE_LENGTHS, BLOCK_LENGTHS,   \* sequences: the arrays file_lengths, block_lengths
  MIN_RANDOM_BLOCK,              \* 512 in main: no random access below it
  TEST_BLOCK_SIZE_MAX,
  TEST_ITERATIONS,
  LEFTOVERS                      \* contents a file of an earlier run may have

ASSUME LfsPerfAssumption ==
  /\ FILE_LENGTHS \in Seq(Nat \ {0}) /\ FILE_LENGTHS # <<>>
  /\ BLOCK_LENGTHS \in Seq(Nat \ {0}) /\ BLOCK_LENGTHS # <<>>
  \* Lengths are powers of two: a file has a whole number of blocks.
  /\ \A f \in DOMAIN FILE_LENGTHS, b \in DOMAIN BLOCK_LENGTHS :
       BLOCK_LENGTHS[b] <= FILE_LENGTHS[f] => FILE_LENGTHS[f] % BLOCK_LENGTHS[b] = 0
  /\ TEST_BLOCK_SIZE_MAX \in Nat
  \* 10 in the program; beyond 100, a rate in percent rounds one success to 0.
  /\ TEST_ITERATIONS \in 1 .. 100
  /\ LEFTOVERS \subseteq Seq(Nat)

VARIABLES
  case_number,   \* cases begun so far
  iter,          \* i, the iteration
  rc,            \* result of the last test function: 0 or -1
  stats,         \* stats[i]
  reports,       \* config->avg_*, *_success_rate_x100 of the cases measured
  pc

vars == <<chunkvars, case_number, iter, rc, stats, reports, pc>>
mainvars == <<case_number, iter, rc, stats, reports>>

Iterations == 0 .. TEST_ITERATIONS - 1
TotalCases == 2 * Len(BLOCK_LENGTHS) * Len(FILE_LENGTHS)

\* The three nested loops of main, as a function of case_number.
Case(n) ==
  Config(FILE_LENGTHS[((n - 1) % Len(FILE_LENGTHS)) + 1],
         BLOCK_LENGTHS[(((n - 1) \div Len(FILE_LENGTHS)) % Len(BLOCK_LENGTHS)) + 1],
         (n - 1) \div (Len(FILE_LENGTHS) * Len(BLOCK_LENGTHS)) = 1)

config == Case(case_number)

Skipped(cfg) ==
  \/ cfg.block > cfg.file
  \/ cfg.random /\ cfg.block < MIN_RANDOM_BLOCK
  \/ cfg.block > TEST_BLOCK_SIZE_MAX
  \/ ~Accepted(cfg.file \div cfg.block)

Tag(i) == i + 1
\* The times in ms and the operation counters are only printed.
NoStats ==
  [write_success |-> FALSE, written_bytes |-> 0, write_time |-> 0,
   read_success |-> FALSE, read_bytes |-> 0, read_time |-> 0]

TypeOK ==
  /\ ChunkTypeOK
  /\ case_number \in 0 .. TotalCases
  /\ iter \in 0 .. TEST_ITERATIONS
  /\ rc \in {-1, 0}
  /\ DOMAIN stats = Iterations
  /\ \A i \in Iterations : DOMAIN stats[i] = DOMAIN NoStats
  /\ DOMAIN reports \subseteq 1 .. TotalCases
  /\ pc \in {"start", "case", "unlink", "wopen", "write", "sync", "wout",
             "ropen", "read", "rout", "mean", "done"}

\* main unlinks the file once before the loops; the result is ignored.
Init ==
  /\ ChunkInit(LEFTOVERS)
  /\ case_number = 0 /\ iter = 0 /\ rc = 0
  /\ stats = [i \in Iterations |-> NoStats]
  /\ reports = [n \in {} |-> 0]
  /\ pc = "start"

Goto(label) == pc' = label

CleanStart ==
  /\ pc = "start"
  /\ Unlink
  /\ Goto("case")
  /\ UNCHANGED <<arrays, handle, loopvars, mainvars>>

SkipCase ==
  /\ pc = "case"
  /\ case_number < TotalCases
  /\ Skipped(Case(case_number + 1))
  /\ case_number' = case_number + 1
  /\ UNCHANGED <<chunkvars, iter, rc, stats, reports, pc>>

BeginCase ==
  /\ pc = "case"
  /\ case_number < TotalCases
  /\ ~Skipped(Case(case_number + 1))
  /\ case_number' = case_number + 1
  /\ RandomPermutationsInitialize(Case(case_number + 1))
  /\ stats' = [i \in Iterations |-> NoStats]
  /\ iter' = 0
  /\ Goto("unlink")
  /\ UNCHANGED <<disk, handle, loopvars, faults, rc, reports>>

BeginIteration ==
  /\ pc = "unlink"
  /\ Unlink
  /\ Goto("wopen")
  /\ UNCHANGED <<arrays, handle, loopvars, mainvars>>

-----------------------------------------------------------------------------
\* test_write
WriteOpen ==
  /\ pc = "wopen"
  /\ Works
  /\ OpenForWriting
  /\ BeginLoop
  /\ Goto("write")
  /\ UNCHANGED <<arrays, mainvars>>

WriteOpenFails ==
  /\ pc = "wopen"
  /\ Fails
  /\ rc' = -1
  /\ Goto("ropen")
  /\ UNCHANGED <<arrays, disk, handle, loopvars, case_number, iter, stats, reports>>

WriteStep ==
  /\ pc = "write"
  /\ WriteChunk(config, Tag(iter))
  /\ UNCHANGED <<mainvars, pc>>

\* A failing seek breaks the loop: the file is synced as after the last chunk.
WriteSeekFails ==
  /\ pc = "write"
  /\ SeekFails(config)
  /\ Goto("sync")
  /\ UNCHANGED mainvars

\* A failing write jumps over the sync.
WriteStepFails ==
  /\ pc = "write"
  /\ \E n \in -1 .. config.block : WriteFails(config, Tag(iter), n)
  /\ Goto("wout")
  /\ UNCHANGED mainvars

WriteLoopEnds ==
  /\ pc = "write"
  /\ ~More(config)
  /\ Goto("sync")
  /\ UNCHANGED <<chunkvars, mainvars>>

WriteSync ==
  /\ pc = "sync"
  /\ Sync
  /\ Goto("wout")
  /\ UNCHANGED <<arrays, handle, loopvars, mainvars>>

\* Mutant of WriteOut: the flag ignores how far the pass came.
WriteOutAlwaysSuccess ==
  /\ pc = "wout"
  /\ stats' = [stats EXCEPT
       ![iter].write_success = TRUE,
       ![iter].written_bytes = total,
       ![iter].write_time = 1]
  /\ \/ CloseWorks /\ rc' = 0
     \/ CloseFails /\ rc' = -1
  /\ Goto("ropen")
  /\ UNCHANGED <<arrays, loopvars, case_number, iter, reports>>

\* Label out: the statistics are taken, and rc is whatever fs_close returns.
WriteOut ==
  /\ pc = "wout"
  /\ stats' = [stats EXCEPT
       ![iter].write_success = (total = config.file),
       ![iter].written_bytes = total,
       ![iter].write_time = 1]
  /\ \/ CloseWorks /\ rc' = 0
     \/ CloseFails /\ rc' = -1
  /\ Goto("ropen")
  /\ UNCHANGED <<arrays, loopvars, case_number, iter, reports>>

-----------------------------------------------------------------------------
\* test_read, and the end of the iteration.
IterationEnds ==
  /\ iter' = iter + 1
  /\ Goto(IF iter + 1 < TEST_ITERATIONS THEN "unlink" ELSE "mean")

ReadOpen ==
  /\ pc = "ropen"
  /\ Works
  /\ OpenForReading
  /\ BeginLoop
  /\ Goto("read")
  /\ UNCHANGED <<arrays, mainvars>>

\* Mutant of ReadOpenFails: main returns on a failing test function.
ReadOpenFailsEndsMain ==
  /\ pc = "ropen"
  /\ Fails \/ (~disk.exists /\ Works)
  /\ rc' = -1
  /\ iter' = iter
  /\ Goto("done")
  /\ UNCHANGED <<arrays, disk, handle, loopvars, case_number, stats, reports>>

ReadOpenFails ==
  /\ pc = "ropen"
  /\ Fails \/ (~disk.exists /\ Works)
  /\ rc' = -1
  /\ IterationEnds
  /\ UNCHANGED <<arrays, disk, handle, loopvars, case_number, stats, reports>>

\* Mutant of ReadStep: rc keeps the count of the last read.
ReadStepKeepsCount ==
  /\ pc = "read"
  /\ ReadChunk(config)
  /\ rc' = ChunkSize(config)
  /\ UNCHANGED <<case_number, iter, stats, reports, pc>>

ReadStep ==
  /\ pc = "read"
  /\ ReadChunk(config)
  /\ rc' = 0
  /\ UNCHANGED <<case_number, iter, stats, reports, pc>>

\* Mutant of ReadStepFails: it returns without closing the file.
ReadStepFailsReturns ==
  /\ pc = "read"
  /\ \/ SeekFails(config)
     \/ \E n \in -1 .. config.block : ReadFails(config, n)
  /\ rc' = -1
  /\ IterationEnds
  /\ UNCHANGED <<case_number, stats, reports>>

ReadStepFails ==
  /\ pc = "read"
  /\ \/ SeekFails(config)
     \/ \E n \in -1 .. config.block : ReadFails(config, n)
  /\ rc' = -1
  /\ Goto("rout")
  /\ UNCHANGED <<case_number, iter, stats, reports>>

ReadLoopEnds ==
  /\ pc = "read"
  /\ ~More(config)
  /\ Goto("rout")
  /\ UNCHANGED <<chunkvars, mainvars>>

ReadOut ==
  /\ pc = "rout"
  /\ stats' = [stats EXCEPT
       ![iter].read_success = (total = config.file),
       ![iter].read_bytes = total,
       ![iter].read_time = 1]
  /\ CloseReading
  /\ IterationEnds
  /\ UNCHANGED <<arrays, loopvars, case_number, rc, reports>>

-----------------------------------------------------------------------------
\* Mutant of Writers: every iteration that could open its file takes part.
AllWriters == {i \in Iterations : stats[i].write_time > 0}

\* The means: only successful iterations take part; -1, as a uint32_t, if
\* there is none.
Writers == {i \in Iterations : stats[i].write_success}
Readers == {i \in Iterations : stats[i].read_success}

Mean(S, sum) == IF S = {} THEN -1 ELSE sum \div Cardinality(S)

WriteSpeed(i) == stats[i].written_bytes \div stats[i].write_time
ReadSpeed(i) == stats[i].read_bytes \div stats[i].read_time

Rate(S) == (Cardinality(S) * 100) \div TEST_ITERATIONS

ComputeMeans ==
  /\ pc = "mean"
  /\ reports' = [n \in DOMAIN reports \union {case_number} |->
       IF n # case_number THEN reports[n]
       ELSE [avg_write_speed |-> Mean(Writers, MapThenSumSet(WriteSpeed, Writers)),
             avg_read_speed |-> Mean(Readers, MapThenSumSet(ReadSpeed, Readers)),
             write_rate |-> Rate(Writers),
             read_rate |-> Rate(Readers)]]
  /\ Goto("case")
  /\ UNCHANGED <<chunkvars, case_number, iter, rc, stats>>

Finish ==
  /\ pc = "case"
  /\ case_number = TotalCases
  /\ Goto("done")
  /\ UNCHANGED <<chunkvars, mainvars>>

Next ==
  \/ CleanStart \/ SkipCase \/ BeginCase \/ BeginIteration
  \/ WriteOpen \/ WriteOpenFails \/ WriteStep \/ WriteSeekFails
  \/ WriteStepFails \/ WriteLoopEnds \/ WriteSync \/ WriteOut
  \/ ReadOpen \/ ReadOpenFails \/ ReadStep \/ ReadStepFails
  \/ ReadLoopEnds \/ ReadOut
  \/ ComputeMeans \/ Finish

\* One thread runs main and the file system calls return: Next is taken while
\* it can be.
Spec == Init /\ [][Next]_vars /\ WF_vars(Next)

-----------------------------------------------------------------------------
\* When test_write reports success, in the flag and in its result, the volume
\* holds a file every unit of which this iteration wrote: the walk left no
\* hole, nothing of an earlier file shows through, and the commit happened.
CompleteWriteIsOnVolume ==
  pc = "ropen" /\ stats[iter].write_success /\ rc = 0 =>
    WrittenBy(disk.cells, config, Tag(iter))

\* A read that comes up short without an error is the sign of an incomplete
\* write: the read walk never leaves a file the write walk has filled.
ShortReadMeansBadWrite ==
  [][pc = "read" /\ pc' = "rout" /\ More(config) /\ UNCHANGED faults =>
       ~WrittenBy(handle.cells, config, Tag(iter))]_vars

\* "Only successful iterations take part in the mean": no mean is diluted by a
\* pass that broke off, and there is a mean exactly when some pass succeeded.
MeansOfWholePasses ==
  \A n \in DOMAIN reports :
    LET r == reports[n] IN
      /\ r.avg_write_speed = IF r.write_rate = 0 THEN -1 ELSE Case(n).file
      /\ r.avg_read_speed = IF r.read_rate = 0 THEN -1 ELSE Case(n).file

\* The file is removed, and opened, only while no handle is open, whichever way
\* the previous pass ended.
NoHandleLeft ==
  pc \in {"case", "unlink", "wopen", "ropen", "mean", "done"} => ~handle.open

\* A failure costs an iteration, never a case: whatever calls fail, main comes
\* to its end, with a report for every case that is not skipped for its sizes.
EveryCaseReported ==
  <>(/\ pc = "done"
     /\ DOMAIN reports = {n \in 1 .. TotalCases :
          /\ Case(n).block <= Case(n).file
          /\ Case(n).block <= TEST_BLOCK_SIZE_MAX
          /\ Case(n).random => Case(n).block >= MIN_RANDOM_BLOCK
          /\ Accepted(Case(n).file \div Case(n).block)})
=============================================================================
