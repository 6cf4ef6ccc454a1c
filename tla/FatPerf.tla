------------------------------- MODULE FatPerf -------------------------------
(***************************************************************************)
(* performance_fatfs_sd: main mounts the card, runs every configuration    *)
(* TEST_ITERATIONS times (test_write, test_read), prints the means, removes*)
(* the file and unmounts.  The file is not removed between iterations or   *)
(* configurations, and a result other than 0 ends main on the spot.        *)
(*                                                                         *)
(* A timed pass takes one unit of time: a speed is the size the program    *)
(* divides by the time, which is the size of the file whatever was moved.  *)
(***************************************************************************)
EXTENDS ChunkLoop, FiniteSetsExt

CONSTANTS
  CONFIGS,                \* sequence of records file, block, random
  TEST_BLOCK_SIZE_MAX,
  TEST_ITERATIONS,
  SEEK_PAST_END,          \* whether fs_seek moves behind the end of the file
  LEFTOVERS               \* contents a file of an earlier run may have

ASSUME FatPerfAssumption ==
  /\ CONFIGS \in Seq([file : Nat \ {0}, block : Nat \ {0}, random : BOOLEAN])
  \* Lengths are powers of two: a file has a whole number of blocks.
  /\ \A n \in DOMAIN CONFIGS : CONFIGS[n].file % CONFIGS[n].block = 0
  /\ TEST_BLOCK_SIZE_MAX \in Nat /\ TEST_ITERATIONS \in Nat \ {0}
  /\ SEEK_PAST_END \in BOOLEAN
  /\ LEFTOVERS \subseteq Seq(Nat)

VARIABLES
  c, iter,       \* loop variables of main: c configurations begun
  mounted,
  rc,            \* result of the last test function
  stats,         \* stats[i]: the speeds
  reports,       \* avg_write_speed and avg_read_speed of finished configurations
  pc

vars == <<chunkvars, c, iter, mounted, rc, stats, reports, pc>>
mainvars == <<c, iter, mounted, rc, stats, reports>>

Iterations == 0 .. TEST_ITERATIONS - 1
Case(n) == Config(CONFIGS[n].file, CONFIGS[n].block, CONFIGS[n].random)
config == Case(c)

\* History: which call of test_write this is.
Tag == (c - 1) * TEST_ITERATIONS + iter + 1

Skipped(cfg) ==
  cfg.block > TEST_BLOCK_SIZE_MAX \/ ~Accepted(cfg.file \div cfg.block)

\* The table of the program: a file is written sequentially before it is
\* accessed at random (a file that does not fit on the card may come as it likes).
ASSUME SequentialFirst ==
  \A n \in DOMAIN CONFIGS :
    CONFIGS[n].random /\ CONFIGS[n].file <= CAPACITY /\ ~Skipped(Case(n)) =>
      \E m \in 1 .. n - 1 :
        /\ ~CONFIGS[m].random /\ CONFIGS[m].file = CONFIGS[n].file
        /\ ~Skipped(Case(m))

TypeOK ==
  /\ ChunkTypeOK
  /\ c \in 0 .. Len(CONFIGS)
  /\ iter \in 0 .. TEST_ITERATIONS
  /\ mounted \in BOOLEAN
  /\ rc \in Int
  /\ stats \in [Iterations -> [write_speed : Nat, read_speed : Nat]]
  /\ DOMAIN reports \subseteq 1 .. Len(CONFIGS)
  /\ pc \in {"mount", "clean", "config", "wopen", "write", "wclose", "sync", "wout",
             "ropen", "read", "rclose", "rout", "mean", "unmount", "done"}

NoStats == [write_speed |-> 0, read_speed |-> 0]

Init ==
  /\ ChunkInit(LEFTOVERS)
  /\ c = 0 /\ iter = 0 /\ rc = 0
  /\ mounted = FALSE
  /\ stats = [i \in Iterations |-> NoStats]
  /\ reports = [n \in {} |-> 0]
  /\ pc = "mount"

Goto(label) == pc' = label

Mount ==
  /\ pc = "mount"
  /\ \/ Works /\ mounted' = TRUE /\ Goto("clean")
     \/ Fails /\ mounted' = FALSE /\ Goto("done")
  /\ UNCHANGED <<arrays, disk, handle, loopvars, c, iter, rc, stats, reports>>

CleanStart ==
  /\ pc = "clean"
  /\ Unlink
  /\ Goto("config")
  /\ UNCHANGED <<arrays, handle, loopvars, mainvars>>

SkipConfig ==
  /\ pc = "config"
  /\ c < Len(CONFIGS)
  /\ Skipped(Case(c + 1))
  /\ c' = c + 1
  /\ UNCHANGED <<chunkvars, iter, mounted, rc, stats, reports, pc>>

\* Mutant of BeginConfig: the file is removed for each configuration.
BeginConfigUnlinks ==
  /\ pc = "config"
  /\ c < Len(CONFIGS)
  /\ ~Skipped(Case(c + 1))
  /\ c' = c + 1
  /\ RandomPermutationsInitialize(Case(c + 1))
  /\ stats' = [i \in Iterations |-> NoStats]
  /\ iter' = 0
  /\ disk' = NoFile
  /\ Goto("wopen")
  /\ UNCHANGED <<handle, loopvars, faults, mounted, rc, reports>>

BeginConfig ==
  /\ pc = "config"
  /\ c < Len(CONFIGS)
  /\ ~Skipped(Case(c + 1))
  /\ c' = c + 1
  /\ RandomPermutationsInitialize(Case(c + 1))
  /\ stats' = [i \in Iterations |-> NoStats]
  /\ iter' = 0
  /\ Goto("wopen")
  /\ UNCHANGED <<disk, handle, loopvars, faults, mounted, rc, reports>>

-----------------------------------------------------------------------------
\* test_write.  A result of 0 takes main on to test_read; any other ends it.
Returned(result, next) ==
  /\ rc' = result
  /\ Goto(IF result = 0 THEN next ELSE "done")

SeekRefused(cfg) ==
  /\ More(cfg)
  /\ cfg.random
  /\ ~SEEK_PAST_END
  /\ Offset(cfg) > Len(handle.cells)

WriteOpen ==
  /\ pc = "wopen"
  /\ \/ Works /\ OpenForWriting /\ BeginLoop /\ Goto("write") /\ UNCHANGED rc
     \/ Fails /\ Returned(-1, "ropen") /\ UNCHANGED <<disk, handle, loopvars>>
  /\ UNCHANGED <<arrays, c, iter, mounted, stats, reports>>

WriteStep ==
  /\ pc = "write"
  /\ ~SeekRefused(config)
  /\ WriteChunk(config, Tag)
  /\ UNCHANGED <<mainvars, pc>>

\* break: the rest of the function runs as after the last chunk.
WriteSeekFails ==
  /\ pc = "write"
  /\ \/ SeekFails(config)
     \/ SeekRefused(config) /\ UNCHANGED chunkvars
  /\ Goto("sync")
  /\ UNCHANGED mainvars

\* Mutant of WriteStepFails: it returns without closing the file.
WriteStepFailsReturns ==
  /\ pc = "write"
  /\ ~SeekRefused(config)
  /\ \E n \in -1 .. config.block :
       /\ WriteFails(config, Tag, n)
       /\ Returned(n, "ropen")
  /\ UNCHANGED <<c, iter, mounted, stats, reports>>

\* The file is closed, the result of closing it ignored, and the count or
\* the error of the write returned as it is: 0 when nothing could be stored.
WriteStepFails ==
  /\ pc = "write"
  /\ ~SeekRefused(config)
  /\ \E n \in -1 .. config.block :
       /\ WriteFails(config, Tag, n)
       /\ rc' = n
  /\ Goto("wclose")
  /\ UNCHANGED <<c, iter, mounted, stats, reports>>

WriteFailureCloses ==
  /\ pc = "wclose"
  /\ Close
  /\ Returned(rc, "ropen")
  /\ UNCHANGED <<arrays, loopvars, c, iter, mounted, stats, reports>>

WriteLoopEnds ==
  /\ pc = "write"
  /\ ~More(config)
  /\ Goto("sync")
  /\ UNCHANGED <<chunkvars, mainvars>>

WriteSync ==
  /\ pc = "sync"
  /\ Sync
  /\ Goto("wout")
  /\ UNCHANGED <<arrays, handle, loopvars, mainvars>>

WriteOut ==
  /\ pc = "wout"
  /\ stats' = [stats EXCEPT ![iter].write_speed = config.file]
  /\ Close
  /\ Returned(0, "ropen")
  /\ UNCHANGED <<arrays, loopvars, c, iter, mounted, reports>>

-----------------------------------------------------------------------------
\* Mutant of IterationEnds: one iteration too many.
IterationEndsLate(result) ==
  /\ rc' = result
  /\ iter' = IF result = 0 THEN iter + 1 ELSE iter
  /\ Goto(IF result # 0 THEN "done"
          ELSE IF iter + 1 <= TEST_ITERATIONS THEN "wopen" ELSE "mean")

\* test_read, and the end of the iteration.
IterationEnds(result) ==
  /\ rc' = result
  /\ iter' = IF result = 0 THEN iter + 1 ELSE iter
  /\ Goto(IF result # 0 THEN "done"
          ELSE IF iter + 1 < TEST_ITERATIONS THEN "wopen" ELSE "mean")

ReadOpen ==
  /\ pc = "ropen"
  /\ Works /\ OpenForReading
  /\ BeginLoop
  /\ Goto("read")
  /\ UNCHANGED <<arrays, mainvars>>

ReadOpenFails ==
  /\ pc = "ropen"
  /\ Fails \/ (~disk.exists /\ Works)
  /\ IterationEnds(-1)
  /\ UNCHANGED <<arrays, disk, handle, loopvars, c, mounted, stats, reports>>

ReadStep ==
  /\ pc = "read"
  /\ ~SeekRefused(config)
  /\ ReadChunk(config)
  /\ UNCHANGED <<mainvars, pc>>

ReadSeekFails ==
  /\ pc = "read"
  /\ \/ SeekFails(config)
     \/ SeekRefused(config) /\ UNCHANGED chunkvars
  /\ Goto("rout")
  /\ UNCHANGED mainvars

\* A read that is short because the file ends returns its count as well.
ReadStepFails ==
  /\ pc = "read"
  /\ ~SeekRefused(config)
  /\ \E n \in -1 .. config.block :
       /\ ReadFails(config, n)
       /\ rc' = n
  /\ Goto("rclose")
  /\ UNCHANGED <<c, iter, mounted, stats, reports>>

ReadFailureCloses ==
  /\ pc = "rclose"
  /\ CloseReading
  /\ IterationEnds(rc)
  /\ UNCHANGED <<arrays, loopvars, c, mounted, stats, reports>>

ReadLoopEnds ==
  /\ pc = "read"
  /\ ~More(config)
  /\ Goto("rout")
  /\ UNCHANGED <<chunkvars, mainvars>>

ReadOut ==
  /\ pc = "rout"
  /\ stats' = [stats EXCEPT ![iter].read_speed = config.file]
  /\ CloseReading
  /\ IterationEnds(0)
  /\ UNCHANGED <<arrays, loopvars, c, mounted, reports>>

-----------------------------------------------------------------------------
WriteSpeed(i) == stats[i].write_speed
ReadSpeed(i) == stats[i].read_speed

\* The means are taken over all iterations.
ComputeMeans ==
  /\ pc = "mean"
  /\ reports' = [n \in DOMAIN reports \union {c} |->
       IF n # c THEN reports[n]
       ELSE [avg_write_speed |-> MapThenSumSet(WriteSpeed, Iterations) \div TEST_ITERATIONS,
             avg_read_speed |-> MapThenSumSet(ReadSpeed, Iterations) \div TEST_ITERATIONS]]
  /\ Goto("config")
  /\ UNCHANGED <<chunkvars, c, iter, mounted, rc, stats>>

\* Mutant of FinishConfigs: main returns without unmounting.
FinishConfigsMounted ==
  /\ pc = "config"
  /\ c = Len(CONFIGS)
  /\ Unlink
  /\ Goto("done")
  /\ UNCHANGED <<arrays, handle, loopvars, mainvars>>

FinishConfigs ==
  /\ pc = "config"
  /\ c = Len(CONFIGS)
  /\ Unlink
  /\ Goto("unmount")
  /\ UNCHANGED <<arrays, handle, loopvars, mainvars>>

Unmount ==
  /\ pc = "unmount"
  /\ \/ Works /\ mounted' = FALSE
     \/ Fails /\ UNCHANGED mounted
  /\ Goto("done")
  /\ UNCHANGED <<arrays, disk, handle, loopvars, c, iter, rc, stats, reports>>

Next ==
  \/ Mount \/ CleanStart \/ SkipConfig \/ BeginConfig
  \/ WriteOpen \/ WriteStep \/ WriteSeekFails \/ WriteStepFails
  \/ WriteFailureCloses \/ WriteLoopEnds \/ WriteSync \/ WriteOut
  \/ ReadOpen \/ ReadOpenFails \/ ReadStep \/ ReadSeekFails \/ ReadStepFails
  \/ ReadFailureCloses \/ ReadLoopEnds \/ ReadOut
  \/ ComputeMeans \/ FinishConfigs \/ Unmount

Spec == Init /\ [][Next]_vars

-----------------------------------------------------------------------------
\* "Sync after write, to make sure that the data has been written to the
\* device": once test_write has returned 0, the device holds a file every unit
\* of which this call wrote.
SyncedAfterWrite ==
  pc = "ropen" /\ rc = 0 => WrittenBy(disk.cells, config, Tag)

\* As long as no call has failed, and for the files the card has room for, the
\* program measures what it claims: each pass moves the whole file, and the
\* means are those of whole passes.  (For a longer file a pass that broke off
\* may count with the full speed, or with 0.)
CleanRunIsHonest ==
  faults = 0 =>
    /\ pc = "ropen" /\ config.file <= CAPACITY => WrittenBy(disk.cells, config, Tag)
    /\ \A n \in {m \in DOMAIN reports : CONFIGS[m].file <= CAPACITY} :
         reports[n] = [avg_write_speed |-> CONFIGS[n].file,
                       avg_read_speed |-> CONFIGS[n].file]

\* Random access never seeks behind the end of a file the card has room for,
\* where FatFs would refuse or enlarge it: the sequential configurations, whose
\* file stays on the card, have filled it.  To lose that file without ending
\* main, fs_sync and fs_close must both fail in each of their iterations (the
\* empty file then reads as 0 bytes, which main takes for success); with fewer
\* failing calls than that no seek goes wrong.
SeekInsideFile ==
  /\ pc \in {"write", "read"} /\ config.random /\ config.file <= CAPACITY /\ More(config)
  /\ faults < 2 * TEST_ITERATIONS
  => Offset(config) <= Len(handle.cells)

\* The early returns leave no open file behind.
ReturnsWithFileClosed == pc \in {"config", "wopen", "ropen", "done"} => ~handle.open

\* main leaves the card mounted only if a call has failed, or if it returns
\* the count of a write that came up short on a card without room for the file.
LeavesMountedOnlyOnFailure ==
  pc = "done" /\ mounted =>
    faults > 0 \/ (rc \in 1 .. config.block - 1 /\ CAPACITY < config.file)
=============================================================================
