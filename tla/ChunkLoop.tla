------------------------------ MODULE ChunkLoop ------------------------------
(***************************************************************************)
(* One test file on a mounted volume, and the loops of test_write and      *)
(* test_read over it: seek to the block the walk names (random access      *)
(* only), transfer one chunk, advance.  LfsPerf and FatPerf add what       *)
(* differs between the programs: what happens after a failure and what     *)
(* main makes of the result.                                               *)
(*                                                                         *)
(* What an open file has written reaches the volume at the next successful *)
(* sync or close; a failing one may or may not have done the work.         *)
(***************************************************************************)
EXTENDS PerfGeometry

CONSTANTS
  CAPACITY,      \* units the volume can hold
  MAX_FAULTS     \* bound: file system calls that fail with an error

ASSUME VolumeAssumption == CAPACITY \in Nat /\ MAX_FAULTS \in Nat

VARIABLES
  randrows, randcols,   \* the index arrays
  disk,                 \* the test file as the volume holds it
  handle,               \* the file object and what it would commit
  at, total,            \* loop variables: place of the walk, units done
  faults                \* failed calls so far

arrays == <<randrows, randcols>>
loopvars == <<at, total>>
chunkvars == <<randrows, randcols, disk, handle, at, total, faults>>

NoFile == [exists |-> FALSE, cells |-> <<>>]
Closed == [open |-> FALSE, cells |-> <<>>]

ChunkTypeOK ==
  /\ randrows \in [RowIndex -> RowIndex]
  /\ randcols \in [ColIndex -> ColIndex]
  /\ disk \in [exists : BOOLEAN, cells : Seq(Nat)]
  /\ handle \in [open : BOOLEAN, cells : Seq(Nat)]
  /\ at \in [row : Nat, row_start : Nat, col : Nat]
  /\ total \in Nat
  /\ faults \in 0 .. MAX_FAULTS

\* A board may boot with a test file of an earlier run on the volume.
ChunkInit(leftovers) ==
  /\ randrows = [k \in RowIndex |-> 0]
  /\ randcols = [k \in ColIndex |-> 0]
  /\ disk \in {NoFile} \union {[exists |-> TRUE, cells |-> c] : c \in leftovers}
  /\ handle = Closed
  /\ at = WalkStart /\ total = 0
  /\ faults = 0

Works == UNCHANGED faults
Fails == faults < MAX_FAULTS /\ faults' = faults + 1

-----------------------------------------------------------------------------
\* The calls of the file system interface (external).
\* How many of n units a write at off stores, or a read at off delivers.
Storable(off, n) ==
  Smaller(n, Larger(0, Larger(CAPACITY, Len(handle.cells)) - off))
Readable(off, n) == Smaller(n, Larger(0, Len(handle.cells) - off))

Unlink ==
  \/ Works /\ disk' = NoFile
  \/ Fails /\ UNCHANGED disk

OpenForWriting ==
  /\ disk' = [disk EXCEPT !.exists = TRUE]
  /\ handle' = [open |-> TRUE, cells |-> disk.cells]

OpenForReading ==
  /\ disk.exists
  /\ handle' = [open |-> TRUE, cells |-> disk.cells]
  /\ UNCHANGED disk

Commit == disk' = [exists |-> TRUE, cells |-> handle.cells]

Sync ==
  \/ Works /\ Commit
  \/ Fails /\ (Commit \/ UNCHANGED disk)

\* fs_close gives the handle up whatever it returns.
CloseWorks == Works /\ handle' = Closed /\ Commit
CloseFails == Fails /\ handle' = Closed /\ (Commit \/ UNCHANGED disk)
Close == CloseWorks \/ CloseFails

CloseReading == (Works \/ Fails) /\ handle' = Closed /\ UNCHANGED disk

-----------------------------------------------------------------------------
\* The loop over a test configuration.
RandomPermutationsInitialize(cfg) ==
  /\ randrows' \in Shuffles(randrows, cfg.rows)
  /\ randcols' \in Shuffles(randcols, cfg.cols)

BeginLoop == at' = WalkStart /\ total' = 0

More(cfg) == total < cfg.file

\* Mutant of Offset: blocks are numbered from one.
OffsetFromOne(cfg) ==
  IF cfg.random
    THEN (RandomPermutationsGet(randrows, randcols, at, cfg.cols) + 1) * cfg.block
    ELSE total

Offset(cfg) ==
  IF cfg.random
    THEN RandomPermutationsGet(randrows, randcols, at, cfg.cols) * cfg.block
    ELSE total

ChunkSize(cfg) == Smaller(cfg.file - total, cfg.block)

Advance(cfg) ==
  /\ total' = total + ChunkSize(cfg)
  /\ at' = IF cfg.random THEN WalkNext(at, cfg.rows, cfg.cols) ELSE at

SeekFails(cfg) ==
  /\ More(cfg)
  /\ cfg.random
  /\ Fails
  /\ UNCHANGED <<randrows, randcols, disk, handle, at, total>>

\* The handle after fs_write has stored n units of the chunk.
Stored(cfg, n, tag) ==
  handle' = [handle EXCEPT !.cells = Overwrite(@, Offset(cfg), n, tag)]

WriteChunk(cfg, tag) ==
  /\ More(cfg)
  /\ Storable(Offset(cfg), ChunkSize(cfg)) = ChunkSize(cfg)
  /\ Works
  /\ Stored(cfg, ChunkSize(cfg), tag)
  /\ Advance(cfg)
  /\ UNCHANGED <<randrows, randcols, disk>>

\* fs_write returns an error, or less than the chunk because the volume is
\* full; either is told apart from success by the caller, with count n.
WriteFails(cfg, tag, n) ==
  /\ More(cfg)
  /\ \/ n = -1 /\ Fails
     \/ n = Storable(Offset(cfg), ChunkSize(cfg)) /\ n < ChunkSize(cfg) /\ Works
  /\ Stored(cfg, n, tag)
  /\ UNCHANGED <<randrows, randcols, disk, at, total>>

\* Mutant of ReadChunk: the count of the read is not compared.
ReadChunkShort(cfg) ==
  /\ More(cfg)
  /\ Works
  /\ Advance(cfg)
  /\ UNCHANGED <<randrows, randcols, disk, handle>>

ReadChunk(cfg) ==
  /\ More(cfg)
  /\ Readable(Offset(cfg), ChunkSize(cfg)) = ChunkSize(cfg)
  /\ Works
  /\ Advance(cfg)
  /\ UNCHANGED <<randrows, randcols, disk, handle>>

\* Mutant of ReadFails: a whole chunk is taken for a short one.
ReadFailsAtWhole(cfg, n) ==
  /\ More(cfg)
  /\ \/ n = -1 /\ Fails
     \/ n = Readable(Offset(cfg), ChunkSize(cfg)) /\ n <= ChunkSize(cfg) /\ Works
  /\ UNCHANGED <<randrows, randcols, disk, handle, at, total>>

ReadFails(cfg, n) ==
  /\ More(cfg)
  /\ \/ n = -1 /\ Fails
     \/ n = Readable(Offset(cfg), ChunkSize(cfg)) /\ n < ChunkSize(cfg) /\ Works
  /\ UNCHANGED <<randrows, randcols, disk, handle, at, total>>
=============================================================================
