# Verification of the zpapp file system and settings programs

The repository holds Zephyr applications for boards with NOR flash, NAND flash
and SD cards: benchmarks and samples for littlefs and FatFs, a sample for the
settings subsystem, and a collection of settings tests. This directory holds
TLA+ specifications of the programs, TLC runs that check them on small
instances, and TLAPS proofs about the parts that hold for every size.

## 1. Inventory

The programs share no process and no memory: each is one image above the file
system or settings API of Zephyr. All but one have a single thread (`main`);
only the settings performance test has two, its test thread and that of a work
queue, which share an array, a semaphore and the clock. What makes the others
hard is what happens around the one thread: calls that fail, volumes that fill
up, power that is cut between two calls, and state (a file, the index arrays, a
stored key, a work area) that outlives the loop, function or boot that wrote it.

| Component | Source | State | Operations | Hard behaviour | What makes it correct |
|---|---|---|---|---|---|
| Index arrays and walk | `fs/performance_*/src/main.c`, copied into `fs_perf_handover/` | `randrows`, `randcols`; `row`, `row_start`, `col` | `RandomPermutationsInitialize`, `RandomPermutationsGet`, the walk in `test_write`/`test_read` | arrays reused with other sizes; index at the boundary of the matrix | the arrays hold permutations; a pass meets each block once and leaves none out |
| littlefs benchmark | `fs/performance_littlefs_norflash` | the test file, `stats`, the configuration | `main`, `test_write`, `test_read` | any call fails, the volume fills up, an earlier pass broke off | a pass reported as successful is whole and on the volume; only such passes enter the means; every case is reported |
| FAT benchmark | `fs/performance_fatfs_sd` | the test file, `stats`, mount | the same, with early returns | the same; random seeks rely on the sequential run before | nothing open or mounted stays behind without reason; seeks stay inside the file |
| Handover benchmarks | `fs_perf_handover/*` | as above, no success flags | cut-down copies: one shuffle for both rounds, means over all iterations | the result of a failing write is lost and no flag tells | a clean run measures whole passes; a sequential pass that is read back vouches for the file |
| FAT samples | `fs/fatfs_flash`, `fs/fatfs_sd`, `fs/two_fatfs_flash` | test files, one FatFs work area | mount, open, write, seek, read, compare, close, unmount | failing calls, leftovers of earlier boots, two volumes on one work area | a match means this round's data; a file is closed before its volume goes |
| Boot counter | `fs/littlefs_flash` | byte in `boot_count` | mount, list, read-increment-write, unmount | power cuts, failing calls, wrap of the byte | counts the committed boots |
| Settings sample | `settings/samples` | stored keys, destinations, handlers | load, save, delete, direct load, run-time set | power cuts between saves, failing saves, no backend | counters advance once a boot; the length pair drifts only by what was lost |
| `ppt_main.c` (2 copies) | `fs/fatfs_flash`, `fs/two_fatfs_flash` | a text in a file, kept over boots | mount, open, read back, write behind, close, unmount | short and failing reads, power cuts | a text once committed survives |
| Settings performance test | `settings/test/performance` | `test_settings`, statistics, semaphore, storage | the test (fill, submit, wait), `store_pending` | two threads, a wait with a timeout, a save that fails or never returns | a passed test means that everything was saved; the test ends |
| `direct_fatfs.c` | `fs/fatfs_flash` | none between calls | demonstration of `f_stat`, `f_readdir`; not built | none | - |
| Other settings tests | `settings/test/*` | settings backends, handlers, counters of the tests | ztest cases | compression, sector limits, all inside the backends | the assertions of the tests |

Components interact only through the Zephyr APIs: the benchmarks and samples
call `fs_*`; the settings sample calls `settings_*`, which call the handlers
(`alpha_handle_*`, `beta_handle_*`) back, which call `settings_save_one` through
the export callback. littlefs, FatFs, the VFS and the settings subsystem are not
in the repository; what the programs rely on is modelled from their use, in
definitions marked external in `PROJECT.json`.

## 2. Modules

```
PerfGeometry ---- RandomPermutations ---- MCRandomPermutations --(refines)-- AbstractPermutations
     |                |-------------- BlockWalk
     \----------- ChunkLoop --- LfsPerf --- MCLfsPerf
                      |   \---- FatPerf --- MCFatPerf
                      |            (both, by INSTANCE)
                      \------------- HandoverPerf --- MCHandoverPerf
SampleBoots ---- FatSample --- MCFatSample          SettingsSample     SettingsPerf
            \--- LittlefsBoot

PerfGeometryProofs ---- BlockWalkProofs         FsSampleProofs     SettingsSampleProofs
                   |--- LfsPerfProofs                              SettingsPerfProofs
                   |        |   (both, by INSTANCE)
                   |--- FatPerfProofs
                   |        |
                   \--- HandoverPerfProofs
```

A module `XProofs` extends `X`; `BlockWalkProofs` holds the proofs about the shuffle as
well and extends `MCRandomPermutations`, where the refinement is stated. `FsSampleProofs`
holds the proofs about the samples of both file systems and extends `FatSample` and
`LittlefsBoot`.

**PerfGeometry** is the arithmetic: `Rows`, `Cols` and `Accepted` are the lines
of `main` that cut a file into a matrix, `WalkNext` is the end of the loop body
of `test_write` and `test_read`, `Shuffles` what the shuffle may leave, and `Overwrite`
what a write does to the units of a file.

**RandomPermutations** is the shuffle. A call is `Call` (or `CallTooLarge`),
`Fill`, one `ShuffleRow` per iteration of the first loop, `RowsDone`, one
`ShuffleCol` per iteration of the second, `ColsDone`. The random number is any
element of the range the modulo leaves. **AbstractPermutations** is what callers
see: one step that replaces a prefix of each array by a permutation.
`MCRandomPermutations` adds history variables with the arrays as they last were
between two calls and shows `Abstract!Spec` through them.

**BlockWalk** composes the shuffle with the walk over what it leaves: `Configure` calls
RandomPermutations for the matrix of a file, `Shuffle` takes the steps of the call, and
then come passes that may break off at any block, several of them over one shuffle, and
the next configuration; `Refuse` is a file `main` does not accept. `visited` is a history
variable.

**ChunkLoop** is the common part of the two benchmarks: the test file on the
volume (`disk`), the open file (`handle`), the loop variables (`at`, `total`)
and the file system calls. A file is a sequence of units, each tagged with the
call of `test_write` that wrote it, 0 in a hole; what is written reaches the
volume with the next successful sync or close, and a failing one may or may not
have had its effect. Each call may fail, at most `MAX_FAULTS` times in a
behaviour; a write on a full volume comes up short without failing.

**LfsPerf** and **FatPerf** add the programs: `pc` names the place in `main`,
`test_write` and `test_read`; each file system call is an action or an
alternative of one. They differ as the programs do: in littlefs a failing write
skips the sync, sets a flag and lets the run go on, and the file is removed in
each iteration; on FAT it closes the file and its count or error ends `main`,
and the file stays. Time is abstracted: each timed pass takes one unit, so a
speed is the number of units the program divides by the time (those transferred
in LfsPerf, the size of the file in FatPerf, whatever was transferred).

**HandoverPerf** is both programs of `fs_perf_handover`. Their `test_write` and
`test_read` differ from those of the full benchmarks in what they print and in
the flags only, so it takes the actions from `LfsPerf` and `FatPerf` by INSTANCE,
for the one file and the one block length these programs have, and adds the two
`main` functions. The instances' statistics keep the success flags; nothing in
HandoverPerf reads them, they are history there. `fresh` is history too: the
file of the iteration before has been removed.

**SettingsSample** is the settings sample over several boots. `storage` is the
backend, `ram` the destinations, `todo` the keys an export loop has still to
save. `PowerCycle` may happen between any two calls and leaves only `storage`.
Whether the build has the file backend is a variable that never changes, so that
one run checks both. A text is its length and whether it was injected at run
time; the voltage is counted in steps of 25. Uninitialised variables that are
saved (`example_without_handler`) take any value. `example_initialization` is two
actions, `PrepareVolume` for the volume of the file backend and `Initialize` for the
subsystem and the handler, so that each may fail on its own: a settings file that could
not be removed, because its volume did not mount or `fs_unlink` failed, is still there,
and the function goes on with it. The longest text that the sample saves is refused by
its own handler at the next boot: `BetaHandles` models it, and `sample.yaml` expects the
message.

**SettingsPerf** is the settings performance test. `test` and `work` are the
places of the two threads, `Tick` is the clock interrupt; an action is what a
thread does between two points at which it may be preempted with an effect, so
fill, save and measure are each steps of their own. A failing `zassert` ends the
thread it is in, as in ztest: `SaveFails` leaves the semaphore ungiven.

**SampleBoots** is what the samples of both file systems share: the boots, the place in
the program, and the calls that fail.

**FatSample** is the three FAT samples and `ppt_main.c`. A board is built with one
of `SAMPLES` (its list of volumes, its number of rounds per volume, and whether
`ppt_main.c` is there to be booted); at each boot it starts either program over
the same volumes. The zero that `ppt_main` writes behind what it has read goes in
front of the buffer when the read failed (`read_buff[brw]` with `brw` negative);
that byte is not one the model has, and printing is left out.
**LittlefsBoot** is the boot counter. Whether the overlay of the build has `automount`
is a variable that never changes: with it, as in all three overlays of the repository,
`main` does not mount, and a volume that failed to mount shows at `fs_statvfs` only.
`WriteStoresNothing` is a write that returns 0, which `main.c:96` takes for success.
littlefs itself returns an error then; the history variable `unstored` keeps the two
cases apart.

Operators named in a comment "Mutant of ..." are faulty versions of the
definition after them. No specification uses them; they exist to confirm that
the properties tell them apart.

## 3. Runs

| Run | Instance | What it shows |
|---|---|---|
| `random_permutations` | 3 x 3 arrays, 7 file sizes, among them refused ones | the shuffle keeps permutations in both arrays, writes the prefix only, refines the atomic specification |
| `block_walk` | 3 x 4 matrix, files of 1 to 16 blocks, all shuffles | no block twice, none left out, no stale element read; `IInv` holds |
| `lfs_perf` | files of 4 and 8 units, blocks of 1, 2 and 8, 2 x 2 matrix, 2 iterations, 2 failing calls, room for 5 | flags, means and reports are true whatever fails, also where writes come up short; every case comes to its report |
| `fat_perf` | six configurations on a card with room for 5: sequential then random file of 4, one refused, 20 units in blocks of 5, 8 in blocks of 2; 5 failing calls | seeks, clean runs, early returns, short writes as results, empty writes taken for success |
| `fat_perf_sync` | one sequential configuration, 2 failing calls | violation, finding 1 |
| `handover` | both programs, 1 x 3 matrix, file of 3 blocks, 2 rounds of 2 iterations, 4 failing calls | what figures without flags are worth |
| `settings` | both backends, 5 boots, counters of width 3 (angle, gamma) and 10 (lengths), texts of 5 bytes, 2 failing calls, power cuts anywhere | 2,380,880 states: the stored counters, also when the initialisation fails at one or two places; with the file backend every boot starts from an empty storage |
| `settings_length` | 2 boots, no failing call | violation, finding 2 |
| `settings_perf` | 3 settings, 2 rounds, timeout of 3 ticks, 4 more ticks before and after, 2 failing calls | the two threads and the clock in every interleaving |
| `fat_sample` | the three samples, 4 boots of either program, 3 failing calls, power cuts | what a match means; the shared work area; the text of `ppt_main` |
| `littlefs_boot` | byte of 3 values, 5 boots, 3 failing calls, power cuts, both ways of mounting | the counter |

*Bounds.* The matrix needs two rows for the diagonal walk to have a boundary and
three for a diagonal that wraps more than once; block counts are chosen so that
each of "one row", "full matrix", "remainder" and "too many rows" occurs. Two
files and two block sizes give skipped cases and chunks of both sizes. Two
failing calls let a failure meet the failure of the call that handles it (a
write and its close, an unlink and the open after it); the samples have three,
FatPerf five and HandoverPerf four, because four is how many it takes to lose the
file in each of two iterations (see `SeekInsideFile`). The handover programs have a single row in the code
(4 and 256 blocks, `RANDOM_COL_RANGE` is larger), hence 1 x 3; three places are the
fewest that let a later write enclose a hole. In `settings_perf` the timeout is
shorter than the ticks that may pass, so a wait ends by the give, by the timeout,
or by the timeout just before a late give, and the work item goes on afterwards. Widths of 3 and 10 let the counters wrap within the boots of a run;
length 1 starts at 9 of 10 so that it wraps in its second boot, and
the fifth boot meets a text that its handler refuses.

*Leftovers.* The benchmarks start on an empty volume or over a file of an
earlier run, one of which is longer than the file under test.

*Fairness.* `WF(Next)` for LfsPerf: one thread runs `main`, and the file system
calls return. SettingsPerf assumes `WF(Tick)` and `WF(TestThread)`: the clock runs,
and the test thread is scheduled. The thread of the queue has the higher,
cooperative priority (`settings_test_perf.c:104`) and leaves the processor only
while a save sleeps and after its last one; that it does is the assumption.
Nothing else is assumed of the work item: a save may sleep for ever. The other specifications state safety
only and need no fairness. `CHECK_DEADLOCK FALSE` stands where `main` returns and
the board stops, or the test has ended.

## 4. What the properties say

* `CompleteWriteIsOnVolume`: `test_write` of littlefs loses the result of a
  failing write, because `rc` is overwritten by `fs_close`. The flag
  `write_success` and the result together are nevertheless honest: when both
  say yes, every unit of the file on the volume is of this iteration. This is
  where the walk, short writes, holes, leftovers and commits meet.
* `ShortReadMeansBadWrite` is the converse for the read test: without a failing
  call it can only break off over a file that the write test left incomplete.
* `MeansOfWholePasses`, `NoHandleLeft`: what `main` makes of broken-off iterations.
  `EveryCaseReported` is liveness: whichever calls fail, `main` gets to its end
  with a report of every case that it does not skip.
* `SeekInsideFile`: FatFs in Zephyr refuses to seek behind the end of the file.
  Random writing works because the sequential configuration is listed first and
  its file is kept; the run would fail if the file were removed in between, as
  littlefs's `main` does. The order alone is not enough: when `fs_sync` and
  `fs_close` both fail in every sequential iteration, `test_write` returns 0 all
  the same, the read test meets an empty file and returns its count, which is 0
  again, and `main` goes on to the random configuration. The property therefore
  holds while fewer than `2 * TEST_ITERATIONS` calls have failed (10 in the code),
  and the run has one failure more than that bound. With a full card (the larger files of `fat_perf`) this ordering is not
  enough: the sequential write stores nothing more, returns 0, which `main` takes
  for success, and the random passes break off at the first seek and still
  report a speed for the whole file. `CleanRunIsHonest` is stated for a card
  with room for that reason.
* `ReturnsWithFileClosed`, `LeavesMountedOnlyOnFailure`: `test_write` and `test_read`
  of the FAT benchmark have many returns, and `main` two ways out of its nested loops.
* Handover `CleanRunIsHonest`: without flags the figures are those of whole passes
  only while every call succeeds and the file fits on the volume, in both programs. `SequentialReadVouches` is what
  is left in littlefs when calls fail: a sequential pass that was read to its end
  has read this iteration's data. The same is false of the random round, where a
  hole reads as data, and of an iteration whose unlink failed. Handover
  `SeekInsideFile` relies, as above, on the order of the rounds.
* `PassMeansStored`: the fill and the work item write one array without a lock, a
  failing save ends the work item, and the wait has a timeout; a verdict of "pass"
  still means that each setting is stored with the value of the last round.
  `TestEnds` is its liveness half: there is a verdict even if the work item hangs.
* `StatsAgree`: two time stamps run, and `k_uptime_delta` moves the one it reads;
  the single saves add up to no more than the whole and lie between the extremes.
* `CountsOnceABoot`: each counter of the settings sample is saved two or three
  times a boot, by three different calls; wherever power is cut, no step does more to
  a stored value than make it the successor of the one at boot. It is not counted on
  twice, and no export sets it back, as both would the voltage if it were not loaded
  again after its first save. A failing read is excluded: a
  destination that was not loaded restarts its counter from the default.
* `DriftBounded`: `length/1` and `length/2` are saved by two calls, and so the
  pair can shift, by one per power cut or failing save and no more.
* `CleanRun` is about runs of the settings sample in which no call fails. Fields of the
  direct load and values of `gamma` that could not be read, and settings files that
  could not be removed, are outside it.
* `CountsCommits`, `ReportedMeansCounted`: the boot counter counts exactly the
  boots whose close committed, and `littlefs_increase_infile_value` returns 0
  only if this one was counted, whatever failed. The second relies on littlefs not to
  report a write that stored nothing as a success.
* `CleanBoot` also says that no file is open when the volume is
  unmounted, on every path through `err`.
* `MatchMeansWritten`: the rounds of `fatfs_sd` write different texts, so that a
  match cannot come from an earlier round. It can come from an earlier boot,
  whose rounds wrote the same texts: the property is about the first.
* `WorkAreaOfOpenFile`: `two_fatfs_flash` uses one `FATFS` for both mount points;
  the volumes are used strictly one after the other, also when an unmount fails. What
  it would notice is a file left open at an unmount, the way by which a work area that
  was taken over would do harm; the second close of a file is FatFs's affair.
* `TextSurvives`: `ppt_main` writes behind whatever it could read. Reads that fall
  short or fail, and power cuts, must not lead it to write into a text that an
  earlier boot has committed.

Three hazards of the list have no property, since the programs do nothing about them
and nothing in the repository says otherwise:

* the speed of a pass that took no time is a division by zero
  (`fs/performance_littlefs_norflash/src/main.c:563`), and time is one unit a pass here;
* iterations that failed enter the means of the FAT benchmark after a failing seek
  (`fs/performance_fatfs_sd/src/main.c:327`), and those of the handover programs after
  any failure. Both `CleanRunIsHonest` are about runs without a failing call;
* `val_u8` is saved uninitialised when reading `gamma` fails
  (`settings/samples/src/main.c:442`).

## 5. Findings

1. `fat_perf_sync`: `SYNC_AFTER_WRITE` promises that the data is on the device
   (`fs/performance_fatfs_sd/src/main.c:34`); `test_write` returns 0 although both
   `fs_sync` and `fs_close` have failed.
2. `settings_length`: the comment at `settings/samples/src/main.c:42` says that all
   destinations are overwritten from the storage; `alpha_handle_set` refuses every
   key of one component, `alpha/length` among them.
## 6. Proofs

Each theorem holds for every value of the constants that satisfies the named
assumptions of its module:

* `RangesAssumption`: an index of an array fits in its elements;
* `BlocksAssumption`: files have at least one block;
* `VolumeAssumption`; `LfsPerfAssumption`: lengths are positive, a block that is not
  longer than a file divides it, as the powers of two in the code do, and there are
  at most 100 iterations (10 in the code; from 101 on a success rate in whole
  percents rounds a single success to 0, and `main` would print no mean for it);
* `FatPerfAssumption`, and `SequentialFirst`: each random configuration whose file fits
  stands behind a sequential one of the same file, as in the table at
  `fs/performance_fatfs_sd/src/main.c:106`;
* `HandoverAssumption`: one block length that divides the file into at least one and at
  most `RANDOM_COL_RANGE` blocks, and between 1 and 100 iterations (10 and 5 in the code;
  the limit is that of `LfsPerfAssumption`). What `LfsPerf` and `FatPerf` assume of their
  tables of sizes, `SequentialFirst` among them, follows from it (`LfsAssumptions`,
  `FatAssumptions` in HandoverPerfProofs);
* `BootsAssumption`: there is at least one boot; `FatSampleAssumption`: a sample has at
  least one volume and one round, its volumes are mounted at different places, and one
  that `ppt_main` comes with has one round;
* `LittlefsBootAssumption`, `SettingsAssumption` and `SettingsPerfAssumption`: ranges of
  the counters and of the clock. A byte has at least two values (256 in the code), or
  else `gamma` could not be 1.

The bounds on boots and failing calls are constants as well, so the theorems hold for
any number of either.

**BlockWalkProofs**, the shuffle. `TypeCorrect` (`Spec => []TypeOK`),
`PermutationsKept` (`[]ArraysArePermutations`), `PrefixOnly`
(`OnlyPrefixWritten`). `ArraysArePermutations` speaks of the time between two
calls and is not inductive; the invariant the proof uses says that from the
fill loops on each array is a permutation of its prefix, and that the loop
variable stays below the size of the array it indexes. The central lemma is that
swapping two elements keeps a permutation. `CallsAreAtomic` is the refinement:
a step inside a call changes nothing an observer between calls sees, and the
last one, by the invariant, delivers an element of `Shuffles`. ChunkLoop
configures with any element of that set; this is where it meets the shuffle.

**PerfGeometryProofs** holds what the walk owes to arithmetic alone. Every place of
the matrix lies on exactly one diagonal, `(row - col) % rows`, and
`RandomPermutationsGet` is injective on the matrix when both arrays are
permutations. `Passed` is the set of places on finished diagonals and on the
finished part of the current one: `NextOnWalk` adds the current place to it,
`WholeWalk` says that at the end it is the whole matrix, and `EveryBlockNamed` that
the matrix names every block of the file. On top of it stands what the two benchmarks
share: a configuration `main` accepts is a matrix of whole blocks (`AcceptedIsValid`),
the chunks of a loop (`LoopBegins`, `NextChunk`, `LoopAdvances`, `LoopEnds`), what a
write does to the units of the file (`OverwriteEffect`, `ChunkExtends`) and that a loop
which comes to its end has written all of them (`LoopWritesFile`). `SumOfEqualTerms` is
about a mean: a fold that adds the same number for each member of a finite set. It is
argued from a smallest counterexample, by the well-foundedness of `<` on `Nat`, since
the theorems on induction have an operator parameter.

**BlockWalkProofs**, the walk. `BenchImplementsCalls`: a benchmark's steps are steps of
RandomPermutations or leave its variables alone, so its invariant holds here too, and
the walk finds permutations for the matrix of its file. `WalkInvariant` (`[]IInv`), from
it `ReadsShuffled`, `NoRepetition` and `Coverage`. `IInv` ties the loop variables together
(`total = row_start * cols + col`, and the current place lies on diagonal
`row_start`) and describes `visited` as the image of the places passed. The next
block is therefore new, and once `row_start = rows` every block has been visited.
The proof needs `Accepted`: without the check of `main` the last blocks would be
left out.

**LfsPerfProofs.** `HandlesClosed` needs only where a file may be open. The others
need to know what a loop has done so far, in three parts of `IInv`: `LoopInv` (what
`total` counts is whole chunks, and at random they are the places passed),
`WrittenInv` (in the handle every unit of these chunks carries this iteration's
tag), `WholeInv` (from the end of the loop to the close the handle holds the whole
file). A write changes the units of its own chunk only (`OverwriteEffect`), and the
walk of PerfGeometryProofs makes the last chunk complete the file
(`LoopWritesFile`); the close then puts the handle on the volume, which is
`SuccessIsOnVolume` (`CompleteWriteIsOnVolume`). `ReadStaysInside`
(`ShortReadMeansBadWrite`) follows from it: a place of the walk names a block
inside the file. `TypeCorrect` rests on the same invariant, because the arrays may
only be indexed within their prefix. `MeansAreWhole` (`MeansOfWholePasses`) adds
`StatsInv`: a statistic with its success flag set is that of a whole file in one unit of
time. The mean over the successes is then a sum of equal terms over their number, and
the rate is 0 exactly if there is none.

**FatPerfProofs.** `FilesClosed` (`ReturnsWithFileClosed`), by the places where a
file may be open. `CleanRunsHonest` (`CleanRunIsHonest`), `SeeksStayInside`
(`SeekInsideFile`), `UnmountedUnlessFailed` (`LeavesMountedOnlyOnFailure`) and
`TypeCorrect` share one invariant, since each depends on the others. Besides the loop, as
in LfsPerf, it follows two things through the program:

* the length of the file on the card. From the first configuration on it never shrinks
  (`DiskGrows`), because an open file is never shorter than what the card holds
  (`FileInv`). A sequential pass fills it or has met a failing call at each of the two
  points where the file is committed, so that after i iterations the file has its full
  length or 2i calls have failed (`SequentialInv`); the last iteration leaves that to all
  later configurations (`FinishedInv`), and `SequentialFirst` gives every random one
  such a predecessor. This is why the bound is `2 * TEST_ITERATIONS` and no less;
* what an early return hands to `main`. A write that stores less than a block has met an
  error or the end of the card, a read that delivers less has met an error or a file that
  is too short (`ResultInv`); a result of 0, which `main` takes for success, therefore
  needs a failed call or a card without room. Without either every pass is whole
  (`CleanInv`, `SpeedsInv`), and the means are sums of equal terms, as in LfsPerf.

**HandoverPerfProofs.** `FatImplements` is a refinement: under the mapping FP, with one
sequential and one random configuration of the same file, `fat_pc` for the place in `main`
and arrays that count as not shuffled before the first round, each step of the FAT program
is a step of `FatPerf`, or a stutter. `main` shuffles once and FatPerf for each
configuration; the second shuffle there may leave what it finds (`Reshuffled`), since the
rounds have the same matrix. `SeeksStayInside` (`SeekInsideFile`) and the FAT half of
`CleanRunsHonest` (`CleanRunIsHonest`) then come from the invariant of FatPerf. The
littlefs program is no run of LfsPerf, because it takes its means over all iterations and
reports them by round; but the invariant of LfsPerf does not speak of the reports, and
under the mapping LP every other step is one of LfsPerf, so that each keeps it
(`LfsStepKeeps`). What the handover program adds rests on that:

* `SequentialInv`: once the old file is removed, a sequential write of any length, whole
  or cut short, begins where the last one ended, so that the file has no hole and no unit
  of anyone else; and a read which counts up to the size has met a file of that length.
  That is `SequentialReads` (`SequentialReadVouches`), for any number of failing calls. A
  random write may leave holes, which is why the property says nothing of that round;
* `CleanInv`, `SpeedsInv`, `ReportsInv`: without a failing call and with room for the file
  every chunk is whole (`NoShortWrite`, `NoShortRead`), so every pass is, and every mean
  is one of equal terms. Without room this fails, short writes being no failure, and
  `CleanRunIsHonest` has that condition.

`ControlInv` says where `main` may be, with which arrays and which reports.

**SettingsPerfProofs.** `PassIsStored`: the semaphore is given once, behind
the loops that save, so the test thread that takes it finds every setting stored
with the value of the last round, and nobody saving any more. `StatisticsAgree`: the time stamps
partition the time from the first to the last, so the single saves cannot exceed
it.

**SettingsSampleProofs.** `OnceABoot` (`CountsOnceABoot`, an action property) and
`InjectedStays` (`InjectedNotSaved`). `Counting` follows a counter through the boot: after
the load its destination is what was stored at boot, from then on destination and storage
hold that value or its successor, and each statement that counts on is reached
with the destination not yet counted. Once the voltage has been loaded again, every
destination is what is stored or its successor, so that an export sets nothing back;
before that the storage is still as at boot (`Untouched`), except for the voltage.
`LengthsDrift` (`DriftBounded`), as long as no read fails: between the second
export's save of `length/1` and that of `length/2` the stored pair is torn, and
everywhere else it is as far from the invariant sum as there were power cuts and lost
saves. `SecondExport` follows that export key by key: a pair torn by a cut or a lost save
has been paid for when the next boot counts both lengths on. `CleanRunsWork` (`CleanRun`)
is about runs in which no call fails: the keys of the subtree that an export has not yet
saved are those still in its list (`LengthsThere`), so the direct load finds all of them,
and `gamma` is one behind the boots up to its save and equal to them behind it
(`GammaCounts`). `TypeCorrect` (`TypeOK`) keeps each key, `gamma` included, within its width, in its
destination and in the storage.

**FsSampleProofs**, the FAT samples. Follows the open file through a round of the
samples, and through `ppt_main`. `MatchIsWritten` (`MatchMeansWritten`): in the first
boot every unit of the file, and of what is read from it, is older than the round until
the write has taken the whole text (`OlderInv`), so the number of the round, which is
not older, cannot be read before. `CleanRounds` (`CleanRoundMatches`): the write is at
the start of the file, where the text replaces the one before, and the seek goes back
there (`CleanInv`). `WorkArea` (`WorkAreaOfOpenFile`): a file is open only in a round
and in `ppt_main` after its mount, so no other volume is mounted meanwhile (`FileInv`).
`TextStays` (`TextSurvives`) is about the volume and needs the open file with it: what
is kept on the volume is also in the open file, since a close or a power cut may put
either there (`KeptInv`), and `ppt_main` writes a beginning of the text at the start of
the file or behind a whole text, never into one (`PptInv`). The lemmas in front say what
a write does to a sequence of units at any position (`SpliceEffect`), when it leaves a
text whole (`WholeTextStays`) and what a read delivers (`ReadDelivers`).

**FsSampleProofs**, the boot counter. `CounterCountsCommits` (`CountsCommits`) is
inductive only together with what the local variable and the open file hold on the way
from the read to the close (`ValueOnItsWay`), with the fact that a boot commits at most
once (`CountedOnce`), and with what a result of 0 implies (`ResultsTell`): a close of a
file that still holds the stored value follows an error, or a write that stored nothing.
From the
same invariant follow `SuccessMeansCounted` (`ReportedMeansCounted`), `BootIsClean`
(`CleanBoot`) and `BootTypesCorrect` (`BootTypeOK`).

*Only model-checked.* Liveness (`EveryCaseReported`, `TestEnds`), which is out of the
prover's reach. Every invariant and every action property of the runs that pass is
stated by a theorem.

## 7. Not modelled

Printing, logging, cache maintenance, the contents of buffers with
`CHECK_READ_DATA` (0 in both benchmarks), `get_random` (compiled out), the times
measured by the benchmarks, `print_fatfs_info` and `statvfs` beyond their failing,
the commit callbacks and `settings_runtime_get` of the sample (they only log).

* *The functional, FCB, file, NVS, ZMS and unit tests of settings.* They are
  straight-line: save, load, compare. What is hard in them (sectors and their
  compression, the lines of the settings file, dispatch to handlers) happens in the
  settings subsystem of Zephyr, which is not in the repository; a model of it could
  not be compared with any source here.
* *`direct_fatfs.c`.* Commented out in `CMakeLists.txt`; a list of calls whose
  results it prints, with no state in between.
* *Build files, overlays, configurations.* What they select is a constant.

## 8. Plan

Done, in this order: the arithmetic and the shuffle, the walk and its proofs, the
two benchmarks, the settings sample, the boot counter, the FAT samples; then the
settings performance test, the handover programs, `ppt_main.c`, both backends of the
settings sample; then the proofs about FatPerf, the samples and the handover programs.

Left: a clock for the benchmarks, so that the time of a pass (the last line of section 4)
can be spoken of.
