----------------------------- MODULE SettingsPerf -----------------------------
(***************************************************************************)
(* settings/test/performance: the test thread fills the settings, hands a  *)
(* work item to a queue with a thread of its own, and waits for its        *)
(* semaphore, TEST_TIMEOUT_SEC at the longest.  The work item saves every  *)
(* setting TEST_STORE_ITR times, measures each save and the whole, and     *)
(* gives the semaphore.                                                    *)
(*                                                                         *)
(* The two threads interleave at every step, which allows more than their  *)
(* cooperative priorities do on one processor: there the test thread runs  *)
(* when a save sleeps.  The clock interrupt, which also ends the wait, may *)
(* come at any time.                                                       *)
(***************************************************************************)
EXTENDS Integers

CONSTANTS
  TEST_SETTINGS_COUNT,   \* 128
  TEST_STORE_ITR,        \* 5
  TIMEOUT,               \* TEST_TIMEOUT_SEC, in ticks
  UINT32_MAX,            \* above any time measured
  MAX_TIME,              \* bound: ticks while the test does not wait
  MAX_FAULTS             \* bound: calls that fail

ASSUME SettingsPerfAssumption ==
  /\ TEST_SETTINGS_COUNT \in Nat \ {0} /\ TEST_STORE_ITR \in Nat \ {0}
  /\ TIMEOUT \in Nat \ {0} /\ MAX_TIME \in Nat /\ MAX_FAULTS \in Nat
  /\ UINT32_MAX \in Nat /\ UINT32_MAX > MAX_TIME + TIMEOUT

VARIABLES
  now,             \* the clock, k_uptime_get
  test, deadline,  \* the test thread: its place, and when its wait ends
  verdict,         \* what ztest reports of it
  filled,          \* settings filled so far
  sem,             \* count of waitfor_work
  work,            \* the work queue's thread: its place in store_pending
  j, i,            \* its loop variables
  ts1, ts2,        \* its time stamps
  stats,           \* its statistics
  test_settings,   \* the values
  storage,         \* the settings as saved; -1 for none
  faults

testvars == <<test, deadline, verdict, filled>>
workvars == <<work, j, i, ts1, ts2, stats>>
vars == <<now, testvars, sem, workvars, test_settings, storage, faults>>

Settings == 0 .. TEST_SETTINGS_COUNT - 1

NoStats ==
  [total_calculated |-> 0, total_measured |-> 0,
   single_entry_max |-> 0, single_entry_min |-> UINT32_MAX]

TypeOK ==
  /\ now \in Nat
  /\ test \in {"setup", "fill", "submit", "take", "wait", "timedout", "taken", "done"}
  /\ deadline \in Nat
  /\ verdict \in {"none", "pass", "fail"}
  /\ filled \in 0 .. TEST_SETTINGS_COUNT
  /\ sem \in 0 .. 1
  /\ work \in {"idle", "queued", "entry", "save", "measure", "give", "ended"}
  /\ j \in 0 .. TEST_STORE_ITR /\ i \in 0 .. TEST_SETTINGS_COUNT
  /\ ts1 \in Nat /\ ts2 \in Nat
  /\ stats \in [total_calculated : Nat, total_measured : Nat,
                single_entry_max : Nat, single_entry_min : Nat]
  /\ test_settings \in [Settings -> Nat]
  /\ storage \in [Settings -> Nat \union {-1}]
  /\ faults \in 0 .. MAX_FAULTS

Init ==
  /\ now = 0
  /\ test = "setup" /\ deadline = 0 /\ verdict = "none" /\ filled = 0
  /\ sem = 0
  /\ work = "idle" /\ j = 0 /\ i = 0 /\ ts1 = 0 /\ ts2 = 0 /\ stats = NoStats
  /\ test_settings = [s \in Settings |-> 0]
  /\ storage = [s \in Settings |-> -1]
  /\ faults = 0

Works == UNCHANGED faults
Fails == faults < MAX_FAULTS /\ faults' = faults + 1

\* A tick of the clock; the tick at the deadline ends the wait (external).
Tick ==
  /\ now < (IF test = "wait" THEN deadline ELSE MAX_TIME)
  /\ now' = now + 1
  /\ test' = IF test = "wait" /\ now + 1 = deadline THEN "timedout" ELSE test
  /\ UNCHANGED <<deadline, verdict, filled, sem, workvars, test_settings, storage, faults>>

-----------------------------------------------------------------------------
\* The test thread.  A failing assertion ends it with a failed test.
Passes == test' = "done" /\ verdict' = "pass"
Asserts == test' = "done" /\ verdict' = "fail"

\* The queue, Bluetooth scanning in the _bt variants, and the settings.
Setup ==
  /\ test = "setup"
  /\ \/ Works /\ test' = "fill" /\ UNCHANGED verdict
     \/ Fails /\ Asserts
  /\ UNCHANGED <<now, deadline, filled, sem, workvars, test_settings, storage>>

Fill ==
  /\ test = "fill"
  /\ filled < TEST_SETTINGS_COUNT
  /\ test_settings' = [test_settings EXCEPT ![filled] = filled]
  /\ filled' = filled + 1
  /\ UNCHANGED <<now, test, deadline, verdict, sem, workvars, storage, faults>>

Filled ==
  /\ test = "fill"
  /\ filled = TEST_SETTINGS_COUNT
  /\ test' = "submit"
  /\ UNCHANGED <<now, deadline, verdict, filled, sem, workvars, test_settings, storage, faults>>

\* k_work_reschedule_for_queue with K_NO_WAIT.
Submit ==
  /\ test = "submit"
  /\ work' = "queued"
  /\ test' = "take"
  /\ UNCHANGED <<now, deadline, verdict, filled, sem, j, i, ts1, ts2, stats,
                 test_settings, storage, faults>>

\* Mutant of Take: K_FOREVER.
TakeForever ==
  /\ test = "take"
  /\ IF sem > 0 THEN sem' = sem - 1 /\ test' = "taken" ELSE sem' = sem /\ test' = "wait"
  /\ deadline' = 0
  /\ UNCHANGED <<now, verdict, filled, workvars, test_settings, storage, faults>>

\* k_sem_take.
Take ==
  /\ test = "take"
  /\ \/ /\ sem > 0
        /\ sem' = sem - 1
        /\ test' = "taken"
        /\ UNCHANGED deadline
     \/ /\ sem = 0
        /\ test' = "wait"
        /\ deadline' = now + TIMEOUT
        /\ UNCHANGED sem
  /\ UNCHANGED <<now, verdict, filled, workvars, test_settings, storage, faults>>

\* Mutant of TimedOut: the result of k_sem_take is not looked at.
TimedOutIgnored ==
  /\ test = "timedout"
  /\ Passes
  /\ UNCHANGED <<now, deadline, filled, sem, workvars, test_settings, storage, faults>>

\* The test thread runs again after its wait has ended with -EAGAIN.
TimedOut ==
  /\ test = "timedout"
  /\ Asserts
  /\ UNCHANGED <<now, deadline, filled, sem, workvars, test_settings, storage, faults>>

\* It runs again with the semaphore; to stop scanning may fail.
Taken ==
  /\ test = "taken"
  /\ \/ Works /\ Passes
     \/ Fails /\ Asserts
  /\ UNCHANGED <<now, deadline, filled, sem, workvars, test_settings, storage>>

TestThread ==
  Setup \/ Fill \/ Filled \/ Submit \/ Take \/ TimedOut \/ Taken

-----------------------------------------------------------------------------
\* store_pending, in the thread of the queue.
Begin ==
  /\ work = "queued"
  /\ ts1' = now
  /\ j' = 0 /\ i' = 0
  /\ stats' = NoStats
  /\ work' = "entry"
  /\ UNCHANGED <<now, testvars, sem, ts2, test_settings, storage, faults>>

\* The head of the loops: the value of the next setting, and its first stamp.
Value == TEST_SETTINGS_COUNT * j + i

Entry ==
  /\ work = "entry"
  /\ i < TEST_SETTINGS_COUNT /\ j < TEST_STORE_ITR
  /\ test_settings' = [test_settings EXCEPT ![i] = Value]
  /\ ts2' = now
  /\ work' = "save"
  /\ UNCHANGED <<now, testvars, sem, j, i, ts1, stats, storage, faults>>

NextRound ==
  /\ work = "entry"
  /\ i = TEST_SETTINGS_COUNT /\ j < TEST_STORE_ITR
  /\ j' = j + 1 /\ i' = 0
  /\ UNCHANGED <<now, testvars, sem, work, ts1, ts2, stats, test_settings, storage, faults>>

\* settings_save_one returns.
Save ==
  /\ work = "save"
  /\ Works
  /\ storage' = [storage EXCEPT ![i] = test_settings[i]]
  /\ work' = "measure"
  /\ UNCHANGED <<now, testvars, sem, j, i, ts1, ts2, stats, test_settings>>

\* The assertion fails in the thread of the queue: ztest ends the test, if it
\* still runs, and this thread.
SaveFails ==
  /\ work = "save"
  /\ Fails
  /\ work' = "ended"
  /\ IF test = "done" THEN UNCHANGED <<test, verdict>> ELSE Asserts
  /\ UNCHANGED <<now, deadline, filled, sem, j, i, ts1, ts2, stats, test_settings, storage>>

Larger(a, b) == IF a < b THEN b ELSE a
Smaller(a, b) == IF a < b THEN a ELSE b

\* Mutants of Measure: the difference is taken the wrong way round; the stamp
\* is that of the whole run.
MeasureNegative ==
  /\ work = "measure"
  /\ LET delta2 == ts2 - now IN
       stats' = [stats EXCEPT
         !.single_entry_max = Larger(@, delta2),
         !.single_entry_min = Smaller(@, delta2),
         !.total_calculated = @ + delta2]
  /\ ts2' = now
  /\ i' = i + 1
  /\ work' = "entry"
  /\ UNCHANGED <<now, testvars, sem, j, ts1, test_settings, storage, faults>>

MeasureFromStart ==
  /\ work = "measure"
  /\ LET delta2 == now - ts1 IN
       stats' = [stats EXCEPT
         !.single_entry_max = Larger(@, delta2),
         !.single_entry_min = Smaller(@, delta2),
         !.total_calculated = @ + delta2]
  /\ ts2' = now
  /\ i' = i + 1
  /\ work' = "entry"
  /\ UNCHANGED <<now, testvars, sem, j, ts1, test_settings, storage, faults>>

\* k_uptime_delta also moves the stamp.
Measure ==
  /\ work = "measure"
  /\ LET delta2 == now - ts2 IN
       stats' = [stats EXCEPT
         !.single_entry_max = Larger(@, delta2),
         !.single_entry_min = Smaller(@, delta2),
         !.total_calculated = @ + delta2]
  /\ ts2' = now
  /\ i' = i + 1
  /\ work' = "entry"
  /\ UNCHANGED <<now, testvars, sem, j, ts1, test_settings, storage, faults>>

LoopsEnd ==
  /\ work = "entry"
  /\ j = TEST_STORE_ITR
  /\ stats' = [stats EXCEPT !.total_measured = now - ts1]
  /\ ts1' = now
  /\ work' = "give"
  /\ UNCHANGED <<now, testvars, sem, j, i, ts2, test_settings, storage, faults>>

\* k_sem_give wakes the waiting thread or else counts, up to the limit of 1.
Give ==
  /\ work = "give"
  /\ IF test = "wait"
       THEN test' = "taken" /\ UNCHANGED sem
       ELSE sem' = 1 /\ UNCHANGED test
  /\ work' = "ended"
  /\ UNCHANGED <<now, deadline, verdict, filled, j, i, ts1, ts2, stats,
                 test_settings, storage, faults>>

WorkThread ==
  Begin \/ Entry \/ NextRound \/ Save \/ SaveFails \/ Measure \/ LoopsEnd \/ Give

Next == Tick \/ TestThread \/ WorkThread

\* The clock runs and the test thread is scheduled.  The thread of the queue has
\* the higher, cooperative priority: it leaves the processor while a save sleeps
\* and when it is done.  A save may sleep for ever, so nothing is assumed of it.
Spec == Init /\ [][Next]_vars /\ WF_vars(Tick) /\ WF_vars(TestThread)

-----------------------------------------------------------------------------
\* A passed test means what it says: every setting is stored with the value of
\* the last round.  The wait may end by the give, by the timeout, or by the
\* timeout just before a late give; the fill and the work item share the array.
PassMeansStored ==
  verdict = "pass" =>
    \A s \in Settings : storage[s] = TEST_SETTINGS_COUNT * (TEST_STORE_ITR - 1) + s

\* The statistics printed agree with each other: the single saves are disjoint
\* parts of the whole, and lie between their extremes.
Saves == TEST_SETTINGS_COUNT * TEST_STORE_ITR

StatsAgree ==
  work = "give" =>
    /\ stats.total_calculated <= stats.total_measured
    /\ stats.single_entry_min * Saves <= stats.total_calculated
    /\ stats.total_calculated <= stats.single_entry_max * Saves

\* The test ends even if the work item never does.
TestEnds == <>(verdict # "none")
=============================================================================
