-------------------------- MODULE SettingsPerfProofs --------------------------
(***************************************************************************)
(* For any number of settings and rounds, any timeout and any number of    *)
(* failing saves: a test that passes has stored every setting with the     *)
(* value of the last round, and the statistics it prints agree.            *)
(*                                                                         *)
(* The argument: the semaphore is given once, behind the loops, and the    *)
(* test can pass only with it; the loops have then stored every setting.   *)
(* For the statistics, the saves measured so far lie between the first     *)
(* stamp and the last one.                                                 *)
(***************************************************************************)
EXTENDS SettingsPerf, TLAPS

-----------------------------------------------------------------------------
\* Stamps are never ahead of the clock.
StampsPast == ts1 <= now /\ ts2 <= now

\* Until the work item is submitted its thread is idle; the array belongs to
\* the test before and to the work item from then on.
Ordered ==
  /\ test \in {"setup", "fill", "submit"} => work = "idle"
  /\ work \in {"entry", "save", "measure", "give", "ended"} => test \notin {"setup", "fill", "submit"}
  /\ work \in {"entry", "save", "measure"} => (work # "entry" => i < TEST_SETTINGS_COUNT /\ j < TEST_STORE_ITR)
  /\ work = "entry" /\ j = TEST_STORE_ITR => i = 0

\* What the rounds have stored: this round's values up to the place of the
\* loop, and those of the round before behind it.
InRound(s, r) == storage[s] = TEST_SETTINGS_COUNT * r + s

Reached(s) == s < i \/ (work = "measure" /\ s = i)

StoredSoFar ==
  /\ work \in {"entry", "save", "measure"} =>
       \A s \in Settings :
         /\ Reached(s) => InRound(s, j)
         /\ ~Reached(s) /\ j > 0 => InRound(s, j - 1)
  /\ work = "save" => test_settings[i] = TEST_SETTINGS_COUNT * j + i

AllStored == \A s \in Settings : InRound(s, TEST_STORE_ITR - 1)

\* The semaphore stands for finished loops, wherever it has gone.
GivenMeansStored ==
  /\ work = "give" => AllStored
  /\ sem > 0 \/ test = "taken" \/ verdict = "pass" => work = "ended" /\ AllStored

\* The sums while the loops run.
Measured == TEST_SETTINGS_COUNT * j + i

StatsSoFar ==
  /\ work = "entry" => stats.total_calculated <= now - ts1
  /\ work \in {"save", "measure"} => ts1 <= ts2 /\ stats.total_calculated <= ts2 - ts1
  /\ work \in {"entry", "save", "measure"} =>
       /\ stats.single_entry_min * Measured <= stats.total_calculated
       /\ stats.total_calculated <= stats.single_entry_max * Measured

IInv ==
  /\ TypeOK /\ StampsPast /\ Ordered
  /\ StoredSoFar /\ GivenMeansStored
  /\ StatsSoFar /\ StatsAgree

-----------------------------------------------------------------------------
LEMMA Types ==
  /\ TEST_SETTINGS_COUNT \in Nat /\ TEST_SETTINGS_COUNT > 0
  /\ TEST_STORE_ITR \in Nat /\ TEST_STORE_ITR > 0
  /\ TIMEOUT \in Nat /\ UINT32_MAX \in Nat /\ MAX_FAULTS \in Nat
BY SettingsPerfAssumption

LEMMA InitInv == Init => IInv
<1> SUFFICES ASSUME Init PROVE IInv
  OBVIOUS
<1>1. TypeOK /\ StampsPast
  BY Types DEF Init, TypeOK, StampsPast, NoStats
<1>2. Ordered /\ StoredSoFar /\ GivenMeansStored /\ StatsSoFar /\ StatsAgree
  BY DEF Init, Ordered, StoredSoFar, GivenMeansStored, StatsSoFar, StatsAgree
<1> QED
  BY <1>1, <1>2 DEF IInv

-----------------------------------------------------------------------------
\* Types, stamps and the order of the two threads.
LEMMA MeasureTypes ==
  ASSUME IInv, Measure
  PROVE  /\ stats' \in [total_calculated : Nat, total_measured : Nat,
                        single_entry_max : Nat, single_entry_min : Nat]
         /\ stats'.total_calculated = stats.total_calculated + (now - ts2)
         /\ stats'.single_entry_max = Larger(stats.single_entry_max, now - ts2)
         /\ stats'.single_entry_min = Smaller(stats.single_entry_min, now - ts2)
<1>1. now - ts2 \in Nat
  BY DEF IInv, TypeOK, StampsPast
<1>2. stats \in [total_calculated : Nat, total_measured : Nat,
                 single_entry_max : Nat, single_entry_min : Nat]
  BY DEF IInv, TypeOK
<1>3. /\ Larger(stats.single_entry_max, now - ts2) \in Nat
      /\ Smaller(stats.single_entry_min, now - ts2) \in Nat
      /\ stats.total_calculated + (now - ts2) \in Nat
  BY <1>1, <1>2 DEF Larger, Smaller
<1>4. stats' = [stats EXCEPT
                  !.single_entry_max = Larger(@, now - ts2),
                  !.single_entry_min = Smaller(@, now - ts2),
                  !.total_calculated = @ + (now - ts2)]
  BY DEF Measure
<1> QED
  BY <1>2, <1>3, <1>4

LEMMA TypesKept ==
  ASSUME IInv, [Next]_vars
  PROVE  TypeOK' /\ StampsPast' /\ Ordered'
<1> USE Types DEF IInv, TypeOK, StampsPast, Ordered, Settings
<1>1. CASE Tick
  BY <1>1 DEF Tick, workvars
<1>2. CASE TestThread
  <2>1. CASE Setup
    BY <2>1 DEF Setup, Works, Fails, Asserts, workvars
  <2>2. CASE Fill
    <3>1. filled \in Settings /\ filled \in Nat
      BY <2>2 DEF Fill
    <3>2. test_settings' \in [Settings -> Nat]
      BY <2>2, <3>1 DEF Fill
    <3> QED
      BY <2>2, <3>2 DEF Fill, workvars
  <2>3. CASE Filled
    BY <2>3 DEF Filled, workvars
  <2>4. CASE Submit
    BY <2>4 DEF Submit
  <2>5. CASE Take
    BY <2>5 DEF Take, workvars
  <2>6. CASE TimedOut
    BY <2>6 DEF TimedOut, Asserts, workvars
  <2>7. CASE Taken
    BY <2>7 DEF Taken, Works, Fails, Passes, Asserts, workvars
  <2> QED
    BY <1>2, <2>1, <2>2, <2>3, <2>4, <2>5, <2>6, <2>7 DEF TestThread
<1>3. CASE WorkThread
  <2>1. CASE Begin
    BY <2>1 DEF Begin, NoStats, testvars
  <2>2. CASE Entry
    <3>1. Value \in Nat /\ i \in Settings
      BY <2>2 DEF Entry, Value
    <3>2. test_settings' \in [Settings -> Nat]
      BY <2>2, <3>1 DEF Entry
    <3> QED
      BY <2>2, <3>2 DEF Entry, testvars
  <2>3. CASE NextRound
    BY <2>3 DEF NextRound, testvars
  <2>4. CASE Save
    <3>1. storage' \in [Settings -> Nat \union {-1}]
      BY <2>4 DEF Save
    <3> QED
      BY <2>4, <3>1 DEF Save, Works, testvars
  <2>5. CASE SaveFails
    BY <2>5 DEF SaveFails, Fails, Asserts
  <2>6. CASE Measure
    <3>1. stats' \in [total_calculated : Nat, total_measured : Nat,
                      single_entry_max : Nat, single_entry_min : Nat]
      BY <2>6, MeasureTypes
    <3>2. /\ work = "measure" /\ work' = "entry" /\ i' = i + 1 /\ ts2' = now
          /\ UNCHANGED <<now, testvars, sem, j, ts1, test_settings, storage, faults>>
      BY <2>6 DEF Measure
    <3>3. i' \in 0 .. TEST_SETTINGS_COUNT /\ j < TEST_STORE_ITR
      BY <3>2
    <3> QED
      BY <3>1, <3>2, <3>3 DEF testvars
  <2>7. CASE LoopsEnd
    <3>1. now - ts1 \in Nat
      OBVIOUS
    <3>2. stats' \in [total_calculated : Nat, total_measured : Nat,
                      single_entry_max : Nat, single_entry_min : Nat]
      BY <2>7, <3>1 DEF LoopsEnd
    <3>3. /\ work = "entry" /\ work' = "give" /\ ts1' = now
          /\ UNCHANGED <<now, testvars, sem, j, i, ts2, test_settings, storage, faults>>
      BY <2>7 DEF LoopsEnd
    <3>4. TypeOK'
      BY <3>2, <3>3 DEF testvars
    <3>5. StampsPast' /\ Ordered'
      BY <3>3 DEF testvars
    <3> QED
      BY <3>4, <3>5
  <2>8. CASE Give
    BY <2>8 DEF Give
  <2> QED
    BY <1>3, <2>1, <2>2, <2>3, <2>4, <2>5, <2>6, <2>7, <2>8 DEF WorkThread
<1>4. CASE UNCHANGED vars
  BY <1>4 DEF vars, testvars, workvars
<1> QED
  BY <1>1, <1>2, <1>3, <1>4 DEF Next

-----------------------------------------------------------------------------
\* The storage and the semaphore.  The array is filled before the work item
\* exists, so that a save finds the value its own round has put there.
LEMMA StoredKept ==
  ASSUME IInv, [Next]_vars
  PROVE  StoredSoFar' /\ GivenMeansStored'
<1> USE Types
<1> DEFINE C == TEST_SETTINGS_COUNT
<1>1. CASE Tick \/ UNCHANGED vars
  BY <1>1 DEF Tick, vars, testvars, workvars, IInv, StoredSoFar, GivenMeansStored,
              InRound, Reached, AllStored
<1>2. CASE TestThread
  <2>1. UNCHANGED <<storage, i, j>>
    BY <1>2 DEF TestThread, Setup, Fill, Filled, Submit, Take, TimedOut, Taken, workvars
  <2>2. /\ work' \in {"entry", "save", "measure"} => UNCHANGED <<work, test_settings>>
        /\ work' = "give" => work = "give"
    BY <1>2 DEF TestThread, Setup, Fill, Filled, Submit, Take, TimedOut, Taken, workvars,
                IInv, Ordered
  <2>3. StoredSoFar'
    BY <2>1, <2>2 DEF IInv, StoredSoFar, InRound, Reached
  <2>4. sem' > 0 \/ test' = "taken" \/ verdict' = "pass" =>
          /\ sem > 0 \/ test = "taken" \/ verdict = "pass"
          /\ UNCHANGED work
    BY <1>2 DEF TestThread, Setup, Fill, Filled, Submit, Take, TimedOut, Taken, workvars,
                Passes, Asserts, IInv, TypeOK, Ordered, GivenMeansStored
  <2> QED
    BY <2>1, <2>2, <2>3, <2>4 DEF IInv, GivenMeansStored, AllStored, InRound
<1>3. CASE WorkThread
  <2>0. work # "ended" /\ sem = 0 /\ test # "taken" /\ verdict # "pass"
    BY <1>3 DEF WorkThread, Begin, Entry, NextRound, Save, SaveFails, Measure, LoopsEnd,
                Give, IInv, TypeOK, GivenMeansStored
  <2>1. CASE Begin
    BY <2>0, <2>1 DEF Begin, testvars, IInv, TypeOK, StoredSoFar, GivenMeansStored,
                      InRound, Reached, Settings
  <2>2. CASE Entry
    <3>1. test_settings'[i] = C * j + i
      BY <2>2 DEF Entry, Value, IInv, TypeOK, Settings
    <3> QED
      BY <2>0, <2>2, <3>1 DEF Entry, testvars, IInv, StoredSoFar, GivenMeansStored,
                              InRound, Reached
  <2>3. CASE NextRound
    <3>1. j' = j + 1 /\ j \in Nat /\ i = C /\ i' = 0 /\ work = "entry" /\ work' = "entry"
      BY <2>3 DEF NextRound, IInv, TypeOK
    <3>2. \A s \in Settings : s < i /\ s >= 0
      BY <3>1 DEF Settings
    <3>3. \A s \in Settings : InRound(s, j)
      BY <3>1, <3>2 DEF IInv, StoredSoFar, Reached
    <3>4. j' - 1 = j
      BY <3>1
    <3>5. \A s \in Settings : storage'[s] = C * (j' - 1) + s
      BY <2>3, <3>3, <3>4 DEF NextRound, InRound
    <3>6. \A s \in Settings : ~Reached(s)'
      BY <3>1 DEF Reached, Settings
    <3>7. StoredSoFar'
      BY <3>1, <3>5, <3>6 DEF StoredSoFar, InRound
    <3> QED
      BY <2>0, <2>3, <3>1, <3>7 DEF NextRound, testvars, GivenMeansStored
  <2>4. CASE Save
    <3>1. i \in Settings /\ test_settings[i] = C * j + i
      BY <2>4 DEF Save, IInv, TypeOK, Ordered, StoredSoFar, Settings
    <3>2. /\ storage'[i] = C * j + i
          /\ \A s \in Settings : s # i => storage'[s] = storage[s]
      BY <2>4, <3>1 DEF Save, IInv, TypeOK
    <3>3. StoredSoFar'
      BY <2>4, <3>1, <3>2 DEF Save, IInv, StoredSoFar, InRound, Reached
    <3> QED
      BY <2>0, <2>4, <3>3 DEF Save, testvars, GivenMeansStored
  <2>5. CASE SaveFails
    BY <2>0, <2>5 DEF SaveFails, Asserts, StoredSoFar, GivenMeansStored
  <2>6. CASE Measure
    <3>1. /\ work = "measure" /\ work' = "entry" /\ i' = i + 1 /\ i \in Nat
          /\ UNCHANGED <<testvars, sem, j, test_settings, storage>>
      BY <2>6 DEF Measure, IInv, TypeOK
    <3>2. \A s \in Settings : s \in Int
      BY DEF Settings
    <3>3. \A s \in Settings : Reached(s)' <=> Reached(s)
      BY <3>1, <3>2 DEF Reached
    <3>4. StoredSoFar'
      BY <3>1, <3>3 DEF IInv, StoredSoFar, InRound
    <3> QED
      BY <2>0, <3>1, <3>4 DEF testvars, GivenMeansStored
  <2>7. CASE LoopsEnd
    <3>1. work = "entry" /\ j = TEST_STORE_ITR /\ i = 0
      BY <2>7 DEF LoopsEnd, IInv, Ordered
    <3>2. \A s \in Settings : ~Reached(s)
      BY <3>1 DEF Reached, Settings
    <3>3. AllStored
      BY <3>1, <3>2 DEF AllStored, IInv, StoredSoFar
    <3> QED
      BY <2>0, <2>7, <3>3 DEF LoopsEnd, testvars, StoredSoFar, GivenMeansStored,
                              AllStored, InRound
  <2>8. CASE Give
    BY <2>0, <2>8 DEF Give, IInv, StoredSoFar, GivenMeansStored, AllStored, InRound
  <2> QED
    BY <1>3, <2>1, <2>2, <2>3, <2>4, <2>5, <2>6, <2>7, <2>8 DEF WorkThread
<1> QED
  BY <1>1, <1>2, <1>3 DEF Next

-----------------------------------------------------------------------------
\* The statistics.  One more measurement keeps the sum between its extremes.
LEMMA ExtremesBound ==
  ASSUME NEW n \in Nat, NEW sum \in Nat, NEW d \in Nat, NEW lo \in Nat, NEW hi \in Nat,
         lo * n <= sum, sum <= hi * n
  PROVE  /\ Smaller(lo, d) * (n + 1) <= sum + d
         /\ sum + d <= Larger(hi, d) * (n + 1)
<1> DEFINE l == Smaller(lo, d)
           h == Larger(hi, d)
<1>1. l \in Nat /\ l <= lo /\ l <= d
  BY DEF Smaller
<1>2. h \in Nat /\ h >= hi /\ h >= d
  BY DEF Larger
<1> HIDE DEF l, h
<1>3. l * n <= lo * n /\ hi * n <= h * n
  BY <1>1, <1>2
<1>4. l * (n + 1) = l * n + l /\ h * (n + 1) = h * n + h
  BY <1>1, <1>2
<1>5. l * n \in Nat /\ lo * n \in Nat /\ hi * n \in Nat /\ h * n \in Nat
  BY <1>1, <1>2
<1>6. l * (n + 1) <= sum + d /\ sum + d <= h * (n + 1)
  BY <1>1, <1>2, <1>3, <1>4, <1>5
<1> QED
  BY <1>6 DEF l, h

LEMMA StatsKept ==
  ASSUME IInv, [Next]_vars
  PROVE  StatsSoFar' /\ StatsAgree'
<1> USE Types
<1>0. /\ now \in Nat /\ ts1 \in Nat /\ ts2 \in Nat /\ ts1 <= now /\ ts2 <= now
      /\ i \in Nat /\ j \in Nat /\ Measured \in Nat
      /\ stats \in [total_calculated : Nat, total_measured : Nat,
                    single_entry_max : Nat, single_entry_min : Nat]
  BY DEF IInv, TypeOK, StampsPast, Measured
<1>1. CASE Tick \/ TestThread \/ UNCHANGED vars
  <2>1. UNCHANGED <<i, j, ts1, ts2, stats>> /\ now' \in Nat /\ now' >= now
    BY <1>0, <1>1
       DEF Tick, TestThread, Setup, Fill, Filled, Submit, Take, TimedOut, Taken, vars,
           workvars
  <2>2. work' = work \/ work' = "queued"
    BY <1>1 DEF Tick, TestThread, Setup, Fill, Filled, Submit, Take, TimedOut, Taken, vars,
                workvars
  <2> QED
    BY <1>0, <2>1, <2>2 DEF IInv, StatsSoFar, StatsAgree, Measured
<1>2. CASE Begin
  BY <1>0, <1>2 DEF Begin, NoStats, StatsSoFar, StatsAgree, Measured
<1>3. CASE Entry
  BY <1>0, <1>3 DEF Entry, IInv, StatsSoFar, StatsAgree, Measured
<1>4. CASE NextRound
  <2>1. /\ Measured' = Measured
        /\ work = "entry" /\ work' = "entry" /\ UNCHANGED <<now, ts1, stats>>
    BY <1>0, <1>4 DEF NextRound, Measured
  <2> QED
    BY <2>1 DEF IInv, StatsSoFar, StatsAgree
<1>5. CASE Save \/ SaveFails \/ Give
  BY <1>0, <1>5 DEF Save, SaveFails, Give, IInv, StatsSoFar, StatsAgree, Measured
<1>6. CASE Measure
  <2>1. /\ stats'.total_calculated = stats.total_calculated + (now - ts2)
        /\ stats'.single_entry_max = Larger(stats.single_entry_max, now - ts2)
        /\ stats'.single_entry_min = Smaller(stats.single_entry_min, now - ts2)
    BY <1>6, MeasureTypes
  <2>2. /\ work = "measure" /\ work' = "entry"
        /\ i' = i + 1 /\ UNCHANGED <<now, ts1, j>>
    BY <1>6 DEF Measure
  <2>3. Measured' = Measured + 1
    BY <1>0, <2>2 DEF Measured
  <2>4. now - ts2 \in Nat /\ stats.total_calculated \in Nat
        /\ stats.single_entry_max \in Nat /\ stats.single_entry_min \in Nat
    BY <1>0
  <2>5. /\ stats.total_calculated <= ts2 - ts1
        /\ stats.single_entry_min * Measured <= stats.total_calculated
        /\ stats.total_calculated <= stats.single_entry_max * Measured
    BY <2>2 DEF IInv, StatsSoFar
  <2>6. /\ stats'.single_entry_min * Measured' <= stats'.total_calculated
        /\ stats'.total_calculated <= stats'.single_entry_max * Measured'
    <3>1. Measured \in Nat
      BY <1>0
    <3>2. /\ Smaller(stats.single_entry_min, now - ts2) * (Measured + 1)
               <= stats.total_calculated + (now - ts2)
          /\ stats.total_calculated + (now - ts2)
               <= Larger(stats.single_entry_max, now - ts2) * (Measured + 1)
      BY ONLY <2>4, <2>5, <3>1, ExtremesBound
    <3> QED
      BY <2>1, <2>3, <3>2
  <2>7. stats'.total_calculated <= now' - ts1'
    BY <1>0, <2>1, <2>2, <2>4, <2>5
  <2> QED
    BY <2>2, <2>6, <2>7 DEF StatsSoFar, StatsAgree
<1>7. CASE LoopsEnd
  <2>1. work = "entry" /\ j = TEST_STORE_ITR /\ i = 0 /\ work' = "give"
    BY <1>7 DEF LoopsEnd, IInv, Ordered
  <2>2. Measured = Saves
    BY <1>0, <2>1 DEF Measured, Saves
  <2>3. /\ stats'.total_measured = now - ts1
        /\ stats'.total_calculated = stats.total_calculated
        /\ stats'.single_entry_max = stats.single_entry_max
        /\ stats'.single_entry_min = stats.single_entry_min
    BY <1>0, <1>7 DEF LoopsEnd
  <2> QED
    BY <2>1, <2>2, <2>3 DEF IInv, StatsSoFar, StatsAgree, Saves
<1> QED
  BY <1>1, <1>2, <1>3, <1>4, <1>5, <1>6, <1>7 DEF Next, WorkThread

-----------------------------------------------------------------------------
LEMMA Invariance == Spec => []IInv
<1>1. IInv /\ [Next]_vars => IInv'
  BY TypesKept, StoredKept, StatsKept DEF IInv
<1> QED
  BY <1>1, InitInv, PTL DEF Spec

\* The loop variables stay inside the array and the times are never negative.
THEOREM TypeCorrect == Spec => []TypeOK
<1>1. IInv => TypeOK
  BY DEF IInv
<1> QED
  BY <1>1, Invariance, PTL

\* A test that passes has stored every setting with the value of the last
\* round, however the two threads and the timeout interleave.
THEOREM PassIsStored == Spec => []PassMeansStored
<1>1. IInv => PassMeansStored
  BY DEF IInv, GivenMeansStored, AllStored, InRound, PassMeansStored
<1> QED
  BY <1>1, Invariance, PTL

\* The statistics the work item prints are those of disjoint parts of the
\* whole, and lie between their extremes.
THEOREM StatisticsAgree == Spec => []StatsAgree
<1>1. IInv => StatsAgree
  BY DEF IInv
<1> QED
  BY <1>1, Invariance, PTL
=============================================================================
