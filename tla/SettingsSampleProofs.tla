------------------------- MODULE SettingsSampleProofs -------------------------
(***************************************************************************)
(* For counters of any width, any number of boots, power cuts and failing  *)
(* calls: a boot counts each stored value on once or not at all; the two   *)
(* lengths drift apart by one count at most for each power cut and each    *)
(* lost save; the value injected at run time never reaches the storage;    *)
(* and a run in which every call succeeds leaves what it should.           *)
(*                                                                         *)
(* The argument follows a counter through the boot: load makes its         *)
(* destination equal to the stored value, which is that at boot; from then *)
(* on both hold that value or its successor, and each of the statements    *)
(* that count on is reached once, with the destination not yet counted.    *)
(* For the lengths, and for the keys the direct load expects, it follows   *)
(* the export key by key as well.                                          *)
(***************************************************************************)
EXTENDS SettingsSample, SequenceTheorems, TLAPS

\* The state that does not depend on the values.
Control ==
  /\ DOMAIN ram = Destinations
  /\ unread \in Nat
  /\ pc \in {"init", "subsys", "load"} => ram = Defaults
  /\ unread = 0 /\ pc # "init" => ready
  /\ unread = 0 /\ pc \notin {"init", "subsys"} => registered

\* The injected text is in its destination only when main has nothing more to
\* save.
OwnText(t) == "injected" \in DOMAIN t /\ ~t.injected

TextsOwn ==
  /\ pc # "done" => OwnText(ram["source"])
  /\ "source" \in DOMAIN storage => OwnText(storage["source"])

\* A value that has been counted on at most once in this boot.
Once(k, v) == v \in {atBoot[k], NextValue(k, atBoot[k])}

\* Destinations that have not been counted on yet.
Uncounted ==
  CASE pc \in {"voltage", "reload"} -> Counters
    [] pc = "change"               -> {"angle", "length1", "length2"}
    [] pc = "save"                 -> {"length1", "length2"}
    [] OTHER                       -> {}

\* Counters whose stored value is still that at boot.
Untouched ==
  CASE pc \in {"load", "voltage"} -> Counters
    [] pc = "reload"             -> Counters \ {"voltage"}
    [] OTHER                     -> {}

\* Once the voltage has been loaded again, no destination is behind what is
\* stored: saving it sets nothing back.
BeforeReload == {"load", "voltage", "reload"}

Counting ==
  unread = 0 /\ pc \notin {"init", "subsys"} =>
    /\ pc # "load" => \A k \in Counters : Once(k, ram[k])
    /\ \A k \in Uncounted : ram[k] = atBoot[k]
    /\ \A k \in Counters : Once(k, Stored(k))
    /\ \A k \in Untouched : Stored(k) = atBoot[k]
    /\ \A k \in Counters : k \in DOMAIN storage \/ Stored(k) = atBoot[k]
    /\ pc \notin BeforeReload =>
         \A k \in Counters : ram[k] \in {Stored(k), NextValue(k, atBoot[k])}

IInv == Control /\ TextsOwn /\ Counting

-----------------------------------------------------------------------------
LEMMA Names ==
  /\ Counters \subseteq Destinations
  /\ "source" \in Destinations /\ "source" \notin Counters
  /\ "gamma" \notin Destinations /\ "length" \notin Counters
BY DEF Counters, Destinations

\* The default of the text, and of the others.
LEMMA DefaultSource == DOMAIN Defaults = Destinations /\ OwnText(Defaults["source"])
BY Names DEF Defaults, Text, OwnText

\* What the storage may hold after a save.
LEMMA SaveEffect ==
  ASSUME NEW k, NEW v, Save(k, v)
  PROVE  /\ unread' = unread
         /\ DOMAIN storage \subseteq DOMAIN storage'
         /\ \A key \in DOMAIN storage' :
              \/ key = k /\ storage'[key] = v
              \/ key \in DOMAIN storage /\ storage'[key] = storage[key]
<1>1. unread' = unread
  BY DEF Save, NoFault, Lost, faults
<1>2. CASE storage' = storage
  BY <1>1, <1>2
<1>3. CASE storage' = [j \in DOMAIN storage \union {k} |-> IF j = k THEN v ELSE storage[j]]
  BY <1>1, <1>3
<1> QED
  BY <1>2, <1>3 DEF Save

\* A save changes the stored value of its own key only, and it saves no other
\* text than the one it is given.
LEMMA SaveStores ==
  ASSUME NEW k, NEW v, Save(k, v)
  PROVE  /\ \A key : Stored(key)' = Stored(key) \/ (key = k /\ Stored(key)' = v)
         /\ "source" \in DOMAIN storage' =>
              \/ k = "source" /\ storage'["source"] = v
              \/ "source" \in DOMAIN storage /\ storage'["source"] = storage["source"]
BY SaveEffect DEF Stored

\* A load makes each counter equal to its stored value, or leaves it alone, and
\* brings no text but the stored one.
LEMMA LoadAssigns ==
  ASSUME NEW keys, DOMAIN ram = Destinations, unread \in Nat, Load(keys)
  PROVE  /\ DOMAIN ram' = Destinations
         /\ unread' = unread \/ unread' = unread + 1
         /\ \A key \in Destinations :
              \/ ram'[key] = ram[key]
              \/ key \in DOMAIN storage /\ ram'[key] = storage[key]
         /\ unread' = unread =>
              \A key \in Handled(keys) \intersect Destinations : ram'[key] = storage[key]
<1>1. PICK assigned \in SUBSET Handled(keys) :
        /\ IF assigned = Handled(keys) THEN NoFault ELSE Unread
        /\ ram' = [k \in Destinations |-> IF k \in assigned THEN storage[k] ELSE ram[k]]
  BY DEF Load
<1>2. Handled(keys) \subseteq DOMAIN storage
  BY DEF Handled, Delivered
<1>3. \A key \in Destinations :
         \/ ram'[key] = ram[key]
         \/ key \in DOMAIN storage /\ ram'[key] = storage[key]
  BY <1>1, <1>2
<1>4. CASE assigned = Handled(keys) /\ NoFault
  <2>1. \A key \in Destinations : key \in Handled(keys) => ram'[key] = storage[key]
    BY <1>1, <1>4
  <2> QED
    BY <1>1, <1>3, <1>4, <2>1 DEF NoFault, faults
<1>5. CASE Unread
  BY <1>1, <1>3, <1>5 DEF Unread
<1> QED
  BY <1>1, <1>4, <1>5

-----------------------------------------------------------------------------
LEMMA InitInv == Init => IInv
<1> SUFFICES ASSUME Init PROVE IInv
  OBVIOUS
<1>1. Control
  BY DefaultSource DEF Init, Control
<1>2. TextsOwn
  BY DefaultSource DEF Init, TextsOwn
<1>3. Counting
  BY DEF Init, Counting
<1> QED
  BY <1>1, <1>2, <1>3 DEF IInv

\* The counters are read and saved, one after the other.
LEMMA ControlKept == ASSUME IInv, [Next]_vars PROVE Control'
<1> USE DEF IInv, Control, Goto
<1>0. CASE PrepareVolume
  BY <1>0 DEF PrepareVolume, NoFault, Unread, faults, board
<1>1. CASE Initialize
  BY <1>1 DEF Initialize, NoFault, Unread, faults, board
<1>2. CASE LoadAll \/ Reload
  <2>1. \E keys : Load(keys)
    BY <1>2 DEF LoadAll, Reload
  <2>2. DOMAIN ram' = Destinations /\ (unread' = unread \/ unread' = unread + 1)
    BY <2>1, LoadAssigns
  <2> QED
    BY <1>2, <2>2 DEF LoadAll, Reload
<1>3. CASE SaveVoltage \/ Export \/ CountGamma
  <2>1. \E k, v : Save(k, v)
    BY <1>3 DEF SaveVoltage, Export, CountGamma
  <2>2. unread' = unread
    BY <2>1, SaveEffect
  <2> QED
    BY <1>3, <2>2 DEF SaveVoltage, Export, CountGamma
<1>4. CASE Change
  BY <1>4 DEF Change, faults
<1>5. CASE ChangeLengths
  BY <1>5 DEF ChangeLengths, faults
<1>6. CASE DirectLoad
  BY <1>6 DEF DirectLoad, NoFault, Unread, faults
<1>7. CASE DeleteLength
  BY <1>7 DEF DeleteLength, Delete, NoFault, Lost, faults
<1>8. CASE CountGammaUnread
  BY <1>8 DEF CountGammaUnread, Unread
<1>9. CASE Inject
  BY <1>9 DEF Inject, faults
<1>10. CASE PowerCycle
  BY <1>10, DefaultSource DEF PowerCycle, PowerOn
<1>11. CASE UNCHANGED vars
  BY <1>11 DEF vars, faults
<1> QED
  BY <1>0, <1>1, <1>2, <1>3, <1>4, <1>5, <1>6, <1>7, <1>8, <1>9, <1>10, <1>11
     DEF Next, Step

LEMMA TextsKept == ASSUME IInv, [Next]_vars PROVE TextsOwn'
<1> USE Names DEF IInv, TextsOwn, OwnText, Goto
<1>0. DOMAIN ram = Destinations /\ unread \in Nat
  BY DEF Control
<1>1. CASE PrepareVolume \/ Initialize
  BY <1>1 DEF PrepareVolume, Initialize, EraseSettingsFile
<1>2. CASE LoadAll \/ Reload
  <2>1. PICK keys : Load(keys)
    BY <1>2 DEF LoadAll, Reload
  <2>2. \/ ram'["source"] = ram["source"]
        \/ "source" \in DOMAIN storage /\ ram'["source"] = storage["source"]
    BY <1>0, <2>1, LoadAssigns
  <2> QED
    BY <1>2, <2>2 DEF LoadAll, Reload
<1>3. CASE SaveVoltage
  <2>1. Save("voltage", ram["voltage"] - 1) /\ UNCHANGED ram /\ pc # "done"
    BY <1>3 DEF SaveVoltage
  <2> QED
    BY <2>1, SaveStores
<1>4. CASE Export
  <2>1. PICK k : Save(k, ram[k]) /\ UNCHANGED <<ram, pc>> /\ pc # "done"
    BY <1>4 DEF Export
  <2> QED
    BY <2>1, SaveStores
<1>5. CASE CountGamma
  <2>1. PICK v : Save("gamma", v) /\ UNCHANGED ram /\ pc # "done"
    BY <1>5 DEF CountGamma
  <2> QED
    BY <2>1, SaveStores
<1>6. CASE Change
  <2>1. /\ ram'["source"] = GrownSource(ram["source"]) /\ UNCHANGED storage /\ pc # "done"
    BY <1>0, <1>6 DEF Change
  <2>2. OwnText(ram'["source"])
    BY <2>1 DEF GrownSource, OwnText
  <2> QED
    BY <2>1, <2>2
<1>7. CASE ChangeLengths
  <2>1. ram'["source"] = ram["source"] /\ UNCHANGED storage /\ pc # "done"
    BY <1>0, <1>7 DEF ChangeLengths
  <2> QED
    BY <2>1
<1>8. CASE DirectLoad
  BY <1>8 DEF DirectLoad
<1>9. CASE DeleteLength
  BY <1>9 DEF DeleteLength, Delete
<1>10. CASE CountGammaUnread
  BY <1>10 DEF CountGammaUnread
<1>11. CASE Inject
  BY <1>11 DEF Inject
<1>12. CASE PowerCycle
  BY <1>12, DefaultSource DEF PowerCycle, PowerOn
<1>13. CASE UNCHANGED vars
  BY <1>13 DEF vars
<1> QED
  BY <1>1, <1>2, <1>3, <1>4, <1>5, <1>6, <1>7, <1>8, <1>9, <1>10, <1>11, <1>12, <1>13
     DEF Next, Step

-----------------------------------------------------------------------------
\* The counters.  The steps that fail to read are outside Counting.
LEMMA CountingBefore ==
  ASSUME IInv, unread' = 0, pc \notin {"init", "subsys"},
         unread' = unread \/ unread' = unread + 1
  PROVE  /\ unread = 0 /\ unread' = unread /\ ready /\ registered
         /\ DOMAIN ram = Destinations
         /\ \A k \in Counters : Once(k, Stored(k))
         /\ pc # "load" => \A k \in Counters : Once(k, ram[k])
         /\ pc = "load" => ram = Defaults
         /\ \A k \in Uncounted : ram[k] = atBoot[k]
         /\ \A k \in Untouched : Stored(k) = atBoot[k]
         /\ \A k \in Counters : k \in DOMAIN storage \/ Stored(k) = atBoot[k]
         /\ pc \notin BeforeReload =>
              \A k \in Counters : ram[k] \in {Stored(k), NextValue(k, atBoot[k])}
BY DEF IInv, Control, Counting

\* Handlers assign every counter that is delivered, once they are registered.
LEMMA CountersHandled ==
  ASSUME ready, registered, NEW keys, NEW k \in keys \intersect Counters,
         k \in DOMAIN storage
  PROVE  k \in Handled(keys)
BY DEF Handled, Delivered, AlphaHandles, BetaHandles, Counters

LEMMA InitializeCounts == ASSUME IInv, PrepareVolume \/ Initialize PROVE Counting'
<1>1. CASE PrepareVolume
  BY <1>1 DEF PrepareVolume, Goto, Counting
<1>2. CASE Initialize
  <2>1. pc' = "load"
    BY <1>2 DEF Initialize, Goto
  <2>2. \A k \in Counters : Stored(k)' = atBoot'[k]
    BY <1>2 DEF Initialize, Stored
  <2>3. \A k \in Counters : Once(k, Stored(k))'
    BY <2>2 DEF Once
  <2> QED
    BY <2>1, <2>2, <2>3 DEF Counting, Uncounted, Untouched, BeforeReload
<1> QED
  BY <1>1, <1>2

\* The load makes every destination what is stored.
LEMMA LoadAllCounts == ASSUME IInv, LoadAll PROVE Counting'
<1> SUFFICES ASSUME unread' = 0 PROVE Counting'
  BY DEF Counting
<1>1. /\ pc = "load" /\ pc' = "voltage" /\ Load(Destinations)
      /\ UNCHANGED <<storage, atBoot>>
  BY DEF LoadAll, Goto
<1>2. DOMAIN ram = Destinations /\ unread \in Nat
  BY DEF IInv, Control
<1>3. unread' = unread \/ unread' = unread + 1
  BY <1>1, <1>2, LoadAssigns
<1>4. /\ unread' = unread /\ ready /\ registered /\ ram = Defaults
      /\ \A k \in Counters : Stored(k) = atBoot[k]
  BY <1>1, <1>3, CountingBefore DEF Untouched
<1>5. ASSUME NEW k \in Counters PROVE ram'[k] = Stored(k)
  <2>1. k \in Destinations
    BY Names
  <2>2. CASE k \in DOMAIN storage
    <3>1. k \in Handled(Destinations)
      BY <1>4, <2>1, <2>2, CountersHandled
    <3> QED
      BY <1>1, <1>2, <1>4, <2>1, <2>2, <3>1, LoadAssigns DEF Stored
  <2>3. CASE k \notin DOMAIN storage
    BY <1>1, <1>2, <1>4, <2>1, <2>3, LoadAssigns DEF Stored
  <2> QED
    BY <2>2, <2>3
<1>6. \A k \in Counters : Stored(k)' = atBoot'[k] /\ ram'[k] = atBoot'[k]
  BY <1>1, <1>4, <1>5 DEF Stored
<1>7. \A k \in Counters : Once(k, Stored(k))' /\ Once(k, ram[k])'
  BY <1>6 DEF Once
<1> QED
  BY <1>1, <1>6, <1>7 DEF Counting, Uncounted, Untouched, BeforeReload

\* The voltage is stored counted on, from a destination that is not.
LEMMA SaveVoltageCounts == ASSUME IInv, SaveVoltage PROVE Counting'
<1> SUFFICES ASSUME unread' = 0 PROVE Counting'
  BY DEF Counting
<1>1. /\ pc = "voltage" /\ pc' = "reload" /\ Save("voltage", ram["voltage"] - 1)
      /\ UNCHANGED <<ram, atBoot>>
  BY DEF SaveVoltage, Goto
<1>2. unread' = unread
  BY <1>1, SaveEffect
<1>3. /\ \A k \in Counters : Stored(k) = atBoot[k] /\ ram[k] = atBoot[k]
      /\ \A k \in Counters : Once(k, ram[k])
  BY <1>1, <1>2, CountingBefore DEF Uncounted, Untouched
<1>4. NextValue("voltage", atBoot["voltage"]) = ram["voltage"] - 1
  BY <1>3 DEF NextValue, Counters
<1>5. \A k \in Counters : Once(k, Stored(k))'
  BY <1>1, <1>3, <1>4, SaveStores DEF Once
<1>6. \A k \in Counters : Once(k, ram[k])' /\ ram'[k] = atBoot'[k]
  BY <1>1, <1>3 DEF Once
<1>7. \A k \in Counters \ {"voltage"} : Stored(k)' = atBoot'[k]
  BY <1>1, <1>3, SaveStores
<1>8. "voltage" \in DOMAIN storage' \/ Stored("voltage")' = atBoot'["voltage"]
  <2>1. "voltage" \in DOMAIN storage' \/ storage' = storage
    BY <1>1 DEF Save
  <2> QED
    BY <1>1, <1>3, <2>1 DEF Stored, Counters
<1> QED
  BY <1>1, <1>5, <1>6, <1>7, <1>8 DEF Counting, Uncounted, Untouched, BeforeReload

\* The reload takes the stored voltage over, and no other counter.
LEMMA ReloadCounts == ASSUME IInv, Reload PROVE Counting'
<1> SUFFICES ASSUME unread' = 0 PROVE Counting'
  BY DEF Counting
<1>1. /\ pc = "reload" /\ pc' = "change" /\ Load({"voltage", "source"})
      /\ UNCHANGED <<storage, atBoot>>
  BY DEF Reload, Goto
<1>2. DOMAIN ram = Destinations /\ unread \in Nat
  BY DEF IInv, Control
<1>3. unread' = unread \/ unread' = unread + 1
  BY <1>1, <1>2, LoadAssigns
<1>4. /\ unread' = unread /\ ready /\ registered
      /\ \A k \in Counters : Once(k, Stored(k)) /\ ram[k] = atBoot[k]
      /\ \A k \in Counters \ {"voltage"} : Stored(k) = atBoot[k]
      /\ \A k \in Counters : k \in DOMAIN storage \/ Stored(k) = atBoot[k]
  BY <1>1, <1>3, CountingBefore DEF Uncounted, Untouched
<1>5. ram'["voltage"] = Stored("voltage")
  <2>1. "voltage" \in Counters /\ "voltage" \in Destinations
    BY DEF Counters, Destinations
  <2>2. CASE "voltage" \in DOMAIN storage
    <3>1. "voltage" \in Handled({"voltage", "source"})
      BY <1>4, <2>1, <2>2, CountersHandled
    <3> QED
      BY <1>1, <1>2, <1>4, <2>1, <2>2, <3>1, LoadAssigns DEF Stored
  <2>3. CASE "voltage" \notin DOMAIN storage
    BY <1>1, <1>2, <1>4, <2>1, <2>3, LoadAssigns
  <2> QED
    BY <2>2, <2>3
<1>6. \A k \in {"angle", "length1", "length2"} : ram'[k] = ram[k]
  BY <1>1, <1>2 DEF Load, Handled, Delivered, Destinations, Counters
<1>7. \A k \in Counters : ram'[k] = Stored(k) /\ Stored(k)' = Stored(k)
  BY <1>1, <1>4, <1>5, <1>6 DEF Counters, Stored
<1>8. \A k \in Counters : Once(k, Stored(k))' /\ Once(k, ram[k])'
  BY <1>1, <1>4, <1>7 DEF Once
<1>9. \A k \in {"angle", "length1", "length2"} : ram'[k] = atBoot'[k]
  BY <1>1, <1>4, <1>6 DEF Counters
<1> QED
  BY <1>1, <1>4, <1>7, <1>8, <1>9 DEF Counting, Uncounted, Untouched

\* angle is counted on, once, before the first export.
LEMMA ChangeCounts == ASSUME IInv, Change PROVE Counting'
<1> SUFFICES ASSUME unread' = 0 PROVE Counting'
  BY DEF Counting
<1>1. pc = "change" /\ pc' = "save" /\ UNCHANGED <<storage, atBoot, unread>>
  BY DEF Change, Goto, faults
<1>2. /\ DOMAIN ram = Destinations
      /\ \A k \in Counters : Once(k, Stored(k)) /\ Once(k, ram[k])
      /\ \A k \in {"angle", "length1", "length2"} : ram[k] = atBoot[k]
      /\ \A k \in Counters : k \in DOMAIN storage \/ Stored(k) = atBoot[k]
      /\ \A k \in Counters : ram[k] \in {Stored(k), NextValue(k, atBoot[k])}
  BY <1>1, CountingBefore DEF Uncounted, BeforeReload
<1>3. /\ ram'["angle"] = (ram["angle"] + 1) % UINT8_SIZE
      /\ \A k \in Counters : k # "angle" => ram'[k] = ram[k]
  BY <1>2, Names DEF Change, Counters
<1>4. ram'["angle"] = NextValue("angle", atBoot["angle"])
  BY <1>2, <1>3 DEF NextValue
<1>5. /\ \A k \in Counters : Once(k, Stored(k))'
      /\ \A k \in Counters : Once(k, ram[k])'
      /\ \A k \in Counters : k \in DOMAIN storage' \/ Stored(k)' = atBoot'[k]
      /\ \A k \in Counters : (ram[k] \in {Stored(k), NextValue(k, atBoot[k])})'
  BY <1>1, <1>2, <1>3, <1>4 DEF Once, Stored
<1>6. \A k \in {"length1", "length2"} : ram'[k] = atBoot'[k]
  BY <1>1, <1>2, <1>3 DEF Counters
<1> QED
  BY <1>1, <1>5, <1>6 DEF Counting, Uncounted, Untouched, BeforeReload

\* The lengths are counted on, once, before the second.
LEMMA ChangeLengthsCounts == ASSUME IInv, ChangeLengths PROVE Counting'
<1> SUFFICES ASSUME unread' = 0 PROVE Counting'
  BY DEF Counting
<1>1. pc = "save" /\ pc' = "saveagain" /\ UNCHANGED <<storage, atBoot, unread>>
  BY DEF ChangeLengths, Goto, faults
<1>2. /\ DOMAIN ram = Destinations
      /\ \A k \in Counters : Once(k, Stored(k)) /\ Once(k, ram[k])
      /\ \A k \in {"length1", "length2"} : ram[k] = atBoot[k]
      /\ \A k \in Counters : k \in DOMAIN storage \/ Stored(k) = atBoot[k]
      /\ \A k \in Counters : ram[k] \in {Stored(k), NextValue(k, atBoot[k])}
  BY <1>1, CountingBefore DEF Uncounted, BeforeReload
<1>3. /\ ram'["length1"] = NextLength1(ram["length1"])
      /\ ram'["length2"] = NextLength2(ram["length2"])
      /\ \A k \in Counters : k \notin {"length1", "length2"} => ram'[k] = ram[k]
  BY <1>2, Names DEF ChangeLengths, Counters
<1>4. /\ ram'["length1"] = NextValue("length1", atBoot["length1"])
      /\ ram'["length2"] = NextValue("length2", atBoot["length2"])
  BY <1>2, <1>3 DEF NextValue
<1>5. /\ \A k \in Counters : Once(k, Stored(k))'
      /\ \A k \in Counters : Once(k, ram[k])'
      /\ \A k \in Counters : k \in DOMAIN storage' \/ Stored(k)' = atBoot'[k]
      /\ \A k \in Counters : (ram[k] \in {Stored(k), NextValue(k, atBoot[k])})'
  BY <1>1, <1>2, <1>3, <1>4 DEF Once, Stored
<1> QED
  BY <1>1, <1>5 DEF Counting, Uncounted, Untouched, BeforeReload

\* An export stores what the destination holds.
LEMMA ExportCounts == ASSUME IInv, Export PROVE Counting'
<1> SUFFICES ASSUME unread' = 0 PROVE Counting'
  BY DEF Counting
<1>1. /\ pc \in {"save", "saveagain"} /\ UNCHANGED <<pc, ram, atBoot>>
      /\ Save(Head(todo), ram[Head(todo)])
  BY DEF Export
<1>2. unread' = unread
  BY <1>1, SaveEffect
<1>3. /\ \A k \in Counters : Once(k, Stored(k)) /\ Once(k, ram[k])
      /\ \A k \in Uncounted : ram[k] = atBoot[k]
      /\ \A k \in Counters : k \in DOMAIN storage \/ Stored(k) = atBoot[k]
      /\ \A k \in Counters : ram[k] \in {Stored(k), NextValue(k, atBoot[k])}
  BY <1>1, <1>2, CountingBefore DEF BeforeReload
<1>4. \A k \in Counters : Stored(k)' = Stored(k) \/ Stored(k)' = ram[k]
  BY <1>1, SaveStores
<1>5. \A k \in Counters : /\ Once(k, Stored(k))' /\ Once(k, ram[k])'
                          /\ ram'[k] \in {Stored(k)', NextValue(k, atBoot'[k])}
  BY <1>1, <1>3, <1>4 DEF Once
<1>6. \A k \in Uncounted' : ram'[k] = atBoot'[k]
  BY <1>1, <1>3 DEF Uncounted
<1>7. \A k \in Counters : k \in DOMAIN storage' \/ Stored(k)' = atBoot'[k]
  <2>1. DOMAIN storage \subseteq DOMAIN storage'
    BY <1>1, SaveEffect
  <2>2. \A k \in Counters : k \notin DOMAIN storage' => Stored(k)' = Stored(k)
    BY <2>1 DEF Stored
  <2> QED
    BY <1>1, <1>3, <2>1, <2>2
<1> QED
  BY <1>1, <1>5, <1>6, <1>7 DEF Counting, Untouched

\* Everything behind the exports touches no counter.
LEMMA CountersAlone ==
  ASSUME IInv, DirectLoad \/ DeleteLength \/ CountGamma \/ CountGammaUnread \/ Inject
  PROVE  /\ \A k \in Counters : Stored(k)' = Stored(k)
         /\ \A k \in Counters : ram'[k] = ram[k]
         /\ \A k \in Counters : k \in DOMAIN storage => k \in DOMAIN storage'
<1>0. DOMAIN ram = Destinations
  BY DEF IInv, Control
<1>1. CASE DirectLoad \/ Inject
  BY <1>0, <1>1, Names DEF DirectLoad, Inject, Stored
<1>2. CASE DeleteLength
  BY <1>2, Names DEF DeleteLength, Delete, Stored
<1>3. CASE CountGamma
  BY <1>3, SaveStores, SaveEffect, Names DEF CountGamma
<1>4. CASE CountGammaUnread
  BY <1>4, Names DEF CountGammaUnread, Stored
<1> QED
  BY <1>1, <1>2, <1>3, <1>4

LEMMA RestCounts ==
  ASSUME IInv, DirectLoad \/ DeleteLength \/ CountGamma \/ CountGammaUnread \/ Inject
  PROVE  Counting'
<1> SUFFICES ASSUME unread' = 0 PROVE Counting'
  BY DEF Counting
<1>0. unread \in Nat
  BY DEF IInv, Control
<1>1. ~CountGammaUnread
  BY <1>0 DEF CountGammaUnread, Unread
<1>2. /\ pc \in {"saveagain", "delete", "gamma", "inject"}
      /\ pc' \in {"delete", "gamma", "inject", "done"}
      /\ UNCHANGED atBoot
      /\ unread' = unread \/ unread' = unread + 1
  BY <1>1, SaveEffect
     DEF DirectLoad, DeleteLength, CountGamma, Inject, Delete, NoFault, Lost, Unread,
         faults, Goto
<1>3. \A k \in Counters : /\ Once(k, Stored(k)) /\ Once(k, ram[k])
                          /\ k \in DOMAIN storage \/ Stored(k) = atBoot[k]
                          /\ ram[k] \in {Stored(k), NextValue(k, atBoot[k])}
  BY <1>2, CountingBefore DEF BeforeReload
<1>4. /\ \A k \in Counters : Once(k, Stored(k))'
      /\ \A k \in Counters : Once(k, ram[k])'
      /\ \A k \in Counters : k \in DOMAIN storage' \/ Stored(k)' = atBoot'[k]
      /\ \A k \in Counters : (ram[k] \in {Stored(k), NextValue(k, atBoot[k])})'
  BY <1>2, <1>3, CountersAlone DEF Once
<1> QED
  BY <1>2, <1>4 DEF Counting, Uncounted, Untouched, BeforeReload

LEMMA StepInv == IInv /\ [Next]_vars => IInv'
<1> SUFFICES ASSUME IInv, [Next]_vars PROVE IInv'
  OBVIOUS
<1>1. CASE PowerCycle
  BY <1>1, ControlKept, TextsKept DEF PowerCycle, PowerOn, IInv, Counting
<1>2. CASE UNCHANGED vars
  <2>1. Counting'
    BY <1>2 DEF vars, faults, IInv, Counting, Uncounted, Untouched, Once, Stored
  <2> QED
    BY <2>1, ControlKept, TextsKept DEF IInv
<1>3. CASE Step
  <2>1. Counting'
    BY <1>3, InitializeCounts, LoadAllCounts, SaveVoltageCounts, ReloadCounts,
       ChangeCounts, ChangeLengthsCounts, ExportCounts, RestCounts DEF Step
  <2> QED
    BY <2>1, ControlKept, TextsKept DEF IInv
<1> QED
  BY <1>1, <1>2, <1>3 DEF Next

LEMMA Invariance == Spec => []IInv
BY InitInv, StepInv, PTL DEF Spec

-----------------------------------------------------------------------------
\* What a step makes of a stored counter, from initialisation on.
LEMMA CountersForward ==
  ASSUME IInv, [Next]_vars, unread = 0, pc # "init"
  PROVE  \A k \in Counters : Stored(k)' \in {Stored(k), NextValue(k, atBoot[k])}
<1>1. CASE SaveVoltage
  <2>1. pc = "voltage" /\ Save("voltage", ram["voltage"] - 1)
    BY <1>1 DEF SaveVoltage
  <2>2. ram["voltage"] = atBoot["voltage"]
    BY <2>1 DEF IInv, Counting, Uncounted, Counters
  <2>3. ram["voltage"] - 1 = NextValue("voltage", atBoot["voltage"])
    BY <2>2 DEF NextValue
  <2> QED
    BY <2>1, <2>3, SaveStores
<1>2. CASE Export
  <2>1. pc \in {"save", "saveagain"} /\ Save(Head(todo), ram[Head(todo)])
    BY <1>2 DEF Export
  <2>2. \A k \in Counters : ram[k] \in {Stored(k), NextValue(k, atBoot[k])}
    BY <2>1 DEF IInv, Counting, BeforeReload
  <2> QED
    BY <2>1, <2>2, SaveStores
<1>3. CASE DirectLoad \/ DeleteLength \/ CountGamma \/ CountGammaUnread \/ Inject
  BY <1>3, CountersAlone
<1>4. CASE Initialize \/ LoadAll \/ Reload \/ Change \/ ChangeLengths \/ PowerCycle
             \/ UNCHANGED vars
  BY <1>4 DEF Initialize, LoadAll, Reload, Change, ChangeLengths, PowerCycle, vars, Stored
<1> QED
  BY <1>1, <1>2, <1>3, <1>4 DEF Next, Step, PrepareVolume

\* As long as reads work a boot counts each stored value on once or not at all,
\* and does not set it back, wherever power is cut and whichever saves fail.
THEOREM OnceABoot == Spec => CountsOnceABoot
<1>1. IInv /\ [Next]_vars =>
        [unread = 0 /\ pc # "init" =>
           \A k \in Counters : Stored(k)' \in {Stored(k), NextValue(k, atBoot[k])}]_vars
  BY CountersForward
<1> QED
  BY <1>1, Invariance, PTL DEF Spec, CountsOnceABoot

\* The value injected at run time is never saved.
THEOREM InjectedStays == Spec => []InjectedNotSaved
<1>1. IInv => InjectedNotSaved
  BY DEF IInv, TextsOwn, OwnText, InjectedNotSaved
<1> QED
  BY <1>1, Invariance, PTL

-----------------------------------------------------------------------------
(* Types: what a key may hold, in its destination and in the storage.      *)

ValueOK(k, v) ==
  /\ k \in {"angle", "gamma"} => v \in 0 .. UINT8_SIZE - 1
  /\ k \in {"length1", "length2"} => v \in 0 .. LENGTH_MAX
  /\ k = "source" => v \in [len : 0 .. SOURCE_SIZE - 1, injected : BOOLEAN]

ValuesOK ==
  /\ \A k \in Destinations : ValueOK(k, ram[k])
  /\ \A k \in DOMAIN storage : ValueOK(k, storage[k])

RestOK ==
  /\ file_backend \in FILE_BACKENDS
  /\ DOMAIN storage \subseteq Destinations \union {"gamma"}
  /\ ready \in BOOLEAN /\ registered \in BOOLEAN
  /\ todo \in Seq(Destinations)
  /\ pc \in {"init", "subsys", "load", "voltage", "reload", "change", "save", "saveagain",
             "delete", "gamma", "inject", "done"}
  /\ boots \in 1 .. MAX_BOOTS
  /\ applied \subseteq Destinations /\ fetched \subseteq LengthSubtree

LEMMA DefaultsOK == \A k \in Destinations : ValueOK(k, Defaults[k])
<1> TAKE k \in Destinations
<1>1. CASE k = "angle"
  BY <1>1, SettingsAssumption DEF Defaults, ValueOK
<1>2. CASE k = "length1"
  BY <1>2, SettingsAssumption DEF Defaults, ValueOK
<1>3. CASE k = "length2"
  BY <1>3, SettingsAssumption DEF Defaults, ValueOK
<1>4. CASE k = "source"
  <2>1. Defaults[k] = [len |-> 0, injected |-> FALSE]
    BY <1>4 DEF Defaults, Text
  <2>2. 0 \in 0 .. SOURCE_SIZE - 1
    BY SettingsAssumption
  <2> QED
    BY <1>4, <2>1, <2>2 DEF ValueOK
<1>5. CASE k \notin {"angle", "length1", "length2", "source"}
  BY <1>5, Names DEF ValueOK
<1> QED
  BY <1>1, <1>2, <1>3, <1>4, <1>5

\* The three ways to count on stay in the range of their counter.
LEMMA CountsInRange ==
  /\ \A v \in 0 .. UINT8_SIZE - 1 : (v + 1) % UINT8_SIZE \in 0 .. UINT8_SIZE - 1
  /\ \A v \in 0 .. LENGTH_MAX :
       NextLength1(v) \in 0 .. LENGTH_MAX /\ NextLength2(v) \in 0 .. LENGTH_MAX
  /\ \A t \in [len : 0 .. SOURCE_SIZE - 1, injected : BOOLEAN] :
       GrownSource(t) \in [len : 0 .. SOURCE_SIZE - 1, injected : BOOLEAN]
<1>1. \A v \in 0 .. UINT8_SIZE - 1 : (v + 1) % UINT8_SIZE \in 0 .. UINT8_SIZE - 1
  BY SettingsAssumption
<1>2. \A v \in 0 .. LENGTH_MAX :
        NextLength1(v) \in 0 .. LENGTH_MAX /\ NextLength2(v) \in 0 .. LENGTH_MAX
  BY SettingsAssumption DEF NextLength1, NextLength2
<1>3. ASSUME NEW t \in [len : 0 .. SOURCE_SIZE - 1, injected : BOOLEAN]
      PROVE  GrownSource(t) \in [len : 0 .. SOURCE_SIZE - 1, injected : BOOLEAN]
  <2>1. t.len < SOURCE_SIZE - 1 => t.len + 1 \in 0 .. SOURCE_SIZE - 1
    BY <1>3, SettingsAssumption
  <2>2. 0 \in 0 .. SOURCE_SIZE - 1
    BY SettingsAssumption
  <2> QED
    BY <1>3, <2>1, <2>2 DEF GrownSource
<1> QED
  BY <1>1, <1>2, <1>3

LEMMA InitTypes == Init => ValuesOK /\ RestOK
<1> SUFFICES ASSUME Init PROVE ValuesOK /\ RestOK
  OBVIOUS
<1>1. ValuesOK
  BY DefaultsOK DEF Init, ValuesOK
<1>2. todo \in Seq(Destinations)
  BY DEF Init
<1>3. DOMAIN storage = {} /\ boots \in 1 .. MAX_BOOTS
  BY SettingsAssumption DEF Init
<1>4. file_backend \in FILE_BACKENDS /\ ready \in BOOLEAN /\ registered \in BOOLEAN
  BY DEF Init
<1>5. pc = "init" /\ applied = {} /\ fetched = {}
  BY DEF Init
<1> QED
  BY <1>1, <1>2, <1>3, <1>4, <1>5 DEF RestOK

\* What settings_save has to export are destinations, from the first on.
LEMMA ExportsAreDestinations ==
  /\ ExportOrder \in Seq(Destinations)
  /\ \A s \in Seq(Destinations) : s # <<>> =>
       Head(s) \in Destinations /\ Tail(s) \in Seq(Destinations)
<1>1. /\ BetaExport \in Seq(Destinations) /\ AlphaExport \in Seq(Destinations)
      /\ <<>> \in Seq(Destinations)
  BY DEF BetaExport, AlphaExport, Destinations, Counters
<1>2. (IF registered THEN AlphaExport ELSE <<>>) \in Seq(Destinations)
  BY <1>1
<1>3. ExportOrder \in Seq(Destinations)
  BY <1>1, <1>2 DEF ExportOrder
<1> QED
  BY <1>3

LEMMA ValuesKept == ASSUME IInv, ValuesOK, RestOK, [Next]_vars PROVE ValuesOK'
<1> USE Names DEF ValuesOK
<1>0. DOMAIN ram = Destinations /\ unread \in Nat
  BY DEF IInv, Control
<1>1. CASE PrepareVolume \/ Initialize
  BY <1>1 DEF PrepareVolume, Initialize, EraseSettingsFile
<1>2. CASE LoadAll \/ Reload
  <2>1. PICK keys : Load(keys)
    BY <1>2 DEF LoadAll, Reload
  <2>2. \A k \in Destinations : ValueOK(k, ram'[k])
    BY <1>0, <2>1, LoadAssigns
  <2> QED
    BY <1>2, <2>2 DEF LoadAll, Reload
<1>3. CASE SaveVoltage \/ Export \/ CountGamma
  <2>1. PICK k, v : Save(k, v) /\ ValueOK(k, v)
    <3>1. CASE SaveVoltage
      BY <3>1 DEF SaveVoltage, ValueOK
    <3>2. CASE CountGamma
      <4>1. GammaLoads \in Nat
        <5>1. "gamma" \in DOMAIN storage => storage["gamma"] \in 0 .. UINT8_SIZE - 1
          BY DEF ValueOK
        <5> QED
          BY <5>1, SettingsAssumption DEF GammaLoads, Delivered
      <4>2. (GammaLoads + 1) % UINT8_SIZE \in 0 .. UINT8_SIZE - 1
        BY <4>1, SettingsAssumption
      <4> QED
        BY <3>2, <4>2 DEF CountGamma, ValueOK
    <3>3. CASE Export
      <4>1. Save(Head(todo), ram[Head(todo)]) /\ todo # <<>>
        BY <3>3 DEF Export
      <4>2. Head(todo) \in Destinations
        BY <4>1, ExportsAreDestinations DEF RestOK
      <4> QED
        BY <4>1, <4>2
    <3> QED
      BY <1>3, <3>1, <3>2, <3>3
  <2>2. \A key \in DOMAIN storage' : ValueOK(key, storage'[key])
    BY <2>1, SaveEffect
  <2> QED
    BY <1>3, <2>2 DEF SaveVoltage, Export, CountGamma
<1>4. CASE Change
  <2>1. /\ ram'["source"] = GrownSource(ram["source"])
        /\ ram'["angle"] = (ram["angle"] + 1) % UINT8_SIZE
        /\ \A k \in Destinations \ {"source", "angle"} : ram'[k] = ram[k]
    BY <1>0, <1>4 DEF Change, Counters
  <2>2. ValueOK("source", ram["source"]) /\ ValueOK("angle", ram["angle"])
    BY DEF Destinations, Counters
  <2>3. ValueOK("source", ram'["source"]) /\ ValueOK("angle", ram'["angle"])
    BY <2>1, <2>2, CountsInRange DEF ValueOK
  <2> QED
    BY <1>4, <2>1, <2>3 DEF Change
<1>5. CASE ChangeLengths
  <2>1. /\ ram'["length1"] = NextLength1(ram["length1"])
        /\ ram'["length2"] = NextLength2(ram["length2"])
        /\ \A k \in Destinations \ {"length1", "length2"} : ram'[k] = ram[k]
    BY <1>0, <1>5 DEF ChangeLengths, Counters
  <2>2. ValueOK("length1", ram["length1"]) /\ ValueOK("length2", ram["length2"])
    BY DEF Destinations, Counters
  <2>3. ValueOK("length1", ram'["length1"]) /\ ValueOK("length2", ram'["length2"])
    BY <2>1, <2>2, CountsInRange DEF ValueOK
  <2> QED
    BY <1>5, <2>1, <2>3 DEF ChangeLengths
<1>6. CASE DirectLoad
  BY <1>6 DEF DirectLoad
<1>7. CASE DeleteLength
  BY <1>7 DEF DeleteLength, Delete
<1>8. CASE CountGammaUnread
  <2>1. CASE UNCHANGED storage
    BY <1>8, <2>1 DEF CountGammaUnread
  <2>2. CASE storage' # storage
    <3>1. PICK garbage \in 0 .. UINT8_SIZE - 1 :
            storage' = [storage EXCEPT !["gamma"] = (garbage + 1) % UINT8_SIZE]
      BY <1>8, <2>2 DEF CountGammaUnread
    <3>2. (garbage + 1) % UINT8_SIZE \in 0 .. UINT8_SIZE - 1
      BY SettingsAssumption
    <3> QED
      BY <1>8, <3>1, <3>2 DEF CountGammaUnread, ValueOK
  <2> QED
    BY <2>1, <2>2
<1>9. CASE Inject
  <2>1. InjectedText(4) \in [len : 0 .. SOURCE_SIZE - 1, injected : BOOLEAN]
    BY SettingsAssumption DEF InjectedText
  <2>2. ValueOK("source", ram'["source"])
    BY <1>0, <1>9, <2>1 DEF Inject, ValueOK
  <2>3. \A k \in Destinations \ {"source"} : ram'[k] = ram[k]
    BY <1>0, <1>9 DEF Inject
  <2> QED
    BY <1>9, <2>2, <2>3 DEF Inject
<1>10. CASE PowerCycle
  BY <1>10, DefaultsOK DEF PowerCycle, PowerOn
<1>11. CASE UNCHANGED vars
  BY <1>11 DEF vars
<1> QED
  BY <1>1, <1>2, <1>3, <1>4, <1>5, <1>6, <1>7, <1>8, <1>9, <1>10, <1>11 DEF Next, Step

LEMMA RestKept == ASSUME RestOK, [Next]_vars PROVE RestOK'
<1> USE DEF RestOK, Goto, board
<1>1. CASE PrepareVolume \/ Initialize
  <2>1. /\ UNCHANGED <<file_backend, boots, todo, applied, fetched>>
        /\ pc' \in {"subsys", "load"}
        /\ ready' \in BOOLEAN /\ registered' \in BOOLEAN
    BY <1>1 DEF PrepareVolume, Initialize
  <2>2. storage' = storage \/ storage' = [k \in {} |-> 0]
    BY <1>1 DEF PrepareVolume, Initialize, EraseSettingsFile
  <2>3. DOMAIN storage' \subseteq Destinations \union {"gamma"}
    BY <2>2
  <2> QED
    BY <2>1, <2>3
<1>2. CASE LoadAll \/ Reload
  <2>1. PICK keys : Load(keys) /\ keys \subseteq Destinations
    BY <1>2 DEF LoadAll, Reload, Destinations, Counters
  <2>2. applied' \subseteq Destinations
    BY <2>1 DEF Load, Handled, Delivered
  <2> QED
    BY <1>2, <2>2 DEF LoadAll, Reload
<1>3. CASE SaveVoltage \/ Export \/ CountGamma
  <2>1. PICK k, v : Save(k, v) /\ k \in Destinations \union {"gamma"}
    BY <1>3, ExportsAreDestinations
       DEF SaveVoltage, Export, CountGamma, Destinations, Counters
  <2>2. DOMAIN storage' \subseteq Destinations \union {"gamma"}
    BY <2>1, SaveEffect
  <2>3. /\ UNCHANGED <<file_backend, boots, ready, registered, applied, fetched>>
        /\ pc' = pc \/ pc' \in {"reload", "inject"}
    BY <1>3 DEF SaveVoltage, Export, CountGamma
  <2>4. todo' \in Seq(Destinations)
    BY <1>3, ExportsAreDestinations DEF SaveVoltage, Export, CountGamma
  <2> QED
    BY <2>2, <2>3, <2>4
<1>4. CASE Change \/ ChangeLengths
  BY <1>4, ExportsAreDestinations DEF Change, ChangeLengths
<1>5. CASE DirectLoad
  <2>1. fetched' \subseteq LengthSubtree
    BY <1>5 DEF DirectLoad, Delivered
  <2> QED
    BY <1>5, <2>1 DEF DirectLoad
<1>6. CASE DeleteLength
  <2>1. DOMAIN storage' \subseteq DOMAIN storage
    BY <1>6 DEF DeleteLength, Delete
  <2> QED
    BY <1>6, <2>1 DEF DeleteLength
<1>7. CASE CountGammaUnread
  <2>1. DOMAIN storage' = DOMAIN storage
    BY <1>7 DEF CountGammaUnread
  <2> QED
    BY <1>7, <2>1 DEF CountGammaUnread
<1>8. CASE Inject
  BY <1>8 DEF Inject
<1>9. CASE PowerCycle
  <2>1. boots' \in 1 .. MAX_BOOTS
    BY <1>9, SettingsAssumption DEF PowerCycle
  <2>2. todo' \in Seq(Destinations)
    BY <1>9 DEF PowerCycle, PowerOn
  <2> QED
    BY <1>9, <2>1, <2>2 DEF PowerCycle, PowerOn
<1>10. CASE UNCHANGED vars
  BY <1>10 DEF vars
<1> QED
  BY <1>1, <1>2, <1>3, <1>4, <1>5, <1>6, <1>7, <1>8, <1>9, <1>10 DEF Next, Step

LEMMA TypesInvariant == Spec => [](IInv /\ ValuesOK /\ RestOK)
<1>1. Init => IInv /\ ValuesOK /\ RestOK
  BY InitInv, InitTypes
<1>2. IInv /\ ValuesOK /\ RestOK /\ [Next]_vars => (IInv /\ ValuesOK /\ RestOK)'
  BY StepInv, ValuesKept, RestKept
<1> QED
  BY <1>1, <1>2, PTL DEF Spec

\* Every destination and every stored key hold a value of their width, and
\* settings_save exports destinations only.
THEOREM TypeCorrect == Spec => []TypeOK
<1>1. IInv /\ ValuesOK /\ RestOK => TypeOK
  <2> SUFFICES ASSUME IInv, ValuesOK, RestOK PROVE TypeOK
    OBVIOUS
  <2>1. DOMAIN ram = Destinations
    BY DEF IInv, Control
  <2>2. \A k, val : ValueOK(k, val) => InWidth(k, val)
    BY DEF ValueOK, InWidth
  <2>3. \A k \in DOMAIN storage : InWidth(k, storage[k])
    BY <2>2 DEF ValuesOK
  <2>4. \A k \in DOMAIN ram : InWidth(k, ram[k])
    BY <2>1, <2>2 DEF ValuesOK
  <2> QED
    BY <2>1, <2>3, <2>4 DEF RestOK, TypeOK
<1> QED
  BY <1>1, TypesInvariant, PTL

-----------------------------------------------------------------------------
(* The two lengths, of which a boot saves one after the other.             *)

Near(a, b, n) ==
  (a + b + 1) % (LENGTH_MAX + 1) \in {d % (LENGTH_MAX + 1) : d \in -n .. n}

BeforeTheLengths == {"load", "voltage", "reload", "change", "save"}
BehindTheExports == {"delete", "gamma", "inject", "done"}

\* What settings_save may have left to export.
ExportTails ==
  {<<"voltage", "source", "angle", "length", "length1", "length2">>,
   <<"source", "angle", "length", "length1", "length2">>,
   <<"angle", "length", "length1", "length2">>,
   <<"length", "length1", "length2">>,
   <<"length1", "length2">>, <<"length2">>, <<>>}

\* The second export of a boot: length/1 is saved, or lost, before length/2.
SecondExport ==
  /\ todo \in ExportTails
  /\ \A k \in {"length1", "length2"} :
       atBoot[k] \in 0 .. LENGTH_MAX /\ ram[k] = NextValue(k, atBoot[k])
  /\ todo \notin {<<>>, <<"length2">>} =>
       \A k \in {"length1", "length2"} : Stored(k) = atBoot[k]
  /\ todo = <<"length2">> =>
       /\ Stored("length2") = atBoot["length2"]
       /\ \/ Stored("length1") = NextValue("length1", atBoot["length1"])
          \/ /\ Stored("length1") = atBoot["length1"]
             /\ Near(atBoot["length1"], atBoot["length2"], cuts + lost - 1)
  /\ todo = <<>> => Near(Stored("length1"), Stored("length2"), cuts + lost)

Drifting ==
  unread = 0 =>
    /\ pc \in {"init", "subsys"} \union BehindTheExports =>
         Near(Stored("length1"), Stored("length2"), cuts + lost)
    /\ pc \in BeforeTheLengths \union {"saveagain"} =>
         Near(atBoot["length1"], atBoot["length2"], cuts + lost)
    /\ pc \in BeforeTheLengths =>
         \A k \in {"length1", "length2"} : Stored(k) = atBoot[k]
    /\ pc = "saveagain" => SecondExport

FaultsCounted == cuts \in Nat /\ lost \in Nat
\* Quotient and remainder are unique.
LEMMA RemainderUnique ==
  ASSUME NEW U \in Nat, U > 0, NEW m \in Int, NEW p \in Int, NEW x \in 0 .. U - 1,
         m = U*p + x
  PROVE  m % U = x
<1> DEFINE q == m \div U
           y == m % U
<1>1. q \in Int /\ y \in 0 .. U - 1 /\ m = U*q + y
  OBVIOUS
<1> HIDE DEF q, y
<1>2. CASE p < q
  <2>1. U*q >= U*p + U
    BY <1>1, <1>2
  <2> QED
    BY <1>1, <2>1
<1>3. CASE q < p
  <2>1. U*p >= U*q + U
    BY <1>1, <1>3
  <2> QED
    BY <1>1, <2>1
<1>4. CASE p = q
  <2>1. y = x
    BY <1>1, <1>4
  <2> QED
    BY <2>1 DEF y
<1> QED
  BY <1>1, <1>2, <1>3, <1>4

\* Near, without remainders.
LEMMA NearIsDistance ==
  ASSUME NEW a \in Int, NEW b \in Int, NEW n \in Int
  PROVE  Near(a, b, n) <=>
           \E d \in -n .. n, q \in Int : a + b + 1 = (LENGTH_MAX + 1)*q + d
<1> DEFINE W == LENGTH_MAX + 1
           s == a + b + 1
<1>1. W \in Nat /\ W > 0 /\ s \in Int
  BY SettingsAssumption
<1>2. Near(a, b, n) <=> \E d \in -n .. n : s % W = d % W
  BY DEF Near
<1> HIDE DEF W, s
<1>3. \A x \in Int : /\ x \div W \in Int /\ x % W \in 0 .. W - 1
                     /\ x = W*(x \div W) + (x % W)
  BY <1>1
<1>4. ASSUME NEW d \in -n .. n, s % W = d % W
      PROVE  \E q \in Int : s = W*q + d
  <2>1. PICK p \in Int, r \in Int : s = W*p + (s % W) /\ d = W*r + (d % W)
    BY <1>1, <1>3
  <2>2. p - r \in Int /\ W*(p - r) = W*p - W*r /\ W*p \in Int /\ W*r \in Int
    BY <1>1
  <2>3. s % W \in Int /\ d % W \in Int
    BY <1>1, <1>3
  <2>4. s = W*(p - r) + d
    BY <1>1, <1>4, <2>1, <2>2, <2>3
  <2> QED
    BY <2>2, <2>4
<1>5. ASSUME NEW d \in -n .. n, NEW q \in Int, s = W*q + d
      PROVE  s % W = d % W
  <2>1. PICK r \in Int : d = W*r + (d % W) /\ d % W \in 0 .. W - 1
    BY <1>1, <1>3
  <2>2. q + r \in Int /\ W*(q + r) = W*q + W*r /\ W*q \in Int /\ W*r \in Int
    BY <1>1
  <2>3. s = W*(q + r) + (d % W)
    BY <1>1, <1>5, <2>1, <2>2
  <2> QED
    BY <1>1, <2>1, <2>2, <2>3, RemainderUnique
<1>6. (\E d \in -n .. n : s % W = d % W) <=> (\E d \in -n .. n, q \in Int : s = W*q + d)
  BY <1>4, <1>5
<1> QED
  BY <1>2, <1>6 DEF W, s

\* The defaults fit together; counting both on keeps the distance, counting one
\* of them on changes it by one.
LEMMA Distances ==
  /\ Near(Defaults["length1"], Defaults["length2"], 0)
  /\ \A a, b \in 0 .. LENGTH_MAX, n \in Int : Near(a, b, n) =>
       /\ \A m \in Int : n <= m => Near(a, b, m)
       /\ Near(NextLength1(a), NextLength2(b), n)
       /\ Near(NextLength1(a), b, n + 1) /\ Near(a, NextLength2(b), n + 1)
<1>1. Near(Defaults["length1"], Defaults["length2"], 0)
  <2>1. /\ Defaults["length1"] = LENGTH_1
        /\ Defaults["length2"] = LENGTH_MAX - LENGTH_1
    BY DEF Defaults, Destinations, Counters
  <2>2. LENGTH_1 + (LENGTH_MAX - LENGTH_1) + 1 = (LENGTH_MAX + 1)*1 + 0
    BY SettingsAssumption
  <2>3. LENGTH_1 \in Int /\ LENGTH_MAX - LENGTH_1 \in Int /\ 0 \in -0 .. 0 /\ 1 \in Int
    BY SettingsAssumption
  <2>4. \E d \in -0 .. 0, q \in Int :
           LENGTH_1 + (LENGTH_MAX - LENGTH_1) + 1 = (LENGTH_MAX + 1)*q + d
    BY <2>2, <2>3
  <2>5. Near(LENGTH_1, LENGTH_MAX - LENGTH_1, 0)
    BY <2>3, <2>4, NearIsDistance
  <2> QED
    BY <2>1, <2>5
<1>2. ASSUME NEW a \in 0 .. LENGTH_MAX, NEW b \in 0 .. LENGTH_MAX, NEW n \in Int,
             Near(a, b, n)
      PROVE  /\ \A m \in Int : n <= m => Near(a, b, m)
             /\ Near(NextLength1(a), NextLength2(b), n)
             /\ Near(NextLength1(a), b, n + 1) /\ Near(a, NextLength2(b), n + 1)
  <2> DEFINE W == LENGTH_MAX + 1
  <2>0. a \in Int /\ b \in Int /\ W \in Int
    BY SettingsAssumption
  <2>1. PICK d \in -n .. n, q \in Int : a + b + 1 = W*q + d
    BY <1>2, <2>0, NearIsDistance
  <2> DEFINE Wq == W*q
  <2>2. /\ Wq \in Int
        /\ W*(q + 1) = Wq + W /\ W*(q - 1) = Wq - W
    BY <2>0
  <2>3. /\ NextLength1(a) \in {a + 1, a + 1 - W} /\ NextLength1(a) \in Int
        /\ NextLength2(b) \in {b - 1, b - 1 + W} /\ NextLength2(b) \in Int
    BY SettingsAssumption DEF NextLength1, NextLength2
  <2>4. ASSUME NEW x \in Int, NEW y \in Int, NEW m \in Int, NEW e \in -m .. m,
               x + y + 1 \in {Wq + e, Wq + e + W, Wq + e - W}
        PROVE  Near(x, y, m)
    <3>1. \E p \in Int : x + y + 1 = W*p + e
      <4>1. W*q = Wq /\ q + 1 \in Int /\ q - 1 \in Int /\ e \in Int
        OBVIOUS
      <4>2. \/ x + y + 1 = W*q + e
            \/ x + y + 1 = W*(q + 1) + e
            \/ x + y + 1 = W*(q - 1) + e
        BY <2>0, <2>2, <2>4, <4>1
      <4> QED
        BY <4>1, <4>2
    <3> QED
      BY <3>1, NearIsDistance
  <2>5. \A m \in Int : n <= m => Near(a, b, m)
    <3> SUFFICES ASSUME NEW m \in Int, n <= m PROVE Near(a, b, m)
      OBVIOUS
    <3>1. d \in -m .. m
      OBVIOUS
    <3> QED
      BY <2>0, <2>1, <3>1, NearIsDistance
  <2>9. a + b + 1 = Wq + d /\ d \in Int
    BY <2>1
  <2> HIDE DEF W, Wq
  <2>6. Near(NextLength1(a), NextLength2(b), n)
    <3>1. NextLength1(a) + NextLength2(b) + 1 \in {Wq + d, Wq + d + W, Wq + d - W}
      BY <2>0, <2>2, <2>3, <2>9
    <3> QED
      BY <2>3, <2>4, <3>1
  <2>7. Near(NextLength1(a), b, n + 1)
    <3>1. NextLength1(a) + b + 1 \in {Wq + (d + 1), Wq + (d + 1) - W}
      BY <2>0, <2>2, <2>3, <2>9
    <3>2. d + 1 \in -(n + 1) .. n + 1 /\ n + 1 \in Int
      OBVIOUS
    <3> QED
      BY <2>0, <2>3, <2>4, <3>1, <3>2
  <2>8. Near(a, NextLength2(b), n + 1)
    <3>1. a + NextLength2(b) + 1 \in {Wq + (d - 1), Wq + (d - 1) + W}
      BY <2>0, <2>2, <2>3, <2>9
    <3>2. d - 1 \in -(n + 1) .. n + 1 /\ n + 1 \in Int
      OBVIOUS
    <3> QED
      BY <2>0, <2>3, <2>4, <3>1, <3>2
  <2> QED
    BY <2>5, <2>6, <2>7, <2>8
<1> QED
  BY <1>1, <1>2
DInv == IInv /\ ValuesOK /\ RestOK /\ FaultsCounted /\ Drifting

LEMMA FaultsKept ==
  ASSUME FaultsCounted, [Next]_vars
  PROVE  /\ FaultsCounted' /\ cuts' >= cuts /\ lost' >= lost
         /\ unread' = unread \/ unread' = unread + 1
<1> USE DEF FaultsCounted, NoFault, Unread, Lost, faults
<1>1. CASE PrepareVolume \/ Initialize
  BY <1>1 DEF PrepareVolume, Initialize
<1>2. CASE LoadAll \/ Reload
  <2>1. NoFault \/ Unread
    BY <1>2 DEF LoadAll, Reload, Load
  <2> QED
    BY <2>1
<1>3. CASE SaveVoltage \/ Export \/ CountGamma
  <2>1. NoFault \/ Lost
    BY <1>3 DEF SaveVoltage, Export, CountGamma, Save
  <2> QED
    BY <2>1
<1>4. CASE Change \/ ChangeLengths \/ Inject
  BY <1>4 DEF Change, ChangeLengths, Inject
<1>5. CASE DirectLoad
  BY <1>5 DEF DirectLoad
<1>6. CASE DeleteLength
  BY <1>6 DEF DeleteLength, Delete
<1>7. CASE CountGammaUnread
  BY <1>7 DEF CountGammaUnread
<1>8. CASE PowerCycle
  BY <1>8 DEF PowerCycle
<1>9. CASE UNCHANGED vars
  BY <1>9 DEF vars
<1> QED
  BY <1>1, <1>2, <1>3, <1>4, <1>5, <1>6, <1>7, <1>8, <1>9 DEF Next, Step

\* A save stores its value, or counts as lost.
LEMMA SaveOrLost ==
  ASSUME NEW k, NEW v, Save(k, v), ready
  PROVE  /\ cuts' = cuts
         /\ \A key : key # k => Stored(key)' = Stored(key)
         /\ \/ Stored(k)' = v /\ lost' = lost
            \/ Stored(k)' = Stored(k) /\ lost' = lost + 1
BY DEF Save, NoFault, Lost, faults, Stored

\* The lengths as a load would find them.
LEMMA StoredInRange ==
  ASSUME ValuesOK
  PROVE  \A k \in {"length1", "length2"} : Stored(k) \in 0 .. LENGTH_MAX
BY DefaultsOK DEF ValuesOK, ValueOK, Stored, Destinations, Counters

LEMMA SumGrows ==
  ASSUME NEW a \in Nat, NEW b \in Nat, NEW c \in Nat, NEW d \in Nat, a >= c, b >= d
  PROVE  c + d \in Nat /\ a + b \in Nat /\ c + d <= a + b
OBVIOUS

\* The step an invariant of the lengths has to look at: reads went well so far.
LEMMA LengthsBefore ==
  ASSUME DInv, [Next]_vars, unread' = 0
  PROVE  /\ unread = 0 /\ Drifting
         /\ cuts + lost \in Nat /\ (cuts + lost)' \in Nat /\ cuts + lost <= (cuts + lost)'
         /\ cuts \in Nat /\ lost \in Nat
         /\ pc \notin {"init", "subsys"} => ready /\ registered
         /\ \A k \in {"length1", "length2"} : Stored(k) \in 0 .. LENGTH_MAX
         /\ \A m, n \in Int, a, b \in 0 .. LENGTH_MAX : Near(a, b, m) /\ m <= n => Near(a, b, n)
<1>1. unread = 0
  <2>1. unread \in Nat
    BY DEF DInv, IInv, Control
  <2> QED
    BY <2>1, FaultsKept DEF DInv
<1>2. /\ cuts \in Nat /\ lost \in Nat /\ cuts' \in Nat /\ lost' \in Nat
      /\ cuts' >= cuts /\ lost' >= lost
  BY FaultsKept DEF DInv, FaultsCounted
<1>3. \A m, n \in Int, a, b \in 0 .. LENGTH_MAX : Near(a, b, m) /\ m <= n => Near(a, b, n)
  BY Distances
<1>4. \A k \in {"length1", "length2"} : Stored(k) \in 0 .. LENGTH_MAX
  BY StoredInRange DEF DInv
<1>5. pc \notin {"init", "subsys"} => ready /\ registered
  BY <1>1 DEF DInv, IInv, Control
<1>6. /\ cuts + lost \in Nat /\ cuts' + lost' \in Nat /\ cuts + lost <= cuts' + lost'
  BY <1>2, SumGrows
<1> QED
  BY <1>1, <1>2, <1>3, <1>4, <1>5, <1>6 DEF DInv

LEMMA PrepareVolumeDrifts == ASSUME DInv, PrepareVolume PROVE Drifting'
<1> SUFFICES ASSUME unread' = 0 PROVE Drifting'
  BY DEF Drifting
<1> DEFINE Lengths == {"length1", "length2"}
<1>1. pc = "init" /\ pc' = "subsys"
  BY DEF PrepareVolume, Goto
<1>2. [Next]_vars
  BY DEF Next, Step
<1>3. CASE storage' = storage
  <2>1. \A k \in Lengths : Stored(k)' = Stored(k)
    BY <1>3 DEF Stored
  <2> QED
    BY <1>1, <1>2, <2>1, LengthsBefore DEF Drifting, BeforeTheLengths, BehindTheExports
<1>4. CASE storage' = [k \in {} |-> 0]
  <2>1. \A k \in Lengths : Stored(k)' = Defaults[k]
    BY <1>4 DEF Stored
  <2>2. \A k \in Lengths : Defaults[k] \in 0 .. LENGTH_MAX
    BY DefaultsOK DEF ValueOK, Destinations, Counters
  <2>3. Near(Stored("length1")', Stored("length2")', (cuts + lost)')
    BY <1>2, <2>1, <2>2, Distances, LengthsBefore
  <2> QED
    BY <1>1, <2>3 DEF Drifting, BeforeTheLengths, BehindTheExports
<1> QED
  BY <1>3, <1>4 DEF PrepareVolume, EraseSettingsFile

LEMMA InitializeDrifts == ASSUME DInv, Initialize PROVE Drifting'
<1> SUFFICES ASSUME unread' = 0 PROVE Drifting'
  BY DEF Drifting
<1>1. /\ pc = "subsys" /\ pc' = "load" /\ {"length1", "length2"} \subseteq Counters
      /\ \A k \in Counters : Stored(k)' = atBoot'[k] /\ Stored(k)' = Stored(k)
  BY DEF Initialize, Goto, Stored, Counters
<1>2. [Next]_vars
  BY DEF Next, Step
<1> QED
  BY <1>1, <1>2, LengthsBefore DEF Drifting, BeforeTheLengths, BehindTheExports

\* Until they are counted on, the stored lengths stay those of the boot.
LEMMA BeforeDrifts ==
  ASSUME DInv, LoadAll \/ SaveVoltage \/ Reload \/ Change \/ (Export /\ pc = "save")
  PROVE  Drifting'
<1> SUFFICES ASSUME unread' = 0 PROVE Drifting'
  BY DEF Drifting
<1>1. [Next]_vars
  BY DEF Next, Step
<1>2. /\ pc \in BeforeTheLengths /\ pc' \in BeforeTheLengths /\ UNCHANGED atBoot
  BY DEF LoadAll, SaveVoltage, Reload, Change, Export, BeforeTheLengths, Goto
<1>3. \A k \in {"length1", "length2"} : Stored(k) = atBoot[k] /\ atBoot[k] \in 0 .. LENGTH_MAX
  BY <1>1, <1>2, LengthsBefore DEF Drifting
<1>4. \A k \in {"length1", "length2"} : Stored(k)' = Stored(k)
  <2>1. CASE LoadAll \/ Reload \/ Change
    BY <2>1 DEF LoadAll, Reload, Change, Stored
  <2>2. CASE SaveVoltage
    BY <2>2, SaveStores DEF SaveVoltage
  <2>3. CASE Export /\ pc = "save"
    <3>1. \A k \in {"length1", "length2"} : ram[k] = atBoot[k]
      BY <1>1, <2>3, LengthsBefore DEF DInv, IInv, Counting, Uncounted
    <3>2. Save(Head(todo), ram[Head(todo)])
      BY <2>3 DEF Export
    <3> QED
      BY <1>3, <3>1, <3>2, SaveStores
  <2> QED
    BY <2>1, <2>2, <2>3
<1>5. Near(atBoot["length1"], atBoot["length2"], (cuts + lost)')
  BY <1>1, <1>2, <1>3, LengthsBefore DEF Drifting
<1>6. pc' \notin {"init", "subsys", "saveagain"} \union BehindTheExports
  BY <1>2 DEF BeforeTheLengths, BehindTheExports
<1> QED
  BY <1>2, <1>3, <1>4, <1>5, <1>6 DEF Drifting

LEMMA ExportsInOrder ==
  BetaExport \o AlphaExport =
    <<"voltage", "source", "angle", "length", "length1", "length2">>
<1> DEFINE all == <<"voltage", "source", "angle", "length", "length1", "length2">>
<1>1. /\ BetaExport \in Seq(Destinations) /\ Len(BetaExport) = 2
      /\ BetaExport[1] = "voltage" /\ BetaExport[2] = "source"
  BY DEF BetaExport, Destinations, Counters
<1>2. /\ AlphaExport \in Seq(Destinations) /\ Len(AlphaExport) = 4
      /\ AlphaExport[1] = "angle" /\ AlphaExport[2] = "length"
      /\ AlphaExport[3] = "length1" /\ AlphaExport[4] = "length2"
  BY DEF AlphaExport, Destinations, Counters
<1>3. /\ all \in Seq(Destinations) /\ Len(all) = 6
      /\ all[1] = "voltage" /\ all[2] = "source" /\ all[3] = "angle"
      /\ all[4] = "length" /\ all[5] = "length1" /\ all[6] = "length2"
  BY DEF Destinations, Counters
<1> HIDE DEF all
<1> DEFINE joined == BetaExport \o AlphaExport
<1>4. /\ joined \in Seq(Destinations)
      /\ Len(joined) = Len(BetaExport) + Len(AlphaExport)
      /\ \A i \in 1 .. Len(BetaExport) + Len(AlphaExport) : joined[i] =
           IF i <= Len(BetaExport) THEN BetaExport[i] ELSE AlphaExport[i - Len(BetaExport)]
  <2>1. ASSUME NEW s \in Seq(Destinations), NEW t \in Seq(Destinations)
        PROVE  /\ s \o t \in Seq(Destinations)
               /\ Len(s \o t) = Len(s) + Len(t)
               /\ \A i \in 1 .. Len(s) + Len(t) : (s \o t)[i] =
                    IF i <= Len(s) THEN s[i] ELSE t[i - Len(s)]
    BY ConcatProperties
  <2> QED
    BY <1>1, <1>2, <2>1, Zenon
<1> HIDE DEF joined
<1>5. Len(joined) = 6
  BY <1>1, <1>2, <1>4
<1>6. ASSUME NEW i \in 1 .. 6 PROVE joined[i] = all[i]
  <2>1. i = 1 \/ i = 2 \/ i = 3 \/ i = 4 \/ i = 5 \/ i = 6
    OBVIOUS
  <2> QED
    BY <1>1, <1>2, <1>3, <1>4, <2>1
<1>7. joined = all
  BY <1>3, <1>4, <1>5, <1>6, SeqEqual
<1> QED
  BY <1>7 DEF all, joined

\* The lengths are counted on in their destinations, and are still to be saved.
LEMMA ChangeLengthsDrifts == ASSUME DInv, ChangeLengths PROVE Drifting'
<1> SUFFICES ASSUME unread' = 0 PROVE Drifting'
  BY DEF Drifting
<1>1. [Next]_vars
  BY DEF Next, Step
<1>2. pc = "save" /\ pc' = "saveagain" /\ UNCHANGED <<storage, atBoot, cuts, lost>>
  BY DEF ChangeLengths, Goto, faults
<1>3. \A k \in {"length1", "length2"} : Stored(k) = atBoot[k] /\ atBoot[k] \in 0 .. LENGTH_MAX
  BY <1>1, <1>2, LengthsBefore DEF Drifting, BeforeTheLengths
<1>4. Near(atBoot["length1"], atBoot["length2"], cuts + lost)
  BY <1>1, <1>2, LengthsBefore DEF Drifting, BeforeTheLengths
<1>5. \A k \in {"length1", "length2"} : ram'[k] = NextValue(k, atBoot'[k])
  <2>1. DOMAIN ram = Destinations /\ \A k \in {"length1", "length2"} : ram[k] = atBoot[k]
    BY <1>1, <1>2, LengthsBefore DEF DInv, IInv, Control, Counting, Uncounted
  <2> QED
    BY <1>2, <2>1, Names DEF ChangeLengths, NextValue, Counters
<1>6. todo' = <<"voltage", "source", "angle", "length", "length1", "length2">>
  <2>1. registered
    BY <1>1, <1>2, LengthsBefore
  <2> QED
    BY <2>1, ExportsInOrder DEF ChangeLengths, ExportOrder
<1>7. todo' \in ExportTails \ {<<>>, <<"length2">>}
  BY <1>6 DEF ExportTails
<1>8. SecondExport'
  BY <1>2, <1>3, <1>5, <1>7 DEF SecondExport, Stored
<1> QED
  BY <1>2, <1>4, <1>8 DEF Drifting, BeforeTheLengths, BehindTheExports

\* The next key to export, and what is left behind it.
LEMMA TailsOfExports ==
  ASSUME NEW t \in ExportTails, t # <<>>
  PROVE  /\ Tail(t) \in ExportTails
         /\ t = <<"length2">> => Head(t) = "length2" /\ Tail(t) = <<>>
         /\ t = <<"length1", "length2">> => Head(t) = "length1" /\ Tail(t) = <<"length2">>
         /\ t \notin {<<"length2">>, <<"length1", "length2">>} =>
              /\ Head(t) \notin {"length1", "length2"}
              /\ Tail(t) \notin {<<"length2">>, <<>>}
<1>1. CASE t = <<"length2">>
  BY <1>1 DEF ExportTails
<1>2. CASE t = <<"length1", "length2">>
  BY <1>2 DEF ExportTails
<1>3. CASE t = <<"length", "length1", "length2">>
  BY <1>3 DEF ExportTails
<1>4. CASE t = <<"angle", "length", "length1", "length2">>
  BY <1>4 DEF ExportTails
<1>5. CASE t = <<"source", "angle", "length", "length1", "length2">>
  BY <1>5 DEF ExportTails
<1>6. CASE t = <<"voltage", "source", "angle", "length", "length1", "length2">>
  BY <1>6 DEF ExportTails
<1> QED
  BY <1>1, <1>2, <1>3, <1>4, <1>5, <1>6 DEF ExportTails

\* The second export saves the lengths one after the other, or loses them.
LEMMA ExportDrifts == ASSUME DInv, Export, pc = "saveagain" PROVE Drifting'
<1> SUFFICES ASSUME unread' = 0 PROVE Drifting'
  BY DEF Drifting
<1> DEFINE L1 == "length1"
           L2 == "length2"
<1>0. PICK first : first = Head(todo)
  OBVIOUS
<1>1. [Next]_vars
  BY DEF Next, Step
<1>2. /\ pc' = pc /\ todo # <<>> /\ todo' = Tail(todo) /\ UNCHANGED <<ram, atBoot>>
      /\ Save(first, ram[first])
  BY <1>0 DEF Export
<1>3. /\ SecondExport /\ ready /\ cuts \in Nat /\ lost \in Nat
      /\ Near(atBoot[L1], atBoot[L2], cuts + lost)
  BY <1>1, LengthsBefore DEF Drifting
<1>4. /\ cuts' = cuts
      /\ \A key : key # first => Stored(key)' = Stored(key)
      /\ \/ Stored(first)' = ram[first] /\ lost' = lost
         \/ Stored(first)' = Stored(first) /\ lost' = lost + 1
  BY <1>2, <1>3, SaveOrLost
<1>5. /\ todo \in ExportTails
      /\ atBoot[L1] \in 0 .. LENGTH_MAX /\ atBoot[L2] \in 0 .. LENGTH_MAX
      /\ ram[L1] = NextLength1(atBoot[L1]) /\ ram[L2] = NextLength2(atBoot[L2])
      /\ ram[L1] = NextValue(L1, atBoot[L1]) /\ ram[L2] = NextValue(L2, atBoot[L2])
  BY <1>3 DEF SecondExport, NextValue
<1>6. Near(atBoot[L1], atBoot[L2], cuts' + lost')
  <2>1. cuts + lost <= cuts' + lost' /\ cuts + lost \in Int /\ cuts' + lost' \in Int
    BY <1>3, <1>4
  <2> QED
    BY <1>3, <1>5, <2>1, Distances
<1>7. /\ Tail(todo) \in ExportTails
      /\ todo = <<L2>> => first = L2 /\ Tail(todo) = <<>>
      /\ todo = <<L1, L2>> => first = L1 /\ Tail(todo) = <<L2>>
      /\ todo \notin {<<L2>>, <<L1, L2>>} =>
              first \notin {L1, L2} /\ Tail(todo) \notin {<<L2>>, <<>>}
  BY <1>0, <1>2, <1>5, TailsOfExports
<1>8. \A k \in {L1, L2} : atBoot'[k] \in 0 .. LENGTH_MAX /\ ram'[k] = NextValue(k, atBoot'[k])
  BY <1>2, <1>5
<1>9. SecondExport'
  <2>1. CASE todo = <<L2>>
    <3>1. todo' = <<>> /\ Stored(L1)' = Stored(L1) /\ Stored(L2) = atBoot[L2]
      BY <1>2, <1>3, <1>4, <1>7, <2>1 DEF SecondExport
    <3>2. \/ Stored(L1) = NextLength1(atBoot[L1])
          \/ Stored(L1) = atBoot[L1] /\ Near(atBoot[L1], atBoot[L2], cuts + lost - 1)
      BY <1>3, <2>1 DEF SecondExport, NextValue
    <3>3. \/ Stored(L2)' = NextLength2(atBoot[L2]) /\ lost' = lost
          \/ Stored(L2)' = atBoot[L2] /\ lost' = lost + 1
      BY <1>4, <1>5, <1>7, <2>1, <3>1
    <3>4. Near(Stored(L1)', Stored(L2)', cuts' + lost')
      <4>1. cuts + lost - 1 \in Int /\ (cuts + lost - 1) + 1 = cuts + lost /\ cuts + lost \in Int
            /\ (lost' = lost + 1 => cuts' + lost' = (cuts + lost) + 1)
            /\ (lost' = lost => cuts' + lost' = cuts + lost)
        BY <1>3, <1>4
      <4>2. CASE Stored(L1) = NextLength1(atBoot[L1])
        <5>1. /\ Near(NextLength1(atBoot[L1]), NextLength2(atBoot[L2]), cuts + lost)
              /\ Near(NextLength1(atBoot[L1]), atBoot[L2], (cuts + lost) + 1)
          BY <1>3, <1>5, <4>1, Distances
        <5>2. CASE lost' = lost
          <6>1. cuts' + lost' = cuts + lost
            BY <4>1, <5>2
          <6>2. Stored(L1)' = NextLength1(atBoot[L1]) /\ Stored(L2)' = NextLength2(atBoot[L2])
            BY <1>3, <3>1, <3>3, <4>2, <5>2
          <6> QED
            BY <5>1, <6>1, <6>2, Zenon
        <5>3. CASE lost' = lost + 1
          <6>1. cuts' + lost' = (cuts + lost) + 1
            BY <4>1, <5>3
          <6>2. Stored(L1)' = NextLength1(atBoot[L1]) /\ Stored(L2)' = atBoot[L2]
            BY <1>3, <3>1, <3>3, <4>2, <5>3
          <6> QED
            BY <5>1, <6>1, <6>2, Zenon
        <5> QED
          BY <3>3, <5>2, <5>3
      <4>3. CASE Stored(L1) = atBoot[L1] /\ Near(atBoot[L1], atBoot[L2], cuts + lost - 1)
        <5>1. Near(atBoot[L1], NextLength2(atBoot[L2]), cuts + lost)
          BY <1>5, <4>1, <4>3, Distances
        <5>2. CASE lost' = lost
          <6>1. cuts' + lost' = cuts + lost
            BY <4>1, <5>2
          <6>2. Stored(L1)' = atBoot[L1] /\ Stored(L2)' = NextLength2(atBoot[L2])
            BY <1>3, <3>1, <3>3, <4>3, <5>2
          <6> QED
            BY <5>1, <6>1, <6>2, Zenon
        <5>3. CASE lost' = lost + 1
          <6>1. Stored(L1)' = atBoot[L1] /\ Stored(L2)' = atBoot[L2]
            BY <1>3, <3>1, <3>3, <4>3, <5>3
          <6> QED
            BY <1>6, <6>1, Zenon
        <5> QED
          BY <3>3, <5>2, <5>3
      <4> QED
        BY <3>2, <4>2, <4>3
    <3> QED
      <4>1. todo' \notin {<<L2>>} /\ todo' \in ExportTails
        BY <1>2, <1>7, <3>1
      <4> QED
        BY <1>8, <3>1, <3>4, <4>1 DEF SecondExport
  <2>2. CASE todo = <<L1, L2>>
    <3>1. /\ todo' = <<L2>> /\ Stored(L2)' = Stored(L2)
          /\ Stored(L1) = atBoot[L1] /\ Stored(L2) = atBoot[L2]
      <4>1. todo \notin {<<>>, <<L2>>}
        BY <2>2
      <4> QED
        BY <1>2, <1>3, <1>4, <1>7, <2>2, <4>1 DEF SecondExport
    <3>2. \/ Stored(L1)' = NextValue(L1, atBoot[L1])
          \/ Stored(L1)' = atBoot[L1] /\ cuts' + lost' - 1 = cuts + lost
      BY <1>3, <1>4, <1>5, <1>7, <2>2, <3>1
    <3>3. todo' # <<>>
      BY <3>1
    <3> QED
      BY <1>2, <1>3, <1>7, <1>8, <3>1, <3>2, <3>3 DEF SecondExport
  <2>3. CASE todo \notin {<<L2>>, <<L1, L2>>}
    <3>1. /\ todo' \notin {<<L2>>, <<>>}
          /\ \A k \in {L1, L2} : Stored(k)' = Stored(k) /\ Stored(k) = atBoot[k]
      BY <1>2, <1>3, <1>4, <1>7, <2>3 DEF SecondExport
    <3> QED
      BY <1>2, <1>7, <1>8, <3>1 DEF SecondExport
  <2> QED
    BY <2>1, <2>2, <2>3
<1> QED
  BY <1>2, <1>6, <1>9 DEF Drifting, BeforeTheLengths, BehindTheExports

\* From the direct load to the end of main the stored lengths stay as they are.
LEMMA RestDrifts ==
  ASSUME DInv, DirectLoad \/ DeleteLength \/ CountGamma \/ CountGammaUnread \/ Inject
  PROVE  Drifting'
<1> SUFFICES ASSUME unread' = 0 PROVE Drifting'
  BY DEF Drifting
<1>1. [Next]_vars
  BY DEF Next, Step
<1>2. ~CountGammaUnread
  BY <1>1, LengthsBefore DEF CountGammaUnread, Unread
<1>3. /\ pc \in {"saveagain", "delete", "gamma", "inject"} /\ pc' \in BehindTheExports
      /\ pc = "saveagain" => todo = <<>>
  BY <1>2 DEF DirectLoad, DeleteLength, CountGamma, Inject, Goto, BehindTheExports
<1>4. \A k \in {"length1", "length2"} : Stored(k)' = Stored(k)
  <2>1. CASE DirectLoad \/ Inject
    BY <2>1 DEF DirectLoad, Inject, Stored
  <2>2. CASE DeleteLength
    BY <2>2 DEF DeleteLength, Delete, Stored
  <2>3. CASE CountGamma
    BY <2>3, SaveStores DEF CountGamma
  <2> QED
    BY <1>2, <2>1, <2>2, <2>3
<1>5. Near(Stored("length1"), Stored("length2"), cuts + lost)
  BY <1>1, <1>3, LengthsBefore DEF Drifting, BehindTheExports, SecondExport
<1>6. Near(Stored("length1"), Stored("length2"), (cuts + lost)')
  BY <1>1, <1>5, LengthsBefore
<1> QED
  BY <1>3, <1>4, <1>6 DEF Drifting, BeforeTheLengths, BehindTheExports

\* A power cut leaves half a boot behind: it counts as one more.
LEMMA PowerCycleDrifts == ASSUME DInv, PowerCycle PROVE Drifting'
<1> SUFFICES ASSUME unread' = 0 PROVE Drifting'
  BY DEF Drifting
<1> DEFINE s1 == Stored("length1")
           s2 == Stored("length2")
           a1 == atBoot["length1"]
           a2 == atBoot["length2"]
<1>1. [Next]_vars
  BY DEF Next
<1>2. /\ pc' = "init" /\ UNCHANGED <<storage, atBoot, lost>>
      /\ pc # "done" => cuts' = cuts + 1
  BY DEF PowerCycle, PowerOn
<1>3. s1 \in 0 .. LENGTH_MAX /\ s2 \in 0 .. LENGTH_MAX
  BY <1>1, LengthsBefore
<1>4. Near(s1, s2, (cuts + lost)')
  <2>1. CASE pc \in {"init", "subsys"} \union BehindTheExports
    BY <1>1, <1>3, <2>1, LengthsBefore DEF Drifting
  <2>2. CASE pc \in BeforeTheLengths
    BY <1>1, <1>3, <2>2, LengthsBefore DEF Drifting
  <2>3. CASE pc = "saveagain"
    <3>1. SecondExport /\ Near(a1, a2, cuts + lost)
      BY <1>1, <2>3, LengthsBefore DEF Drifting
    <3>2. CASE todo = <<>>
      BY <1>1, <1>3, <3>1, <3>2, LengthsBefore DEF SecondExport
    <3>3. CASE todo \notin {<<>>, <<"length2">>}
      BY <1>1, <1>3, <3>1, <3>3, LengthsBefore DEF SecondExport
    <3>4. CASE todo = <<"length2">>
      <4>1. s2 = a2 /\ (s1 = a1 \/ s1 = NextLength1(a1))
        BY <3>1, <3>4 DEF SecondExport, NextValue
      <4>2. cuts + lost \in Int /\ (cuts + lost)' = (cuts + lost) + 1
        <5>1. cuts \in Nat /\ lost \in Nat
          BY <1>1, LengthsBefore
        <5> QED
          BY <1>2, <2>3, <5>1
      <4>3. a1 \in 0 .. LENGTH_MAX /\ a2 \in 0 .. LENGTH_MAX
        BY <3>1 DEF SecondExport
      <4>4. Near(a1, a2, (cuts + lost)') /\ Near(NextLength1(a1), a2, (cuts + lost) + 1)
        BY <1>1, <3>1, <4>2, <4>3, Distances, LengthsBefore
      <4> QED
        BY <4>1, <4>2, <4>4
    <3> QED
      BY <3>2, <3>3, <3>4
  <2> QED
    BY <2>1, <2>2, <2>3 DEF DInv, RestOK, BeforeTheLengths, BehindTheExports
<1> QED
  BY <1>2, <1>4 DEF Drifting, BeforeTheLengths, BehindTheExports, Stored

LEMMA InitDrifts == Init => FaultsCounted /\ Drifting
<1> SUFFICES ASSUME Init PROVE FaultsCounted /\ Drifting
  OBVIOUS
<1>1. cuts = 0 /\ lost = 0 /\ pc = "init" /\ cuts + lost = 0
  BY DEF Init
<1>2. Stored("length1") = Defaults["length1"] /\ Stored("length2") = Defaults["length2"]
  BY DEF Init, Stored
<1> QED
  BY <1>1, <1>2, Distances DEF FaultsCounted, Drifting, BeforeTheLengths, BehindTheExports

LEMMA DriftKept == DInv /\ [Next]_vars => DInv'
<1> SUFFICES ASSUME DInv, [Next]_vars PROVE Drifting'
  BY StepInv, ValuesKept, RestKept, FaultsKept DEF DInv
<1>1. CASE UNCHANGED vars
  BY <1>1 DEF vars, faults, DInv, Drifting, SecondExport, Stored
<1>2. CASE Export
  <2>1. pc \in {"save", "saveagain"}
    BY <1>2 DEF Export
  <2> QED
    BY <1>2, <2>1, BeforeDrifts, ExportDrifts
<1> QED
  BY <1>1, <1>2, PrepareVolumeDrifts, InitializeDrifts, BeforeDrifts,
     ChangeLengthsDrifts, RestDrifts, PowerCycleDrifts
     DEF Next, Step

LEMMA DriftInvariant == Spec => []DInv
<1>1. Init => DInv
  BY InitInv, InitTypes, InitDrifts DEF DInv
<1> QED
  BY <1>1, DriftKept, PTL DEF Spec

\* The two stored lengths run against each other, up to one count for every
\* power cut and every lost save: however many of either there were.
THEOREM LengthsDrift == Spec => []DriftBounded
<1>1. DInv => DriftBounded
  <2> SUFFICES ASSUME DInv, unread = 0, pc \in {"init", "subsys", "load", "done"}
      PROVE  Near(Stored("length1"), Stored("length2"), cuts + lost)
    <3>1. -(cuts + lost) .. cuts + lost = -(cuts + lost) .. (cuts + lost)
      OBVIOUS
    <3> QED
      BY <3>1 DEF DriftBounded, Drift, Near
  <2> QED
    BY DEF DInv, Drifting, BeforeTheLengths, BehindTheExports
<1> QED
  BY <1>1, DriftInvariant, PTL

-----------------------------------------------------------------------------
(* Boots in which every call succeeds.                                     *)

\* What gamma counts on from.
StoredGamma == IF "gamma" \in DOMAIN storage THEN storage["gamma"] ELSE 0

BeforeGamma == {"subsys"} \union BeforeTheLengths \union {"saveagain", "delete", "gamma"}

\* Keys of the subtree that the export under way has still to save.
StillToSave ==
  (IF todo \in {<<>>, <<"length2">>, <<"length1", "length2">>} THEN {} ELSE {"length"})
    \union (IF todo \in {<<>>, <<"length2">>} THEN {} ELSE {"length1"})
    \union (IF todo = <<>> THEN {} ELSE {"length2"})

LengthsThere ==
  /\ pc = "save" =>
       todo \in ExportTails /\ LengthSubtree \ StillToSave \subseteq DOMAIN storage
  /\ pc = "saveagain" => LengthSubtree \subseteq DOMAIN storage
  /\ pc = "delete" => fetched = LengthSubtree
  /\ pc \in {"gamma", "inject", "done"} => "length" \notin DOMAIN storage

GammaCounts ==
  /\ file_backend /\ pc \in BeforeGamma => StoredGamma = 0
  /\ file_backend /\ pc \in {"inject", "done"} => StoredGamma = 1
  /\ ~file_backend /\ cuts = 0 =>
       StoredGamma = (IF pc \in {"inject", "done"} THEN boots ELSE boots - 1) % UINT8_SIZE
  /\ pc \in {"inject", "done"} => "gamma" \in DOMAIN storage

Clean == lost + unread = 0 => LengthsThere /\ GammaCounts
CInv == DInv /\ Clean

LEMMA NoneLost ==
  ASSUME NEW a \in Nat, NEW b \in Nat, NEW c \in Nat, NEW d \in Nat,
         a >= c, b = d \/ b = d + 1, a + b = 0
  PROVE  a = 0 /\ b = 0 /\ c = 0 /\ d = 0
OBVIOUS

\* The step an invariant of the clean boots has to look at.
LEMMA CleanBefore ==
  ASSUME CInv, [Next]_vars, lost' + unread' = 0
  PROVE  /\ lost = 0 /\ unread = 0 /\ lost' = 0 /\ unread' = 0
         /\ LengthsThere /\ GammaCounts
         /\ pc \notin {"init", "subsys"} => ready /\ registered
         /\ cuts \in Nat /\ cuts' \in Nat /\ cuts <= cuts' /\ boots \in Nat \ {0}
<1>1. /\ cuts \in Nat /\ lost \in Nat /\ cuts' \in Nat /\ lost' \in Nat
      /\ cuts' >= cuts /\ lost' >= lost
      /\ unread' = unread \/ unread' = unread + 1
  BY FaultsKept DEF CInv, DInv, FaultsCounted
<1>2. unread \in Nat /\ unread' \in Nat
  BY StepInv DEF CInv, DInv, IInv, Control
<1>3. lost = 0 /\ unread = 0 /\ lost' = 0 /\ unread' = 0
  BY <1>1, <1>2, NoneLost
<1>4. lost + unread = 0
  BY <1>3
<1>5. pc \notin {"init", "subsys"} => ready /\ registered
  BY <1>3 DEF CInv, DInv, IInv, Control
<1>6. boots \in Nat \ {0}
  BY SettingsAssumption DEF CInv, DInv, RestOK
<1> QED
  BY <1>1, <1>3, <1>4, <1>5, <1>6 DEF CInv, Clean

\* A save that does not fail stores its value.
LEMMA CleanSave ==
  ASSUME NEW k, NEW v, Save(k, v), ready, lost = 0, lost' = 0
  PROVE  storage' = [j \in DOMAIN storage \union {k} |-> IF j = k THEN v ELSE storage[j]]
BY DEF Save, Lost

\* An export that takes one key off the list saves that key.
LEMMA ExportSavesNext ==
  ASSUME todo \in ExportTails, todo # <<>>, todo' = Tail(todo)
  PROVE  LengthSubtree \ StillToSave' \subseteq (LengthSubtree \ StillToSave) \union {Head(todo)}
<1>1. CASE todo = <<"length2">>
  BY <1>1 DEF StillToSave, LengthSubtree
<1>2. CASE todo = <<"length1", "length2">>
  BY <1>2 DEF StillToSave, LengthSubtree
<1>3. CASE todo = <<"length", "length1", "length2">>
  BY <1>3 DEF StillToSave, LengthSubtree
<1>4. CASE todo \notin {<<"length2">>, <<"length1", "length2">>, <<"length", "length1", "length2">>}
  <2>1. todo' \notin {<<>>, <<"length2">>, <<"length1", "length2">>}
    <3>1. CASE todo = <<"angle", "length", "length1", "length2">>
      BY <3>1
    <3>2. CASE todo = <<"source", "angle", "length", "length1", "length2">>
      BY <3>2
    <3>3. CASE todo = <<"voltage", "source", "angle", "length", "length1", "length2">>
      BY <3>3
    <3> QED
      BY <1>4, <3>1, <3>2, <3>3 DEF ExportTails
  <2> QED
    BY <2>1 DEF StillToSave, LengthSubtree
<1> QED
  BY <1>1, <1>2, <1>3, <1>4

LEMMA LengthsThereKept ==
  ASSUME CInv, [Next]_vars, lost' + unread' = 0
  PROVE  LengthsThere'
<1> USE DEF Goto
<1>0. /\ lost = 0 /\ unread = 0 /\ lost' = 0 /\ unread' = 0 /\ LengthsThere
      /\ pc \notin {"init", "subsys"} => ready /\ registered
  BY CleanBefore
<1>1. CASE PrepareVolume \/ Initialize \/ LoadAll \/ SaveVoltage \/ Reload \/ PowerCycle
  <2>1. pc' \in {"subsys", "load", "voltage", "reload", "change", "init"}
    BY <1>1
       DEF PrepareVolume, Initialize, LoadAll, SaveVoltage, Reload, PowerCycle, PowerOn
  <2> QED
    BY <2>1 DEF LengthsThere
<1>2. CASE Change
  <2>1. todo' = <<"voltage", "source", "angle", "length", "length1", "length2">> /\ pc' = "save"
    BY <1>0, <1>2, ExportsInOrder DEF Change, ExportOrder
  <2>2. todo' \in ExportTails /\ todo' \notin {<<>>, <<"length2">>, <<"length1", "length2">>}
    BY <2>1 DEF ExportTails
  <2>3. LengthSubtree \ StillToSave' = {}
    BY <2>2 DEF StillToSave, LengthSubtree
  <2> QED
    BY <2>1, <2>2, <2>3 DEF LengthsThere
<1>3. CASE Export
  <2>1. PICK k : k = Head(todo)
    OBVIOUS
  <2>2. /\ Save(k, ram[k]) /\ pc \in {"save", "saveagain"} /\ pc' = pc
        /\ todo # <<>> /\ todo' = Tail(todo)
    BY <1>3, <2>1 DEF Export
  <2>3. DOMAIN storage' = DOMAIN storage \union {k}
    BY <1>0, <2>2, CleanSave
  <2>4. CASE pc = "save"
    <3>1. todo \in ExportTails /\ LengthSubtree \ StillToSave \subseteq DOMAIN storage
      BY <1>0, <2>4 DEF LengthsThere
    <3>2. LengthSubtree \ StillToSave' \subseteq (LengthSubtree \ StillToSave) \union {k}
      BY <2>1, <2>2, <3>1, ExportSavesNext
    <3>3. todo' \in ExportTails
      BY <2>2, <3>1, TailsOfExports
    <3> QED
      BY <2>2, <2>3, <2>4, <3>1, <3>2, <3>3 DEF LengthsThere
  <2>5. CASE pc = "saveagain"
    BY <1>0, <2>2, <2>3, <2>5 DEF LengthsThere
  <2> QED
    BY <2>2, <2>4, <2>5
<1>4. CASE ChangeLengths
  <2>1. StillToSave = {} /\ pc = "save" /\ pc' = "saveagain" /\ storage' = storage
    BY <1>4 DEF ChangeLengths, StillToSave
  <2> QED
    BY <1>0, <2>1 DEF LengthsThere
<1>5. CASE DirectLoad
  <2>1. pc = "saveagain" /\ pc' = "delete" /\ fetched' = Delivered(LengthSubtree)
    BY <1>0, <1>5 DEF DirectLoad, Unread
  <2> QED
    BY <1>0, <2>1 DEF LengthsThere, Delivered
<1>6. CASE DeleteLength
  <2>1. pc' = "gamma" /\ "length" \notin DOMAIN storage'
    BY <1>0, <1>6 DEF DeleteLength, Delete, Lost
  <2> QED
    BY <2>1 DEF LengthsThere
<1>7. CASE CountGamma
  <2>1. PICK v : Save("gamma", v) /\ pc = "gamma" /\ pc' = "inject"
    BY <1>7 DEF CountGamma
  <2>2. "length" \in DOMAIN storage' => "length" \in DOMAIN storage
    BY <2>1, SaveEffect
  <2> QED
    BY <1>0, <2>1, <2>2 DEF LengthsThere
<1>8. CASE CountGammaUnread
  BY <1>0, <1>8 DEF CountGammaUnread, Unread
<1>9. CASE Inject
  BY <1>0, <1>9 DEF Inject, LengthsThere
<1>10. CASE UNCHANGED vars
  BY <1>0, <1>10 DEF vars, LengthsThere, StillToSave
<1> QED
  BY <1>1, <1>2, <1>3, <1>4, <1>5, <1>6, <1>7, <1>8, <1>9, <1>10 DEF Next, Step

\* The arithmetic of gamma.
LEMMA Successor ==
  ASSUME NEW n \in Nat
  PROVE  /\ ((n % UINT8_SIZE) + 1) % UINT8_SIZE = (n + 1) % UINT8_SIZE
         /\ (0 + 1) % UINT8_SIZE = 1 /\ 0 % UINT8_SIZE = 0
<1> DEFINE U == UINT8_SIZE
           q == n \div U
           x == n % U
<1>1. U \in Nat /\ U > 1
  BY SettingsAssumption
<1>2. q \in Int /\ x \in 0 .. U - 1 /\ n = U*q + x
  BY <1>1
<1>3. (0 + 1) % U = 1 /\ 0 % U = 0
  BY <1>1
<1> HIDE DEF U, q, x
<1>4. CASE x + 1 < U
  <2>1. n + 1 = U*q + (x + 1) /\ n + 1 \in Int /\ x + 1 \in 0 .. U - 1
    BY <1>1, <1>2, <1>4
  <2>2. x + 1 = U*0 + (x + 1) /\ x + 1 \in Int
    BY <1>1, <1>2
  <2>3. (n + 1) % U = x + 1 /\ (x + 1) % U = x + 1
    BY <1>1, <1>2, <2>1, <2>2, RemainderUnique
  <2> QED
    BY <1>3, <2>3 DEF U, x
<1>5. CASE x + 1 = U
  <2>1. U*(q + 1) = U*q + U /\ U*q \in Int
    BY <1>1, <1>2
  <2>2. n + 1 = U*(q + 1) + 0 /\ x + 1 = U*1 + 0
    BY <1>1, <1>2, <1>5, <2>1
  <2>3. n + 1 \in Int /\ x + 1 \in Int /\ q + 1 \in Int /\ 0 \in 0 .. U - 1
    BY <1>1, <1>2
  <2>4. (n + 1) % U = 0
    BY <1>1, <2>2, <2>3, RemainderUnique
  <2>5. (x + 1) % U = 0
    BY <1>1, <2>2, <2>3, RemainderUnique
  <2> QED
    BY <1>3, <2>4, <2>5 DEF U, x
<1> QED
  BY <1>1, <1>2, <1>4, <1>5

\* Every other step leaves gamma alone.
LEMMA GammaAlone ==
  ASSUME CInv, Initialize \/ LoadAll \/ SaveVoltage \/ Reload \/ Change \/ Export \/ ChangeLengths
                 \/ DirectLoad \/ DeleteLength \/ Inject
  PROVE  /\ StoredGamma' = StoredGamma /\ UNCHANGED <<file_backend, boots>>
         /\ "gamma" \in DOMAIN storage => "gamma" \in DOMAIN storage'
<1> USE DEF board
<1>1. CASE Initialize \/ LoadAll \/ Reload \/ Change \/ ChangeLengths \/ DirectLoad
             \/ Inject
  BY <1>1
     DEF Initialize, LoadAll, Reload, Change, ChangeLengths, DirectLoad, Inject,
         StoredGamma
<1>2. CASE SaveVoltage \/ Export
  <2>1. PICK k, v : Save(k, v) /\ k # "gamma"
    <3>1. CASE SaveVoltage
      BY <3>1 DEF SaveVoltage
    <3>2. CASE Export
      <4>1. Head(todo) \in Destinations
        BY <3>2, ExportsAreDestinations DEF Export, CInv, DInv, RestOK
      <4> QED
        BY <3>2, <4>1, Names DEF Export
    <3> QED
      BY <1>2, <3>1, <3>2
  <2>2. StoredGamma' = StoredGamma
    BY <2>1, SaveEffect DEF StoredGamma
  <2> QED
    BY <1>2, <2>1, <2>2, SaveEffect DEF SaveVoltage, Export
<1>3. CASE DeleteLength
  BY <1>3 DEF DeleteLength, Delete, StoredGamma
<1> QED
  BY <1>1, <1>2, <1>3

LEMMA GammaCountsKept ==
  ASSUME CInv, [Next]_vars, lost' + unread' = 0
  PROVE  GammaCounts'
<1> USE DEF Goto, board
<1>0. /\ lost = 0 /\ unread = 0 /\ lost' = 0 /\ unread' = 0 /\ GammaCounts
      /\ pc \notin {"init", "subsys"} => ready /\ registered
      /\ cuts \in Nat /\ cuts' \in Nat /\ cuts <= cuts' /\ boots \in Nat \ {0}
  BY CleanBefore
<1>1. CASE PrepareVolume
  <2>1. /\ pc = "init" /\ pc' = "subsys" /\ UNCHANGED <<file_backend, boots, cuts>>
        /\ EraseSettingsFile
    BY <1>0, <1>1 DEF PrepareVolume, Unread, NoFault, faults
  <2>2. file_backend => StoredGamma' = 0
    BY <2>1 DEF EraseSettingsFile, StoredGamma
  <2>3. ~file_backend => StoredGamma' = StoredGamma
    BY <2>1 DEF EraseSettingsFile, StoredGamma
  <2> QED
    BY <1>0, <2>1, <2>2, <2>3 DEF GammaCounts, BeforeGamma
<1>2. CASE Initialize \/ LoadAll \/ SaveVoltage \/ Reload \/ Change \/ Export \/ ChangeLengths
             \/ DirectLoad \/ DeleteLength
  <2>1. pc \in BeforeGamma /\ pc' \in BeforeGamma
    BY <1>2 DEF Initialize, LoadAll, SaveVoltage, Reload, Change, Export, ChangeLengths,
                DirectLoad, DeleteLength, BeforeGamma, BeforeTheLengths
  <2>2. pc' \notin {"inject", "done"} /\ pc \notin {"inject", "done"}
    BY <2>1 DEF BeforeGamma, BeforeTheLengths
  <2>3. cuts' = 0 => cuts = 0
    BY <1>0
  <2> QED
    BY <1>0, <1>2, <2>1, <2>2, <2>3, GammaAlone DEF GammaCounts
<1>3. CASE CountGamma
  <2>1. /\ Save("gamma", (GammaLoads + 1) % UINT8_SIZE)
        /\ pc = "gamma" /\ pc' = "inject" /\ UNCHANGED <<file_backend, boots>>
    BY <1>3 DEF CountGamma
  <2>2. GammaLoads = StoredGamma
    BY <1>0, <2>1 DEF GammaLoads, StoredGamma, Delivered
  <2>3. "gamma" \in DOMAIN storage' /\ StoredGamma' = (StoredGamma + 1) % UINT8_SIZE
    <3>1. PICK v : v = (StoredGamma + 1) % UINT8_SIZE
      OBVIOUS
    <3>2. storage' = [j \in DOMAIN storage \union {"gamma"} |->
                        IF j = "gamma" THEN v ELSE storage[j]]
      <4>1. Save("gamma", v)
        BY <2>1, <2>2, <3>1
      <4>2. ready
        BY <1>0, <2>1
      <4> QED
        BY <1>0, <4>1, <4>2, CleanSave
    <3> QED
      BY <3>1, <3>2 DEF StoredGamma
  <2>4. ASSUME file_backend PROVE StoredGamma' = 1
    <3>1. StoredGamma = 0
      BY <1>0, <2>1, <2>4 DEF GammaCounts, BeforeGamma
    <3> QED
      BY <2>3, <3>1, Successor
  <2>5. ASSUME ~file_backend, cuts' = 0 PROVE StoredGamma' = boots % UINT8_SIZE
    <3>1. cuts = 0
      BY <1>0, <2>5
    <3>2. StoredGamma = (boots - 1) % UINT8_SIZE
      BY <1>0, <2>1, <2>5, <3>1 DEF GammaCounts
    <3>3. boots - 1 \in Nat /\ (boots - 1) + 1 = boots
      BY <1>0
    <3> QED
      BY <2>3, <3>2, <3>3, Successor
  <2> QED
    BY <2>1, <2>3, <2>4, <2>5 DEF GammaCounts, BeforeGamma, BeforeTheLengths
<1>4. CASE CountGammaUnread
  BY <1>0, <1>4 DEF CountGammaUnread, Unread
<1>5. CASE Inject
  <2>1. pc = "inject" /\ pc' = "done"
    BY <1>5 DEF Inject
  <2>2. cuts' = 0 => cuts = 0
    BY <1>0
  <2> QED
    BY <1>0, <1>5, <2>1, <2>2, GammaAlone DEF GammaCounts, BeforeGamma, BeforeTheLengths
<1>6. CASE PowerCycle
  <2>1. /\ pc' = "init" /\ UNCHANGED <<file_backend, storage>> /\ boots' = boots + 1
        /\ cuts' = 0 => pc = "done" /\ cuts = 0
    BY <1>0, <1>6 DEF PowerCycle, PowerOn
  <2>2. boots' - 1 = boots
    BY <1>0, <2>1
  <2> QED
    BY <1>0, <2>1, <2>2 DEF GammaCounts, StoredGamma, BeforeGamma, BeforeTheLengths
<1>7. CASE UNCHANGED vars
  BY <1>0, <1>7 DEF vars, faults, GammaCounts, StoredGamma
<1> QED
  BY <1>1, <1>2, <1>3, <1>4, <1>5, <1>6, <1>7 DEF Next, Step

LEMMA CleanInvariant == Spec => []CInv
<1>1. Init => CInv
  <2> SUFFICES ASSUME Init PROVE Clean
    BY InitInv, InitTypes, InitDrifts DEF DInv, CInv
  <2>1. LengthsThere
    BY DEF Init, LengthsThere
  <2>2. StoredGamma = 0 /\ pc = "init" /\ boots - 1 = 0
    BY DEF Init, StoredGamma
  <2>3. GammaCounts
    BY <2>2, Successor DEF GammaCounts, BeforeGamma, BeforeTheLengths
  <2> QED
    BY <2>1, <2>3 DEF Clean
<1>2. CInv /\ [Next]_vars => CInv'
  <2> SUFFICES ASSUME CInv, [Next]_vars PROVE CInv'
    OBVIOUS
  <2>1. DInv'
    BY DriftKept DEF CInv
  <2>2. Clean'
    BY LengthsThereKept, GammaCountsKept DEF Clean
  <2> QED
    BY <2>1, <2>2 DEF CInv
<1> QED
  BY <1>1, <1>2, PTL DEF Spec

\* While no call fails, the direct load reads all it prints, the deleted key is
\* gone at the end, and gamma holds the number of boots.
THEOREM CleanRunsWork == Spec => []CleanRun
<1>1. CInv => CleanRun
  BY DEF CInv, Clean, LengthsThere, GammaCounts, StoredGamma, CleanRun
<1> QED
  BY <1>1, CleanInvariant, PTL
=============================================================================
