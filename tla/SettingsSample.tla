---------------------------- MODULE SettingsSample ----------------------------
(***************************************************************************)
(* settings/samples: one boot loads the settings into their destinations,  *)
(* counts each of them on, saves them key by key, deletes one key, counts  *)
(* a key that has no handler, and injects a value at run time.  Power may  *)
(* be cut between any two calls: the destinations are lost, the storage    *)
(* keeps every key as last saved.                                          *)
(*                                                                         *)
(* A string destination is its length and where its text comes from; the   *)
(* voltage is counted in steps of 25 below its default.                    *)
(***************************************************************************)
EXTENDS Integers, Sequences, FiniteSets

CONSTANTS
  FILE_BACKENDS,   \* values CONFIG_SETTINGS_FILE may have
  UINT8_SIZE,      \* 256: values of angle_val and of gamma
  LENGTH_MAX,      \* 100: largest value of length_1_val and length_2_val
  LENGTH_1,        \* 40: default of length_1_val
  SOURCE_SIZE,     \* 6: sizeof(source_name_val)
  MAX_BOOTS,       \* bound: boots
  MAX_FAULTS       \* bound: calls that fail

ASSUME SettingsAssumption ==
  /\ FILE_BACKENDS \subseteq BOOLEAN
  /\ UINT8_SIZE \in Nat \ {0, 1}
  /\ LENGTH_MAX \in Nat /\ LENGTH_1 \in 0 .. LENGTH_MAX
  /\ SOURCE_SIZE \in Nat /\ SOURCE_SIZE > 4
  /\ MAX_BOOTS \in Nat \ {0} /\ MAX_FAULTS \in Nat

VARIABLES
  file_backend, \* whether this build uses the file backend
  storage,      \* the keys saved, as a function
  ram,          \* the destinations of the keys that have one
  ready,        \* the settings subsystem has a backend it can use; while it is
                \* being initialised, its volume is mounted
  registered,   \* alpha_handler is registered
  todo,         \* keys settings_save has still to export
  pc,
  \* history
  boots,        \* power-ons so far
  atBoot,       \* the stored counters when the settings were loaded
  applied,      \* keys settings_load has assigned
  fetched,      \* fields example_direct_load_subtree has assigned
  cuts, lost, unread   \* power cuts, failed saves and deletes, other failed calls

board == <<file_backend, boots>>
faults == <<cuts, lost, unread>>
vars == <<board, storage, ram, ready, registered, todo, pc, atBoot, applied, fetched, faults>>

AlphaExport == <<"angle", "length", "length1", "length2">>
BetaExport == <<"voltage", "source">>
Counters == {"angle", "length1", "length2", "voltage"}
Destinations == Counters \union {"length", "source"}
LengthSubtree == {"length", "length1", "length2"}

Text(n) == [len |-> n, injected |-> FALSE]
InjectedText(n) == [len |-> n, injected |-> TRUE]

Defaults ==
  [k \in Destinations |->
     CASE k = "source"  -> Text(0)
       [] k = "length"  -> LENGTH_MAX
       [] k = "length1" -> LENGTH_1
       [] k = "length2" -> LENGTH_MAX - LENGTH_1
       [] OTHER         -> 0]

InWidth(k, val) ==
  /\ k \in {"angle", "gamma"} => val \in 0 .. UINT8_SIZE - 1
  /\ k \in {"length1", "length2"} => val \in 0 .. LENGTH_MAX
  /\ k = "source" => val.len \in 0 .. SOURCE_SIZE - 1

TypeOK ==
  /\ file_backend \in FILE_BACKENDS
  /\ DOMAIN storage \subseteq Destinations \union {"gamma"}
  /\ DOMAIN ram = Destinations
  /\ \A k \in DOMAIN ram : InWidth(k, ram[k])
  /\ \A k \in DOMAIN storage : InWidth(k, storage[k])
  /\ ready \in BOOLEAN /\ registered \in BOOLEAN
  /\ todo \in Seq(Destinations)
  /\ pc \in {"init", "subsys", "load", "voltage", "reload", "change", "save", "saveagain",
             "delete", "gamma", "inject", "done"}
  /\ boots \in 1 .. MAX_BOOTS
  /\ applied \subseteq Destinations /\ fetched \subseteq LengthSubtree

\* Destinations are static: at power-on they have their initial values.
PowerOn ==
  /\ ram' = Defaults
  /\ ready' = FALSE /\ registered' = FALSE
  /\ todo' = <<>>
  /\ applied' = {} /\ fetched' = {}
  /\ pc' = "init"

Init ==
  /\ file_backend \in FILE_BACKENDS
  /\ storage = [k \in {} |-> 0]
  /\ ram = Defaults
  /\ ready = FALSE /\ registered = FALSE
  /\ todo = <<>>
  /\ pc = "init"
  /\ boots = 1
  /\ atBoot = [k \in Counters |-> Defaults[k]]
  /\ applied = {} /\ fetched = {}
  /\ cuts = 0 /\ lost = 0 /\ unread = 0

Goto(label) == pc' = label
MayFail == lost + unread < MAX_FAULTS
NoFault == UNCHANGED faults
Unread == MayFail /\ unread' = unread + 1 /\ UNCHANGED <<cuts, lost>>
Lost == MayFail /\ lost' = lost + 1 /\ UNCHANGED <<cuts, unread>>

-----------------------------------------------------------------------------
\* The settings subsystem (external).  Without a usable backend nothing is
\* delivered and nothing is stored.
Save(k, v) ==
  \/ ready /\ NoFault /\ storage' = [j \in DOMAIN storage \union {k} |->
                                       IF j = k THEN v ELSE storage[j]]
  \/ ready /\ Lost /\ UNCHANGED storage
  \/ ~ready /\ NoFault /\ UNCHANGED storage

Delete(k) ==
  \/ ready /\ NoFault /\ storage' = [j \in DOMAIN storage \ {k} |-> storage[j]]
  \/ ready /\ Lost /\ UNCHANGED storage
  \/ ~ready /\ NoFault /\ UNCHANGED storage

Delivered(keys) == IF ready THEN keys \intersect DOMAIN storage ELSE {}

\* alpha_handle_set knows no key of one component and so not "length";
\* beta_handle_set refuses a text that takes more than 5 bytes with its zero.
AlphaHandles(k) == registered /\ k \in {"angle", "length1", "length2"}
BetaHandles(k) ==
  \/ k = "voltage"
  \/ k = "source" /\ storage[k].len + 1 <= SOURCE_SIZE - 1

Handled(keys) == {k \in Delivered(keys) : AlphaHandles(k) \/ BetaHandles(k)}

\* Handlers assign what they can read; a failing read passes unnoticed.
Load(keys) ==
  \E assigned \in SUBSET Handled(keys) :
    /\ Cardinality(Handled(keys) \ assigned) <= 1
    /\ IF assigned = Handled(keys) THEN NoFault ELSE Unread
    /\ ram' = [k \in Destinations |-> IF k \in assigned THEN storage[k] ELSE ram[k]]
    /\ applied' = applied \union assigned

-----------------------------------------------------------------------------
\* Mutant of EraseSettingsFile: the file of the last boot is kept.
KeepSettingsFile == UNCHANGED storage

\* example_initialization.  The file backend removes the settings file at each
\* boot.  Failures are logged only: without its volume the file stays, and the
\* function goes on.
EraseSettingsFile ==
  IF file_backend THEN storage' = [k \in {} |-> 0] ELSE UNCHANGED storage

PrepareVolume ==
  /\ pc = "init"
  /\ \/ NoFault /\ EraseSettingsFile /\ ready' = TRUE
     \/ /\ file_backend /\ Unread /\ UNCHANGED storage
        /\ ready' \in BOOLEAN       \* fs_unlink fails, or fs_mount and the volume
                                   \* is not there or has been mounted before
  /\ Goto("subsys")
  /\ UNCHANGED <<ram, registered, todo, board, atBoot, applied, fetched>>

\* settings_subsys_init, which needs the volume and whose failure ends the
\* function, then settings_register.
Initialize ==
  /\ pc = "subsys"
  /\ \/ NoFault /\ UNCHANGED ready /\ registered' = TRUE
     \/ Unread /\ UNCHANGED ready /\ registered' = FALSE
     \/ /\ IF ready THEN Unread ELSE NoFault
        /\ ready' = FALSE /\ registered' = FALSE
  /\ atBoot' = [k \in Counters |->
       IF k \in DOMAIN storage THEN storage[k] ELSE Defaults[k]]
  /\ Goto("load")
  /\ UNCHANGED <<storage, ram, todo, board, applied, fetched>>

\* example_save_and_load_basic.
LoadAll ==
  /\ pc = "load"
  /\ Load(Destinations)
  /\ Goto("voltage")
  /\ UNCHANGED <<storage, ready, registered, todo, board, atBoot, fetched>>

SaveVoltage ==
  /\ pc = "voltage"
  /\ Save("voltage", ram["voltage"] - 1)
  /\ Goto("reload")
  /\ UNCHANGED <<ram, ready, registered, todo, board, atBoot, applied, fetched>>

\* Mutant of Reload: nothing is loaded, the voltage stays that of the boot.
ReloadNothing ==
  /\ pc = "reload"
  /\ Goto("change")
  /\ UNCHANGED <<storage, ram, ready, registered, todo, board, atBoot, applied, fetched, faults>>

\* settings_load_subtree("alpha/beta").
Reload ==
  /\ pc = "reload"
  /\ Load({"voltage", "source"})
  /\ Goto("change")
  /\ UNCHANGED <<storage, ready, registered, todo, board, atBoot, fetched>>

GrownSource(s) ==
  IF s.len < SOURCE_SIZE - 1 THEN [s EXCEPT !.len = @ + 1] ELSE [s EXCEPT !.len = 0]

\* settings_save asks the static handler first.
ExportOrder == BetaExport \o (IF registered THEN AlphaExport ELSE <<>>)

\* Mutants of Change: length_1_val is counted here as well; angle_val is wider
\* than its byte.
ChangeLengthEarly ==
  /\ pc = "change"
  /\ ram' = [ram EXCEPT !["source"] = GrownSource(@),
                        !["angle"] = (@ + 1) % UINT8_SIZE,
                        !["length1"] = IF @ + 1 > LENGTH_MAX THEN 0 ELSE @ + 1]
  /\ todo' = ExportOrder
  /\ Goto("save")
  /\ UNCHANGED <<storage, ready, registered, board, atBoot, applied, fetched, faults>>

ChangeWide ==
  /\ pc = "change"
  /\ ram' = [ram EXCEPT !["source"] = GrownSource(@), !["angle"] = @ + 1]
  /\ todo' = ExportOrder
  /\ Goto("save")
  /\ UNCHANGED <<storage, ready, registered, board, atBoot, applied, fetched, faults>>

Change ==
  /\ pc = "change"
  /\ ram' = [ram EXCEPT !["source"] = GrownSource(@),
                        !["angle"] = (@ + 1) % UINT8_SIZE]
  /\ todo' = ExportOrder
  /\ Goto("save")
  /\ UNCHANGED <<storage, ready, registered, board, atBoot, applied, fetched, faults>>

\* The results of the exports are ignored.
Export ==
  /\ pc \in {"save", "saveagain"}
  /\ todo # <<>>
  /\ Save(Head(todo), ram[Head(todo)])
  /\ todo' = Tail(todo)
  /\ UNCHANGED <<ram, ready, registered, pc, board, atBoot, applied, fetched>>

NextLength1(n) == IF n + 1 > LENGTH_MAX THEN 0 ELSE n + 1

\* Mutant of NextLength2: the value stops at 0.
NextLength2Saturated(n) == IF n = 0 THEN 0 ELSE n - 1

\* --length_2_val > 100 holds once the unsigned value has passed 0.
NextLength2(n) == IF n = 0 THEN LENGTH_MAX ELSE n - 1

ChangeLengths ==
  /\ pc = "save"
  /\ todo = <<>>
  /\ ram' = [ram EXCEPT !["length1"] = NextLength1(@), !["length2"] = NextLength2(@)]
  /\ todo' = ExportOrder
  /\ Goto("saveagain")
  /\ UNCHANGED <<storage, ready, registered, board, atBoot, applied, fetched, faults>>

\* example_direct_load_subtree: fields that are not delivered, or cannot be
\* read, stay uninitialised and are printed all the same.
DirectLoad ==
  /\ pc = "saveagain"
  /\ todo = <<>>
  /\ \/ fetched' = Delivered(LengthSubtree) /\ NoFault
     \/ Unread /\ \E k \in Delivered(LengthSubtree) :
          fetched' = Delivered(LengthSubtree) \ {k}
  /\ Goto("delete")
  /\ UNCHANGED <<storage, ram, ready, registered, todo, board, atBoot, applied>>

\* example_delete: the two immediate loads around the deletion only log.
DeleteLength ==
  /\ pc = "delete"
  /\ Delete("length")
  /\ Goto("gamma")
  /\ UNCHANGED <<ram, ready, registered, todo, board, atBoot, applied, fetched>>

\* Mutant of GammaLoads: the default is taken whatever is stored.
GammaDefault == 0

\* example_without_handler: the value to save, from load_immediate_value.
GammaLoads ==
  IF "gamma" \in Delivered({"gamma"}) THEN storage["gamma"] ELSE 0

CountGamma ==
  /\ pc = "gamma"
  /\ Save("gamma", (GammaLoads + 1) % UINT8_SIZE)
  /\ Goto("inject")
  /\ UNCHANGED <<ram, ready, registered, todo, board, atBoot, applied, fetched>>

\* The read fails: val_u8 is the default or has never been initialised; the
\* save of it may fail as well.
CountGammaUnread ==
  /\ pc = "gamma"
  /\ "gamma" \in Delivered({"gamma"})
  /\ Unread
  /\ \/ \E garbage \in 0 .. UINT8_SIZE - 1 :
          storage' = [storage EXCEPT !["gamma"] = (garbage + 1) % UINT8_SIZE]
     \/ UNCHANGED storage
  /\ Goto("inject")
  /\ UNCHANGED <<ram, ready, registered, todo, board, atBoot, applied, fetched>>

\* Mutant of Inject: the injected value is saved as well.
InjectAndSave ==
  /\ pc = "inject"
  /\ ram' = [ram EXCEPT !["source"] = InjectedText(4)]
  /\ Save("source", InjectedText(2))
  /\ Goto("done")
  /\ UNCHANGED <<ready, registered, todo, board, atBoot, applied, fetched>>

\* example_runtime_usage: "RT" goes through beta_handle_set, then "rtos" is
\* copied over it and read back.
Inject ==
  /\ pc = "inject"
  /\ ram' = [ram EXCEPT !["source"] = InjectedText(4)]
  /\ Goto("done")
  /\ UNCHANGED <<storage, ready, registered, todo, board, atBoot, applied, fetched, faults>>

Step ==
  \/ PrepareVolume \/ Initialize \/ LoadAll \/ SaveVoltage \/ Reload \/ Change
  \/ Export \/ ChangeLengths \/ DirectLoad \/ DeleteLength \/ CountGamma
  \/ CountGammaUnread \/ Inject

\* The board is switched off and on again, before or after main has returned.
PowerCycle ==
  /\ boots < MAX_BOOTS
  /\ boots' = boots + 1
  /\ cuts' = IF pc = "done" THEN cuts ELSE cuts + 1
  /\ PowerOn
  /\ UNCHANGED <<file_backend, storage, atBoot, lost, unread>>

Next == Step \/ PowerCycle

Spec == Init /\ [][Next]_vars

-----------------------------------------------------------------------------
\* What a load makes of a counter: its stored value or else the default.
Stored(k) == IF k \in DOMAIN storage THEN storage[k] ELSE Defaults[k]

NextValue(k, v) ==
  CASE k = "angle"   -> (v + 1) % UINT8_SIZE
    [] k = "length1" -> NextLength1(v)
    [] k = "length2" -> NextLength2(v)
    [] k = "voltage" -> v - 1

\* A boot counts each stored value on once or not at all, although it saves
\* most of them twice and voltage three times, and wherever the power is cut or
\* a save fails: from initialisation on, a step leaves a stored counter as it is
\* or makes it the successor of the value at boot.  Nothing is skipped, and what
\* has been counted on is not set back by an export that saves an older value.
\* A failing read is excluded: the destination keeps its default, and the export
\* saves that.
CountsOnceABoot ==
  [][unread = 0 /\ pc # "init" =>
       \A k \in Counters : Stored(k)' \in {Stored(k), NextValue(k, atBoot[k])}]_vars

\* length/1 and length/2 run against each other, their sum is LENGTH_MAX modulo
\* LENGTH_MAX + 1.  They are saved by two calls, so that each power cut and each
\* failed save may shift the stored pair, but by one count and not for more.
Drift == (Stored("length1") + Stored("length2") + 1) % (LENGTH_MAX + 1)

DriftBounded ==
  unread = 0 /\ pc \in {"init", "subsys", "load", "done"} =>
    Drift \in {d % (LENGTH_MAX + 1) : d \in -(cuts + lost) .. cuts + lost}

\* A value injected at run time stays in its destination: no export saves it.
InjectedNotSaved ==
  "source" \in DOMAIN storage => ~storage["source"].injected

\* While no call fails, the direct load assigns every field it prints, the
\* deleted key is gone when main returns, and gamma counts the boots.
CleanRun ==
  lost + unread = 0 =>
    /\ pc = "delete" => fetched = LengthSubtree
    /\ pc = "done" => /\ "length" \notin DOMAIN storage
                      /\ file_backend => storage["gamma"] = 1
                      /\ ~file_backend /\ cuts = 0 => storage["gamma"] = boots % UINT8_SIZE

\* "All of them will be overwritten if storage contain proper key-values", of
\* alpha/length: a load that meets no fault assigns it if it is stored.
LengthIsOverwritten ==
  pc = "voltage" /\ unread = 0 /\ "length" \in DOMAIN storage => "length" \in applied
=============================================================================
