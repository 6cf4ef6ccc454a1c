------------------------------ MODULE FatSample ------------------------------
(***************************************************************************)
(* The FAT samples: mount a volume, and in each round open the test file,  *)
(* write a text at its start, read it back, compare, close; then unmount.  *)
(* fatfs_flash has one volume and one round, fatfs_sd three rounds with a  *)
(* text of their own, two_fatfs_flash two volumes one after the other that *)
(* share one FatFs work area.                                              *)
(*                                                                         *)
(* For the volume fatfs_flash tests there is a second program, ppt_main,   *)
(* that checks what an earlier boot has left: it reads the text and writes *)
(* it again behind what it has read, and looks at no result.               *)
(*                                                                         *)
(* A text has two units, the words and the number of its round.  A file is *)
(* the sequence of its units; the card takes an overwritten unit at the    *)
(* latest when the file is closed.                                         *)
(***************************************************************************)
EXTENDS SampleBoots, Sequences

CONSTANTS
  SAMPLES        \* records: volumes in the order they are tested, rounds
                 \* (TEST_ITERATIONS), and the set of volumes ppt_main checks

\* The volumes are mounted at different places.  The texts of several rounds
\* overwrite each other, ppt_main knows but one.
ASSUME FatSampleAssumption ==
  \A s \in SAMPLES :
    /\ s.rounds \in Nat \ {0}
    /\ Len(s.volumes) \in Nat \ {0}
    /\ \A m, n \in 1 .. Len(s.volumes) : s.volumes[m] = s.volumes[n] => m = n
    /\ s.ppt \subseteq {s.volumes[n] : n \in 1 .. Len(s.volumes)}
    /\ s.ppt # {} => s.rounds = 1

VARIABLES
  sample,        \* the sample at hand
  image,         \* the program this boot runs: "main" or "ppt"
  disk,          \* disk[v]: the test file of volume v, <<>> if empty or absent
  mounted,       \* volumes mounted
  workarea,      \* the volume fat_fs was last mounted for
  file,          \* the open file: volume, contents, position
  v, i,          \* volume under test, round
  read_buff,     \* what fs_read delivered
  text,          \* test_str of ppt_main
  \* history
  written,       \* the write of this round took the whole text
  kept           \* volumes a boot has written the whole text to and closed

board == <<sample, image>>
history == <<written, kept, boots, faults>>
vars == <<board, disk, mounted, workarea, file, v, i, read_buff, text, pc, history>>

VOLUMES == sample.volumes
ROUNDS == sample.rounds
NoFile == [open |-> FALSE, volume |-> VOLUMES[1], cells |-> <<>>, pos |-> 0]
Volumes == {VOLUMES[n] : n \in 1 .. Len(VOLUMES)}
Volume == VOLUMES[v]

Words == -1
\* Mutant of test_str: the same text in every round.
SameText == <<Words, 0>>

test_str == <<Words, i>>

Text == <<Words, 0>>
Cells == Seq({Words} \union 0 .. ROUNDS)

TypeOK ==
  /\ sample \in SAMPLES /\ image \in {"main", "ppt"}
  /\ disk \in [Volumes -> Cells]
  /\ mounted \subseteq Volumes
  /\ workarea \in Volumes
  /\ file \in [open : BOOLEAN, volume : Volumes, cells : Cells, pos : Nat]
  /\ file.pos <= Len(file.cells)
  /\ v \in 1 .. Len(VOLUMES) + 1 /\ i \in 0 .. ROUNDS
  /\ read_buff \in Cells /\ text \in Cells
  /\ pc \in {"mount", "open", "write", "seek", "read", "compare", "closetwice",
             "close", "unmount", "pptmount", "pptopen", "pptread", "pptwrite",
             "pptclose", "pptunmount", "done"}
  /\ written \in BOOLEAN /\ kept \subseteq Volumes
  /\ boots \in 1 .. MAX_BOOTS /\ faults \in 0 .. MAX_FAULTS

Images == IF sample.ppt = {} THEN {"main"} ELSE {"main", "ppt"}

PowerOn ==
  /\ image' \in Images
  /\ mounted' = {} /\ workarea' = VOLUMES[1]
  /\ file' = NoFile
  /\ v' = 1 /\ i' = 0
  /\ read_buff' = <<>>
  /\ text' = Text
  /\ written' = FALSE
  /\ pc' = IF image' = "main" THEN "mount" ELSE "pptmount"

Init ==
  /\ sample \in SAMPLES
  /\ image \in Images
  /\ disk = [u \in Volumes |-> <<>>]
  /\ mounted = {} /\ workarea = VOLUMES[1]
  /\ file = NoFile
  /\ v = 1 /\ i = 0
  /\ read_buff = <<>>
  /\ text = Text
  /\ written = FALSE /\ kept = {}
  /\ pc = IF image = "main" THEN "mount" ELSE "pptmount"
  /\ boots = 1 /\ faults = 0

Smaller(a, b) == IF a < b THEN a ELSE b

-----------------------------------------------------------------------------
\* fatfs_test returns: main goes on to the next volume, or ends.
Leave ==
  /\ v' = v + 1
  /\ i' = 0
  /\ Goto(IF v < Len(VOLUMES) THEN "mount" ELSE "done")

\* Mutant of Mount: the file is opened even if mounting has failed.
MountIgnored ==
  /\ pc = "mount"
  /\ \/ /\ Works
        /\ mounted' = mounted \union {Volume}
        /\ workarea' = Volume
     \/ Fails /\ UNCHANGED <<mounted, workarea>>
  /\ Goto("open")
  /\ UNCHANGED <<disk, file, v, i, read_buff, written>>

Mount ==
  /\ pc = "mount"
  /\ \/ /\ Works
        /\ mounted' = mounted \union {Volume}
        /\ workarea' = Volume
        /\ Goto("open")
        /\ UNCHANGED <<v, i>>
     \/ /\ Fails
        /\ Leave
        /\ UNCHANGED <<mounted, workarea>>
  /\ UNCHANGED <<disk, file, read_buff, written>>

Open ==
  /\ pc = "open"
  /\ \/ /\ Works
        /\ file' = [open |-> TRUE, volume |-> Volume, cells |-> disk[Volume], pos |-> 0]
        /\ Goto("write")
     \/ Fails /\ Goto("unmount") /\ UNCHANGED file
  /\ written' = FALSE
  /\ UNCHANGED <<disk, mounted, workarea, v, i, read_buff>>

\* The file after n units of str have been written at its position.
Put(str, n) ==
  [file EXCEPT
     !.cells = SubSeq(@, 1, file.pos) \o SubSeq(str, 1, n)
                 \o SubSeq(@, file.pos + n + 1, Len(@)),
     !.pos = @ + n]

\* Errors, and writes cut short by a full volume, are logged, and the round
\* goes on.
Write ==
  /\ pc = "write"
  /\ \E n \in 0 .. 2 :
       /\ \/ n = 2 /\ Works
          \/ n < 2 /\ Fails
       /\ file' = Put(test_str, n)
       /\ written' = (n = 2)
  /\ Goto("seek")
  /\ UNCHANGED <<disk, mounted, workarea, v, i, read_buff>>

\* Mutant of Seek: the file is read from where the write has ended.
SeekForgotten ==
  /\ pc = "seek"
  /\ Works
  /\ Goto("read")
  /\ UNCHANGED <<disk, mounted, workarea, file, v, i, read_buff, written>>

Seek ==
  /\ pc = "seek"
  /\ \/ Works /\ file' = [file EXCEPT !.pos = 0]
     \/ Fails /\ UNCHANGED file
  /\ Goto("read")
  /\ UNCHANGED <<disk, mounted, workarea, v, i, read_buff, written>>

Read ==
  /\ pc = "read"
  /\ LET n == Smaller(2, Len(file.cells) - file.pos) IN
       \/ /\ Works
          /\ read_buff' = SubSeq(file.cells, file.pos + 1, file.pos + n)
          /\ file' = [file EXCEPT !.pos = @ + n]
          /\ Goto("compare")
       \/ /\ Fails
          /\ Goto("closetwice")
          /\ UNCHANGED <<read_buff, file>>
  /\ UNCHANGED <<disk, mounted, workarea, v, i, written>>

Matches == read_buff = test_str

Compare ==
  /\ pc = "compare"
  /\ Goto("close")
  /\ UNCHANGED <<disk, mounted, workarea, file, v, i, read_buff, history>>

\* fs_close (external) gives the file up whatever it returns; closing a file
\* that is not open changes nothing.
Committed == [disk EXCEPT ![file.volume] = file.cells]

CloseFile ==
  /\ file' = [file EXCEPT !.open = FALSE]
  /\ IF file.open
       THEN \/ /\ Works
               /\ disk' = Committed
               /\ kept' = IF written THEN kept \union {file.volume} ELSE kept
            \/ /\ Fails
               /\ disk' = Committed \/ UNCHANGED disk
               /\ UNCHANGED kept
       ELSE (Works \/ Fails) /\ UNCHANGED <<disk, kept>>

\* After a failing read the file is closed here and once more at err_close.
CloseAfterReadError ==
  /\ pc = "closetwice"
  /\ CloseFile
  /\ Goto("close")
  /\ UNCHANGED <<mounted, workarea, v, i, read_buff, written>>

\* Mutant of Close: one round too many.
CloseLate ==
  /\ pc = "close"
  /\ CloseFile
  /\ i' = i + 1
  /\ Goto(IF i <= ROUNDS THEN "open" ELSE "unmount")
  /\ UNCHANGED <<mounted, workarea, v, read_buff, written>>

Close ==
  /\ pc = "close"
  /\ CloseFile
  /\ i' = i + 1
  /\ Goto(IF i + 1 < ROUNDS THEN "open" ELSE "unmount")
  /\ UNCHANGED <<mounted, workarea, v, read_buff, written>>

\* A failing unmount is logged; the volume stays mounted.
Unmount ==
  /\ pc = "unmount"
  /\ \/ Works /\ mounted' = mounted \ {Volume}
     \/ Fails /\ UNCHANGED mounted
  /\ Leave
  /\ UNCHANGED <<disk, workarea, file, read_buff, written>>

MainStep ==
  /\ \/ Mount \/ Open \/ Write \/ Seek \/ Read \/ Compare \/ Unmount
  /\ UNCHANGED <<board, text, kept>>

MainClose == (CloseAfterReadError \/ Close) /\ UNCHANGED <<board, text>>

-----------------------------------------------------------------------------
\* main of ppt_main.c.  No result is looked at.
PptVolume == CHOOSE u \in sample.ppt : TRUE

PptMount ==
  /\ pc = "pptmount"
  /\ \/ /\ Works
        /\ mounted' = mounted \union {PptVolume}
        /\ workarea' = PptVolume
     \/ Fails /\ UNCHANGED <<mounted, workarea>>
  /\ Goto("pptopen")
  /\ UNCHANGED <<disk, file, v, i, read_buff, text, written, kept>>

PptOpen ==
  /\ pc = "pptopen"
  /\ \/ /\ Works
        /\ PptVolume \in mounted
        /\ file' = [open |-> TRUE, volume |-> PptVolume, cells |-> disk[PptVolume], pos |-> 0]
     \/ Works /\ PptVolume \notin mounted /\ UNCHANGED file
     \/ Fails /\ UNCHANGED file
  /\ Goto("pptread")
  /\ UNCHANGED <<disk, mounted, workarea, v, i, read_buff, text, written, kept>>

\* Mutant of PptCount: sz is one less than the text.
PptCountShort == Smaller(1, Len(file.cells) - file.pos)

PptCount == Smaller(2, Len(file.cells) - file.pos)

PptRead ==
  /\ pc = "pptread"
  /\ file.open
  /\ Works
  /\ read_buff' = SubSeq(file.cells, file.pos + 1, file.pos + PptCount)
  /\ file' = [file EXCEPT !.pos = @ + PptCount]
  /\ Goto("pptwrite")
  /\ UNCHANGED <<disk, mounted, workarea, v, i, text, written, kept>>

\* read_buff[brw] = 0 with the error in brw is undefined: the byte in front of
\* the buffer may be unused, belong to the text and end it, or stop the program.
PptReadFails ==
  /\ pc = "pptread"
  /\ IF file.open THEN Fails ELSE Works
  /\ read_buff' = <<>>
  /\ \/ Goto("pptwrite") /\ \E n \in 0 .. 2 : text' = SubSeq(Text, 1, n)
     \/ Goto("done") /\ UNCHANGED text
  /\ UNCHANGED <<disk, mounted, workarea, file, v, i, written, kept>>

\* The write goes on where the read has ended.
PptWrite ==
  /\ pc = "pptwrite"
  /\ IF file.open
       THEN \E n \in 0 .. Len(text) :
              /\ \/ n = Len(text) /\ Works
                 \/ n < Len(text) /\ Fails
              /\ file' = Put(text, n)
              /\ written' = (file.pos = 0 /\ n = 2)
       ELSE Works /\ UNCHANGED <<file, written>>
  /\ Goto("pptclose")
  /\ UNCHANGED <<disk, mounted, workarea, v, i, read_buff, text, kept>>

PptClose ==
  /\ pc = "pptclose"
  /\ CloseFile
  /\ Goto("pptunmount")
  /\ UNCHANGED <<mounted, workarea, v, i, read_buff, text, written>>

PptUnmount ==
  /\ pc = "pptunmount"
  /\ \/ Works /\ mounted' = mounted \ {PptVolume}
     \/ Fails /\ UNCHANGED mounted
  /\ Goto("done")
  /\ UNCHANGED <<disk, workarea, file, v, i, read_buff, text, written, kept>>

PptStep ==
  /\ \/ PptMount \/ PptOpen \/ PptRead \/ PptReadFails \/ PptWrite
     \/ PptClose \/ PptUnmount
  /\ UNCHANGED board

-----------------------------------------------------------------------------
\* The board is switched off and on again, with the one program or the other on
\* it; an open file may have reached the card or not.
PowerCycle ==
  /\ boots < MAX_BOOTS
  /\ boots' = boots + 1
  /\ \/ UNCHANGED disk
     \/ file.open /\ disk' = Committed
  /\ PowerOn
  /\ UNCHANGED <<sample, kept, faults>>

Next == MainStep \/ MainClose \/ PptStep \/ PowerCycle

Spec == Init /\ [][Next]_vars

-----------------------------------------------------------------------------
\* "Data read successfully" is logged only in a round whose write took the
\* whole text: the rounds overwrite each other's text, so that the text of an
\* earlier one cannot pass for it.  (The text of an earlier boot can, which is
\* why the statement is about the first.)
MatchMeansWritten ==
  pc = "compare" /\ boots = 1 /\ Matches => written

\* As long as no call fails every round reads back what it has written, also
\* over what earlier boots and power cuts have left.
CleanRoundMatches ==
  pc = "compare" /\ faults = 0 => Matches

\* While a file is open, the work area belongs to its volume, although both
\* volumes use the same one and an unmount may have failed.
WorkAreaOfOpenFile ==
  file.open => file.volume = workarea /\ workarea \in mounted

\* What ppt_main is there to show: once a boot has written the whole text to the
\* start of a file and closed it without an error, the text stays there, through
\* power cuts, failing calls, and boots of either program: main writes over it,
\* ppt_main behind it, and the undefined write after a failing read can shorten
\* what is written, but writes it no later than at the start.
TextSurvives ==
  sample.rounds = 1 =>
    \A u \in kept : Len(disk[u]) >= 2 /\ SubSeq(disk[u], 1, 2) = Text
=============================================================================
