----------------------------- MODULE LittlefsBoot -----------------------------
(***************************************************************************)
(* littlefs_flash: each boot mounts the volume, lists it, and counts the   *)
(* byte kept in the file boot_count on by one.  littlefs commits a file    *)
(* when it is closed: until then the old contents stay.                    *)
(*                                                                         *)
(* Names that FatSample has too are qualified here, so that one module can *)
(* extend both.                                                            *)
(***************************************************************************)
EXTENDS SampleBoots

CONSTANTS
  UINT8_SIZE,    \* 256
  ROOT_ENTRIES,  \* entries lsdir meets
  AUTOMOUNTS     \* whether the overlay of a build has "automount"

ASSUME LittlefsBootAssumption ==
  /\ UINT8_SIZE \in Nat \ {0, 1} /\ ROOT_ENTRIES \in Nat
  /\ AUTOMOUNTS \subseteq BOOLEAN

VARIABLES
  automount,     \* this build's overlay has it
  stored,        \* the byte in boot_count, -1 while the file is empty or absent
  lfs_file,      \* the open file: what closing it would store
  lfs_pos,       \* its position
  boot_count,    \* the local variable
  entries,       \* entries lsdir has still to read
  lfs_mounted,
  rc,            \* result of the last step, 0 or -1
  \* history
  commits,       \* boots whose value has reached the volume
  counted,       \* this boot's has
  unstored       \* this boot's write returned, and had stored nothing

bootrecord == <<automount, commits, counted, unstored>>
bootvars == <<stored, lfs_file, lfs_pos, boot_count, entries, lfs_mounted, rc, pc,
              bootrecord, boots, faults>>

Empty == -1
NotOpen == -2

BootTypeOK ==
  /\ stored \in Empty .. UINT8_SIZE - 1
  /\ lfs_file \in NotOpen .. UINT8_SIZE - 1
  /\ lfs_pos \in 0 .. 1
  /\ boot_count \in 0 .. UINT8_SIZE - 1
  /\ entries \in 0 .. ROOT_ENTRIES
  /\ lfs_mounted \in BOOLEAN /\ rc \in {-1, 0}
  /\ pc \in {"mount", "statvfs", "opendir", "readdir", "open", "read", "seek",
             "write", "close", "unmount", "done"}
  /\ automount \in AUTOMOUNTS
  /\ commits \in 0 .. MAX_BOOTS /\ counted \in BOOLEAN /\ unstored \in BOOLEAN
  /\ boots \in 1 .. MAX_BOOTS /\ faults \in 0 .. MAX_FAULTS

BootPowerOn ==
  /\ lfs_file' = NotOpen /\ lfs_pos' = 0 /\ boot_count' = 0 /\ entries' = 0
  /\ lfs_mounted' = FALSE /\ rc' = 0
  /\ counted' = FALSE /\ unstored' = FALSE
  /\ pc' = "mount"

BootInit ==
  /\ stored = Empty
  /\ lfs_file = NotOpen /\ lfs_pos = 0 /\ boot_count = 0 /\ entries = 0
  /\ lfs_mounted = FALSE /\ rc = 0
  /\ automount \in AUTOMOUNTS
  /\ commits = 0 /\ counted = FALSE /\ unstored = FALSE
  /\ boots = 1 /\ faults = 0
  /\ pc = "mount"

\* A call that leads on to `next`, or fails and leads to `failed`.
Result(next, failed) ==
  \/ Works /\ rc' = 0 /\ Goto(next)
  \/ Fails /\ rc' = -1 /\ Goto(failed)

-----------------------------------------------------------------------------
\* The volume is mounted by main, or before main when the overlay has automount:
\* main does not ask then whether that has worked.
MountVolume ==
  /\ pc = "mount"
  /\ \/ Works /\ rc' = 0 /\ lfs_mounted' = TRUE /\ Goto("statvfs")
     \/ Fails /\ rc' = -1 /\ lfs_mounted' = FALSE
         /\ Goto(IF automount THEN "statvfs" ELSE "done")
  /\ UNCHANGED <<stored, lfs_file, lfs_pos, boot_count, entries, bootrecord>>

\* A volume that has not been mounted is not found.
Statvfs ==
  /\ pc = "statvfs"
  /\ IF lfs_mounted
       THEN Result("opendir", "unmount")
       ELSE Works /\ rc' = -1 /\ Goto("unmount")
  /\ UNCHANGED <<stored, lfs_file, lfs_pos, boot_count, entries, lfs_mounted, bootrecord>>

OpenDir ==
  /\ pc = "opendir"
  /\ Result("readdir", "unmount")
  /\ entries' = ROOT_ENTRIES
  /\ UNCHANGED <<stored, lfs_file, lfs_pos, boot_count, lfs_mounted, bootrecord>>

\* lsdir reads until an entry without a name, or an error, which it returns.
ReadDir ==
  /\ pc = "readdir"
  /\ IF entries > 0
       THEN entries' = entries - 1 /\ Result("readdir", "unmount")
       ELSE UNCHANGED entries /\ Result("open", "unmount")
  /\ UNCHANGED <<stored, lfs_file, lfs_pos, boot_count, lfs_mounted, bootrecord>>

-----------------------------------------------------------------------------
\* littlefs_increase_infile_value.
OpenCounter ==
  /\ pc = "open"
  /\ Result("read", "unmount")
  /\ boot_count' = 0
  /\ lfs_pos' = 0
  /\ lfs_file' = IF rc' = 0 THEN stored ELSE NotOpen
  /\ UNCHANGED <<stored, entries, lfs_mounted, bootrecord>>

\* Mutant of ReadCounter: a failing read is ignored.
ReadIgnored ==
  /\ pc = "read"
  /\ Result("seek", "seek")
  /\ IF rc' = 0 /\ lfs_file # Empty
       THEN boot_count' = lfs_file /\ lfs_pos' = 1
       ELSE UNCHANGED <<boot_count, lfs_pos>>
  /\ UNCHANGED <<stored, lfs_file, entries, lfs_mounted, bootrecord>>

\* Reading an empty file delivers nothing, and boot_count stays 0.
ReadCounter ==
  /\ pc = "read"
  /\ Result("seek", "close")
  /\ IF rc' = 0 /\ lfs_file # Empty
       THEN boot_count' = lfs_file /\ lfs_pos' = 1
       ELSE UNCHANGED <<boot_count, lfs_pos>>
  /\ UNCHANGED <<stored, lfs_file, entries, lfs_mounted, bootrecord>>

\* Mutant of SeekCounter: the value is written behind the old one.
SeekOmitted ==
  /\ pc = "seek"
  /\ Result("write", "close")
  /\ UNCHANGED <<stored, lfs_file, lfs_pos, boot_count, entries, lfs_mounted, bootrecord>>

SeekCounter ==
  /\ pc = "seek"
  /\ Result("write", "close")
  /\ lfs_pos' = IF rc' = 0 THEN 0 ELSE lfs_pos
  /\ UNCHANGED <<stored, lfs_file, boot_count, entries, lfs_mounted, bootrecord>>

\* Mutant of WriteCounter: the count is wider than its byte.
WriteWide ==
  /\ pc = "write"
  /\ boot_count' = boot_count + 1
  /\ Result("close", "close")
  /\ lfs_file' = IF rc' = 0 /\ lfs_pos = 0 THEN boot_count' ELSE lfs_file
  /\ UNCHANGED <<stored, lfs_pos, entries, lfs_mounted, bootrecord>>

\* boot_count is incremented before the write; a byte written behind the first
\* one would leave the counter as it is.
WriteCounter ==
  /\ pc = "write"
  /\ boot_count' = (boot_count + 1) % UINT8_SIZE
  /\ Result("close", "close")
  /\ lfs_file' = IF rc' = 0 /\ lfs_pos = 0 THEN boot_count' ELSE lfs_file
  /\ UNCHANGED <<stored, lfs_pos, entries, lfs_mounted, bootrecord>>

\* A write that returns 0 has stored nothing; only a negative result is refused.
WriteStoresNothing ==
  /\ pc = "write"
  /\ Fails
  /\ boot_count' = (boot_count + 1) % UINT8_SIZE
  /\ unstored' = TRUE
  /\ rc' = 0
  /\ Goto("close")
  /\ UNCHANGED <<stored, lfs_file, lfs_pos, entries, lfs_mounted, automount,
                 commits, counted>>

\* Closing commits (external); a failing close may have committed.
Commit ==
  /\ stored' = lfs_file
  /\ commits' = IF lfs_file = stored THEN commits ELSE commits + 1
  /\ counted' = (counted \/ lfs_file # stored)

Abandon == UNCHANGED <<stored, commits, counted>>

\* Mutant of CloseCounter: the result of the close alone is returned.
CloseForgetsError ==
  /\ pc = "close"
  /\ \/ Works /\ Commit /\ rc' = 0
     \/ Fails /\ (Commit \/ Abandon) /\ rc' = -1
  /\ lfs_file' = NotOpen
  /\ Goto("unmount")
  /\ UNCHANGED <<lfs_pos, boot_count, entries, lfs_mounted, automount, unstored>>

\* The result of the close takes precedence over that of the step before.
CloseCounter ==
  /\ pc = "close"
  /\ \/ Works /\ Commit /\ rc' = rc
     \/ Fails /\ (Commit \/ Abandon) /\ rc' = -1
  /\ lfs_file' = NotOpen
  /\ Goto("unmount")
  /\ UNCHANGED <<lfs_pos, boot_count, entries, lfs_mounted, automount, unstored>>

\* main returns 0 whatever has happened.  A volume that is not mounted is
\* refused, which is logged only.
UnmountVolume ==
  /\ pc = "unmount"
  /\ \/ Works /\ lfs_mounted' = FALSE
     \/ lfs_mounted /\ Fails /\ UNCHANGED lfs_mounted
  /\ Goto("done")
  /\ UNCHANGED <<stored, lfs_file, lfs_pos, boot_count, entries, rc, bootrecord>>

Step ==
  \/ MountVolume \/ Statvfs \/ OpenDir \/ ReadDir
  \/ OpenCounter \/ ReadCounter \/ SeekCounter \/ WriteCounter \/ WriteStoresNothing
  \/ CloseCounter \/ UnmountVolume

\* Power may be cut at any time; what was not committed is lost.
BootPowerCycle ==
  /\ boots < MAX_BOOTS
  /\ boots' = boots + 1
  /\ BootPowerOn
  /\ UNCHANGED <<automount, stored, commits, faults>>

BootNext == Step \/ BootPowerCycle

BootSpec == BootInit /\ [][BootNext]_bootvars

-----------------------------------------------------------------------------
\* The byte counts the boots whose value was committed, modulo 256: no boot
\* counts twice, none is lost once committed, and a failed read, seek or write
\* leaves the counter as it was.
CountsCommits ==
  stored = IF commits = 0 THEN Empty ELSE commits % UINT8_SIZE

\* littlefs_increase_infile_value returns 0 only if this boot has been counted,
\* whichever call failed, except after a write that returned without an error
\* and had stored nothing: that is for littlefs not to do.
ReportedMeansCounted ==
  pc = "unmount" /\ rc = 0 => counted \/ unstored

\* Whatever fails, the volume is not unmounted under an open file; and as long
\* as no call fails and main runs to its end, every boot is counted and leaves
\* the volume unmounted.
CleanBoot ==
  /\ pc = "unmount" => lfs_file = NotOpen
  /\ pc = "done" /\ faults = 0 => counted /\ ~lfs_mounted
=============================================================================
