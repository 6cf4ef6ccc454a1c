--------------------------- MODULE FsSampleProofs ---------------------------
(***************************************************************************)
(* The samples of both file systems.                                       *)
(*                                                                         *)
(* FAT.  For any samples, any number of volumes, rounds, boots and failing *)
(* calls: a match of the first boot means that the text was written, clean *)
(* rounds match, the work area belongs to the open file, and the text that *)
(* a boot has committed stays.                                             *)
(*                                                                         *)
(* The argument follows the open file through a round.  It stands at its   *)
(* start when the text is written, so that the write replaces the text of  *)
(* an earlier round by its own or a part of it; up to that write every     *)
(* unit on the volume is older than the round (OnlyOlder).  ppt_main finds *)
(* the file at its start or behind the text it has read, and in either     *)
(* place what it writes leaves a whole text whole (WholeTextStays).        *)
(*                                                                         *)
(* littlefs.  For a counter of any width, any number of boots and failing  *)
(* calls: boot_count counts the boots whose close committed, and           *)
(* littlefs_increase_infile_value returns 0 only when it was counted.      *)
(*                                                                         *)
(* Neither is inductive.  The invariant follows the value on its way from  *)
(* the volume through boot_count into the open file: until the write the   *)
(* file holds what is stored, after it the successor, and the file that is *)
(* closed holds one of the two.                                            *)
(***************************************************************************)
EXTENDS FatSample, LittlefsBoot, SequenceTheorems, TLAPS

-----------------------------------------------------------------------------
(* The invariant.                                                          *)

InRound == {"write", "seek", "read", "compare", "closetwice", "close"}
Using == InRound \union {"open", "unmount"}
MainPlaces == Using \union {"mount"}
PptOpened == {"pptread", "pptwrite", "pptclose"}
PptPlaces == PptOpened \union {"pptmount", "pptopen", "pptunmount"}

\* Where each program may be, and in which volume and round.
ControlInv ==
  /\ image = "main" => pc \in MainPlaces \union {"done"}
  /\ image = "ppt" => pc \in PptPlaces \union {"done"} /\ sample.ppt # {}
  /\ pc \in MainPlaces => v <= Len(VOLUMES)
  /\ pc = "mount" => i = 0
  /\ pc \in InRound \union {"open"} => i < ROUNDS

\* The work area, and the file on it.
FileInv ==
  /\ pc \in Using => workarea = Volume /\ Volume \in mounted
  /\ image = "ppt" /\ PptVolume \in mounted => workarea = PptVolume
  /\ pc \in InRound => file.volume = Volume
  /\ pc \in InRound \ {"close"} => file.open
  /\ file.open => file.volume = workarea /\ workarea \in mounted
  /\ file.open /\ image = "main" => pc \in InRound
  /\ file.open /\ image = "ppt" => pc \in PptOpened \union {"done"}
  /\ pc \in {"write", "pptread"} /\ file.open => file.pos = 0

HasText(cells, str) == Len(cells) >= 2 /\ cells[1] = str[1] /\ cells[2] = str[2]

\* Without a failing call a round reads what it has written.
CleanInv ==
  faults = 0 =>
    /\ pc \in {"seek", "read"} => HasText(file.cells, test_str)
    /\ pc = "read" => file.pos = 0
    /\ pc = "compare" => read_buff = test_str

Below(cells, bound) == \A k \in 1 .. Len(cells) : cells[k] < bound

\* In the first boot every unit is of an earlier round until this round's write
\* has taken its text, and the volumes to come are empty.
OlderInv ==
  boots = 1 /\ image = "main" =>
    /\ \A m \in 1 .. Len(VOLUMES) :
         m > v \/ (m = v /\ pc = "mount") => disk[VOLUMES[m]] = <<>>
    /\ pc \in {"open", "write"} => Below(disk[Volume], i)
    /\ pc = "write" => Below(file.cells, i)
    /\ pc \in InRound => Below(disk[Volume], i + 1) /\ Below(file.cells, i + 1)
    /\ pc \in InRound /\ ~written => Below(file.cells, i)
    /\ pc = "compare" /\ ~written => Below(read_buff, i)

\* A text kept is whole on the volume and in the open file, and so is the text
\* that has just been written.
KeptInv ==
  ROUNDS = 1 =>
    /\ \A u \in kept : HasText(disk[u], Text)
    /\ file.open /\ (file.volume \in kept \/ written) => HasText(file.cells, Text)

\* What ppt_main writes, and where.
PptInv ==
  /\ \E n \in 0 .. 2 : text = SubSeq(Text, 1, n)
  /\ pc \in {"pptmount", "pptopen", "pptread"} => ~written
  /\ pc = "pptwrite" /\ file.open =>
       file.pos = 0 \/ file.pos = Smaller(2, Len(file.cells))

IInv ==
  TypeOK /\ ControlInv /\ FileInv /\ CleanInv /\ OlderInv /\ KeptInv /\ PptInv

-----------------------------------------------------------------------------
(* Texts and files as sequences.                                           *)

Splice(cells, pos, str, n) ==
  SubSeq(cells, 1, pos) \o SubSeq(str, 1, n) \o SubSeq(cells, pos + n + 1, Len(cells))

\* Part of a sequence.
LEMMA PartOf ==
  ASSUME NEW S, NEW s \in Seq(S), NEW a \in 1 .. Len(s) + 1, NEW b \in 0 .. Len(s)
  PROVE  /\ SubSeq(s, a, b) \in Seq(S)
         /\ Len(SubSeq(s, a, b)) = IF a <= b THEN b - a + 1 ELSE 0
         /\ \A k \in 1 .. b - a + 1 : SubSeq(s, a, b)[k] = s[a + k - 1]
<1>1. a \in Int /\ b \in Int /\ Len(s) \in Nat
  OBVIOUS
<1>2. \A k \in a .. b : s[k] \in S
  <2> SUFFICES ASSUME NEW k \in a .. b PROVE s[k] \in S
    OBVIOUS
  <2>1. k \in 1 .. Len(s)
    BY <1>1
  <2> QED
    BY <2>1
<1> QED
  BY <1>1, <1>2, SubSeqProperties

\* What a write of n units at pos leaves: the units before and behind, and
\* between them those of the text.
LEMMA SpliceEffect ==
  ASSUME NEW S, NEW cells \in Seq(S), NEW str \in Seq(S),
         NEW pos \in 0 .. Len(cells), NEW n \in 0 .. Len(str)
  PROVE  /\ Splice(cells, pos, str, n) \in Seq(S)
         /\ Len(Splice(cells, pos, str, n)) =
              IF pos + n <= Len(cells) THEN Len(cells) ELSE pos + n
         /\ \A k \in 1 .. Len(Splice(cells, pos, str, n)) :
              Splice(cells, pos, str, n)[k] =
                IF k <= pos THEN cells[k]
                ELSE IF k <= pos + n THEN str[k - pos]
                ELSE cells[k]
<1> DEFINE front == SubSeq(cells, 1, pos)
           middle == SubSeq(str, 1, n)
           rest == SubSeq(cells, pos + n + 1, Len(cells))
<1>1. Len(cells) \in Nat /\ Len(str) \in Nat /\ pos \in Nat /\ n \in Nat
  OBVIOUS
<1>2. /\ front \in Seq(S) /\ Len(front) = pos
      /\ \A k \in 1 .. pos : front[k] = cells[k]
  <2>1. 1 \in 1 .. Len(cells) + 1
    BY <1>1
  <2>2. /\ front \in Seq(S) /\ Len(front) = (IF 1 <= pos THEN pos - 1 + 1 ELSE 0)
        /\ \A k \in 1 .. pos - 1 + 1 : front[k] = cells[1 + k - 1]
    BY <2>1, PartOf
  <2> QED
    BY <1>1, <2>2
<1>3. /\ middle \in Seq(S) /\ Len(middle) = n
      /\ \A k \in 1 .. n : middle[k] = str[k]
  <2>1. 1 \in 1 .. Len(str) + 1
    BY <1>1
  <2>2. /\ middle \in Seq(S) /\ Len(middle) = (IF 1 <= n THEN n - 1 + 1 ELSE 0)
        /\ \A k \in 1 .. n - 1 + 1 : middle[k] = str[1 + k - 1]
    BY <2>1, PartOf
  <2> QED
    BY <1>1, <2>2
<1>4. /\ rest \in Seq(S)
      /\ Len(rest) = IF pos + n <= Len(cells) THEN Len(cells) - (pos + n) ELSE 0
      /\ \A k \in 1 .. Len(rest) : rest[k] = cells[pos + n + k]
  <2>1. CASE pos + n <= Len(cells)
    <3>1. pos + n + 1 \in 1 .. Len(cells) + 1 /\ Len(cells) \in 0 .. Len(cells)
      BY <1>1, <2>1
    <3>2. /\ rest \in Seq(S)
          /\ Len(rest) = (IF pos + n + 1 <= Len(cells) THEN Len(cells) - (pos + n + 1) + 1 ELSE 0)
          /\ \A k \in 1 .. Len(cells) - (pos + n + 1) + 1 :
               rest[k] = cells[(pos + n + 1) + k - 1]
      BY <3>1, PartOf
    <3>3. /\ Len(cells) - (pos + n + 1) + 1 = Len(cells) - (pos + n)
          /\ pos + n + 1 <= Len(cells) \/ Len(cells) - (pos + n) = 0
      BY <1>1, <2>1
    <3>4. Len(rest) = Len(cells) - (pos + n)
      BY <3>2, <3>3
    <3>5. ASSUME NEW k \in 1 .. Len(rest) PROVE rest[k] = cells[pos + n + k]
      <4>1. rest[k] = cells[(pos + n + 1) + k - 1]
        BY <3>2, <3>3, <3>4
      <4>2. (pos + n + 1) + k - 1 = pos + n + k
        BY <1>1
      <4> QED
        BY <4>1, <4>2
    <3> QED
      BY <2>1, <3>2, <3>4, <3>5
  <2>2. CASE ~(pos + n <= Len(cells))
    <3>1. rest = <<>>
      BY <1>1, <2>2, SubSeqEmpty
    <3> QED
      BY <1>1, <2>2, <3>1
  <2> QED
    BY <2>1, <2>2
<1>5. Splice(cells, pos, str, n) = (front \o middle) \o rest
  BY DEF Splice
<1> HIDE DEF front, middle, rest
<1>6. /\ front \o middle \in Seq(S)
      /\ Len(front \o middle) = pos + n
      /\ \A k \in 1 .. pos + n :
           (front \o middle)[k] = IF k <= pos THEN cells[k] ELSE str[k - pos]
  <2>1. /\ front \o middle \in Seq(S)
        /\ Len(front \o middle) = Len(front) + Len(middle)
        /\ \A k \in 1 .. Len(front) + Len(middle) :
             (front \o middle)[k] =
               IF k <= Len(front) THEN front[k] ELSE middle[k - Len(front)]
    BY <1>2, <1>3, ConcatProperties
  <2>2. ASSUME NEW k \in 1 .. pos + n, k > pos PROVE middle[k - pos] = str[k - pos]
    <3>1. k - pos \in 1 .. n
      BY <1>1, <2>2
    <3> QED
      BY <1>3, <3>1
  <2> QED
    BY <1>1, <1>2, <1>3, <2>1, <2>2
<1>7. /\ (front \o middle) \o rest \in Seq(S)
      /\ Len((front \o middle) \o rest) = pos + n + Len(rest)
      /\ \A k \in 1 .. pos + n + Len(rest) :
           ((front \o middle) \o rest)[k] =
             IF k <= pos + n THEN (front \o middle)[k] ELSE rest[k - (pos + n)]
  <2>1. \A k \in 1 .. Len(front \o middle) + Len(rest) :
          ((front \o middle) \o rest)[k] =
            IF k <= Len(front \o middle)
              THEN (front \o middle)[k] ELSE rest[k - Len(front \o middle)]
    BY <1>4, <1>6, ConcatProperties
  <2>2. /\ (front \o middle) \o rest \in Seq(S)
        /\ Len((front \o middle) \o rest) = Len(front \o middle) + Len(rest)
    BY <1>4, <1>6, ConcatProperties
  <2>3. Len(front \o middle) = pos + n
    BY <1>6
  <2> QED
    BY <2>1, <2>2, <2>3
<1>8. Len(rest) \in Nat /\ Len(cells) \in Nat
  BY <1>4
<1>9. pos + n + Len(rest) = IF pos + n <= Len(cells) THEN Len(cells) ELSE pos + n
  <2>1. Len(rest) = IF pos + n <= Len(cells) THEN Len(cells) - (pos + n) ELSE 0
    BY <1>4
  <2>2. CASE pos + n <= Len(cells)
    <3>1. Len(rest) = Len(cells) - (pos + n)
      BY <2>1, <2>2
    <3> QED
      BY <1>1, <2>2, <3>1
  <2>3. CASE ~(pos + n <= Len(cells))
    BY <1>1, <2>1, <2>3
  <2> QED
    BY <2>2, <2>3
<1>10. ASSUME NEW k \in 1 .. pos + n + Len(rest), k > pos + n
      PROVE  rest[k - (pos + n)] = cells[k]
  <2>1. k - (pos + n) \in 1 .. Len(rest)
    BY <1>1, <1>8, <1>10
  <2>2. pos + n + (k - (pos + n)) = k
    BY <1>1
  <2> QED
    BY <1>4, <2>1, <2>2
<1>11. Len((front \o middle) \o rest) = IF pos + n <= Len(cells) THEN Len(cells) ELSE pos + n
  BY <1>7, <1>9
<1>12. ASSUME NEW k \in 1 .. Len((front \o middle) \o rest)
       PROVE  ((front \o middle) \o rest)[k] =
                IF k <= pos THEN cells[k] ELSE IF k <= pos + n THEN str[k - pos] ELSE cells[k]
  <2>1. k \in 1 .. pos + n + Len(rest) /\ k \in Nat /\ k >= 1
    BY <1>1, <1>8, <1>7
  <2>2. CASE k <= pos + n
    <3>1. k \in 1 .. pos + n
      BY <1>1, <2>1, <2>2
    <3> QED
      BY <1>1, <1>6, <1>7, <2>1, <2>2, <3>1
  <2>3. CASE ~(k <= pos + n)
    <3>1. ((front \o middle) \o rest)[k] = rest[k - (pos + n)]
      BY <1>7, <2>1, <2>3
    <3>2. k > pos + n /\ ~(k <= pos)
      BY <1>1, <2>1, <2>3
    <3>3. rest[k - (pos + n)] = cells[k]
      BY <1>10, <2>1, <3>2, Zenon
    <3> QED
      BY <2>3, <3>1, <3>2, <3>3
  <2> QED
    BY <2>2, <2>3
<1> QED
  BY <1>5, <1>7, <1>11, <1>12

\* A whole text stays whole under a write of it or of part of it at its start,
\* and under any write behind it.
LEMMA WholeTextStays ==
  ASSUME NEW S, NEW cells \in Seq(S), NEW str \in Seq(S),
         NEW pos \in 0 .. Len(cells), NEW n \in 0 .. Len(str), NEW whole,
         HasText(cells, whole), pos = 0 \/ pos >= 2,
         \A k \in 1 .. n : k <= 2 => str[k] = whole[k]
  PROVE  HasText(Splice(cells, pos, str, n), whole)
<1>1. Len(cells) \in Nat /\ Len(cells) >= 2 /\ cells[1] = whole[1] /\ cells[2] = whole[2]
  BY DEF HasText
<1>2. /\ Len(Splice(cells, pos, str, n)) =
           IF pos + n <= Len(cells) THEN Len(cells) ELSE pos + n
      /\ \A k \in 1 .. Len(Splice(cells, pos, str, n)) :
           Splice(cells, pos, str, n)[k] =
             IF k <= pos THEN cells[k] ELSE IF k <= pos + n THEN str[k - pos] ELSE cells[k]
  BY SpliceEffect
<1>3. pos \in Nat /\ n \in Nat /\ (pos = 0 \/ pos >= 2)
  OBVIOUS
<1> DEFINE new == Splice(cells, pos, str, n)
<1> HIDE DEF new
<1>4. Len(new) >= 2 /\ Len(new) \in Nat
  BY <1>1, <1>2, <1>3 DEF new
<1>5. \A k \in {1, 2} : new[k] = whole[k]
  <2> SUFFICES ASSUME NEW k \in {1, 2} PROVE new[k] = whole[k]
    OBVIOUS
  <2>1. new[k] = IF k <= pos THEN cells[k] ELSE IF k <= pos + n THEN str[k - pos] ELSE cells[k]
    <3>1. k \in 1 .. Len(new)
      BY <1>4
    <3> QED
      BY <1>2, <3>1 DEF new
  <2>2. CASE pos = 0 /\ k <= n
    <3>1. k \in 1 .. n /\ k - pos = k
      BY <2>2
    <3> QED
      BY <2>1, <2>2, <3>1
  <2>3. CASE ~(pos = 0 /\ k <= n)
    BY <1>1, <1>3, <2>1, <2>3
  <2> QED
    BY <2>2, <2>3
<1> QED
  BY <1>4, <1>5 DEF HasText, new

\* A text of two units written at the start is there.
LEMMA WholeTextWritten ==
  ASSUME NEW S, NEW cells \in Seq(S), NEW str \in Seq(S), Len(str) >= 2
  PROVE  HasText(Splice(cells, 0, str, 2), str)
<1> SUFFICES ASSUME NEW pos \in 0 .. Len(cells), NEW n \in 0 .. Len(str)
             PROVE  pos = 0 /\ n = 2 => HasText(Splice(cells, pos, str, n), str)
  OBVIOUS
<1>1. /\ Len(Splice(cells, pos, str, n)) =
           IF pos + n <= Len(cells) THEN Len(cells) ELSE pos + n
      /\ \A k \in 1 .. Len(Splice(cells, pos, str, n)) :
           Splice(cells, pos, str, n)[k] =
             IF k <= pos THEN cells[k] ELSE IF k <= pos + n THEN str[k - pos] ELSE cells[k]
  BY SpliceEffect
<1> HAVE pos = 0 /\ n = 2
<1>2. Len(cells) \in Nat /\ pos = 0 /\ n = 2
  OBVIOUS
<1> DEFINE new == Splice(cells, pos, str, n)
<1> HIDE DEF new
<1>3. Len(new) \in Nat /\ Len(new) >= 2
  <2>1. CASE pos + n <= Len(cells)
    <3>1. Len(new) = Len(cells)
      BY <1>1, <2>1 DEF new
    <3> QED
      BY <1>2, <2>1, <3>1
  <2>2. CASE ~(pos + n <= Len(cells))
    <3>1. Len(new) = pos + n
      BY <1>1, <2>2 DEF new
    <3> QED
      BY <1>2, <3>1
  <2> QED
    BY <2>1, <2>2
<1>4. new[1] = str[1] /\ new[2] = str[2]
  BY <1>1, <1>2, <1>3 DEF new
<1> QED
  BY <1>3, <1>4 DEF HasText, new

\* A write of units below a bound keeps a file below it.
LEMMA OnlyOlder ==
  ASSUME NEW S, NEW cells \in Seq(S), NEW str \in Seq(S),
         NEW pos \in 0 .. Len(cells), NEW n \in 0 .. Len(str), NEW bound,
         Below(cells, bound), \A k \in 1 .. n : str[k] < bound
  PROVE  Below(Splice(cells, pos, str, n), bound)
<1>1. /\ Len(Splice(cells, pos, str, n)) =
           IF pos + n <= Len(cells) THEN Len(cells) ELSE pos + n
      /\ \A k \in 1 .. Len(Splice(cells, pos, str, n)) :
           Splice(cells, pos, str, n)[k] =
             IF k <= pos THEN cells[k] ELSE IF k <= pos + n THEN str[k - pos] ELSE cells[k]
  BY SpliceEffect
<1>2. Len(cells) \in Nat /\ pos \in Nat /\ n \in Nat
  OBVIOUS
<1> SUFFICES ASSUME NEW k \in 1 .. Len(Splice(cells, pos, str, n))
             PROVE  Splice(cells, pos, str, n)[k] < bound
  BY DEF Below
<1>3. k \in Nat /\ k >= 1 /\ (k <= Len(cells) \/ k <= pos + n)
  BY <1>1, <1>2
<1>4. CASE k <= pos \/ k > pos + n
  <2>1. k \in 1 .. Len(cells)
    BY <1>2, <1>3, <1>4
  <2>2. Splice(cells, pos, str, n)[k] = cells[k]
    BY <1>1, <1>2, <1>3, <1>4
  <2> QED
    BY <2>1, <2>2 DEF Below
<1>5. CASE k > pos /\ k <= pos + n
  <2>1. k - pos \in 1 .. n
    BY <1>2, <1>3, <1>5
  <2>2. Splice(cells, pos, str, n)[k] = str[k - pos]
    BY <1>1, <1>2, <1>3, <1>5
  <2> QED
    BY <2>1, <2>2
<1> QED
  BY <1>2, <1>3, <1>4, <1>5

\* What a read of up to two units delivers: part of the file, and at the start
\* of a text the text.
LEMMA ReadDelivers ==
  ASSUME NEW S, NEW cells \in Seq(S), NEW pos \in 0 .. Len(cells),
         NEW n, n = Smaller(2, Len(cells) - pos)
  PROVE  /\ SubSeq(cells, pos + 1, pos + n) \in Seq(S)
         /\ n \in 0 .. 2 /\ pos + n \in 0 .. Len(cells)
         /\ \A bound : Below(cells, bound) => Below(SubSeq(cells, pos + 1, pos + n), bound)
         /\ \A a, b : pos = 0 /\ HasText(cells, <<a, b>>) =>
              SubSeq(cells, pos + 1, pos + n) = <<a, b>>
<1>1. Len(cells) \in Nat /\ pos \in Nat /\ pos <= Len(cells)
  OBVIOUS
<1>2. n \in 0 .. 2 /\ pos + n \in 0 .. Len(cells)
  BY <1>1 DEF Smaller
<1> DEFINE part == SubSeq(cells, pos + 1, pos + n)
<1>3. /\ part \in Seq(S) /\ Len(part) = n
      /\ \A k \in 1 .. n : part[k] = cells[pos + k]
  <2>1. pos + 1 \in 1 .. Len(cells) + 1
    BY <1>1
  <2>2. /\ part \in Seq(S)
        /\ Len(part) = (IF pos + 1 <= pos + n THEN pos + n - (pos + 1) + 1 ELSE 0)
        /\ \A k \in 1 .. pos + n - (pos + 1) + 1 : part[k] = cells[pos + 1 + k - 1]
    BY <1>2, <2>1, PartOf
  <2> QED
    BY <1>1, <1>2, <2>2
<1>4. ASSUME NEW bound, Below(cells, bound) PROVE Below(part, bound)
  <2> SUFFICES ASSUME NEW k \in 1 .. Len(part) PROVE part[k] < bound
    BY DEF Below
  <2>1. k \in 1 .. n /\ pos + k \in 1 .. Len(cells)
    BY <1>1, <1>2, <1>3
  <2> QED
    BY <1>3, <1>4, <2>1 DEF Below
<1>5. ASSUME NEW a, NEW b, pos = 0, HasText(cells, <<a, b>>) PROVE part = <<a, b>>
  <2>1. Len(cells) >= 2 /\ cells[1] = a /\ cells[2] = b
    BY <1>5 DEF HasText
  <2>2. n = 2
    BY <1>1, <1>5, <2>1 DEF Smaller
  <2>3. Len(part) = 2 /\ part[1] = a /\ part[2] = b
    BY <1>3, <1>5, <2>1, <2>2
  <2>4. <<a, b>> \in Seq(S) /\ Len(<<a, b>>) = 2
    <3>1. a \in S /\ b \in S
      BY <1>1, <2>1
    <3> QED
      BY <3>1
  <2>5. <<a, b>>[1] = a /\ <<a, b>>[2] = b
    OBVIOUS
  <2>6. \A k \in 1 .. 2 : k = 1 \/ k = 2
    OBVIOUS
  <2> HIDE DEF part
  <2> QED
    BY <1>3, <2>3, <2>4, <2>5, <2>6, SeqEqual
<1> QED
  BY <1>2, <1>3, <1>4, <1>5

\* The other way round: a file that begins with the text has it as its first part.
LEMMA TextAtStart ==
  ASSUME NEW S, NEW cells \in Seq(S), NEW a, NEW b, HasText(cells, <<a, b>>)
  PROVE  SubSeq(cells, 1, 2) = <<a, b>>
<1>1. Len(cells) \in Nat /\ Len(cells) >= 2 /\ 0 \in 0 .. Len(cells)
  BY DEF HasText
<1>2. 2 = Smaller(2, Len(cells) - 0)
  BY <1>1 DEF Smaller
<1>3. SubSeq(cells, 0 + 1, 0 + 2) = <<a, b>>
  BY <1>1, <1>2, ReadDelivers
<1> QED
  BY <1>3

-----------------------------------------------------------------------------
(* The invariant is inductive.                                             *)

LEMMA Facts ==
  ASSUME IInv
  PROVE  /\ ROUNDS \in Nat /\ ROUNDS > 0
         /\ Len(VOLUMES) \in Nat /\ Len(VOLUMES) > 0
         /\ \A m, n \in 1 .. Len(VOLUMES) : VOLUMES[m] = VOLUMES[n] => m = n
         /\ v \in Nat /\ v >= 1 /\ v <= Len(VOLUMES) + 1
         /\ i \in Nat /\ i <= ROUNDS
         /\ boots \in Nat /\ boots >= 1 /\ faults \in Nat
         /\ VOLUMES[1] \in Volumes
         /\ v <= Len(VOLUMES) => Volume \in Volumes
         /\ sample.ppt # {} => PptVolume \in Volumes /\ ROUNDS = 1
<1>1. sample \in SAMPLES
  BY DEF IInv, TypeOK
<1>2. /\ ROUNDS \in Nat \ {0} /\ Len(VOLUMES) \in Nat \ {0}
      /\ \A m, n \in 1 .. Len(VOLUMES) : VOLUMES[m] = VOLUMES[n] => m = n
      /\ sample.ppt \subseteq Volumes
      /\ sample.ppt # {} => ROUNDS = 1
      /\ MAX_BOOTS \in Nat \ {0} /\ MAX_FAULTS \in Nat
  BY <1>1, FatSampleAssumption, BootsAssumption DEF ROUNDS, VOLUMES, Volumes
<1>3. v \in 1 .. Len(VOLUMES) + 1 /\ i \in 0 .. ROUNDS
      /\ boots \in 1 .. MAX_BOOTS /\ faults \in 0 .. MAX_FAULTS
  BY DEF IInv, TypeOK
<1>4. VOLUMES[1] \in Volumes /\ (v <= Len(VOLUMES) => Volume \in Volumes)
  <2>1. 1 \in 1 .. Len(VOLUMES) /\ (v <= Len(VOLUMES) => v \in 1 .. Len(VOLUMES))
    BY <1>2, <1>3
  <2> QED
    BY <2>1 DEF Volumes, Volume
<1>5. sample.ppt # {} => PptVolume \in sample.ppt
  BY DEF PptVolume
<1> QED
  BY <1>2, <1>3, <1>4, <1>5

\* The sample does not change.
LEMMA SameSample ==
  ASSUME sample' = sample
  PROVE  /\ VOLUMES' = VOLUMES /\ ROUNDS' = ROUNDS /\ Volumes' = Volumes
         /\ Cells' = Cells /\ PptVolume' = PptVolume
         /\ v' = v => Volume' = Volume
BY DEF VOLUMES, ROUNDS, Volumes, Cells, PptVolume, Volume

\* A text of two units is one the files are made of.
LEMMA Units ==
  ASSUME IInv
  PROVE  /\ test_str \in Cells /\ Len(test_str) = 2 /\ test_str[1] = Words /\ test_str[2] = i
         /\ Text \in Cells /\ Len(Text) = 2 /\ Text[1] = Words /\ Text[2] = 0
         /\ Words < 0 /\ Words \in Int
         /\ <<>> \in Cells /\ \A bound : Below(<<>>, bound)
<1>1. i \in 0 .. ROUNDS /\ 0 \in 0 .. ROUNDS
  BY Facts
<1> QED
  BY <1>1 DEF test_str, Text, Cells, Words, Below

\* The file after a write.
LEMMA PutEffect ==
  ASSUME IInv, NEW str \in Cells, NEW n \in 0 .. Len(str), file' = Put(str, n)
  PROVE  /\ file'.open = file.open /\ file'.volume = file.volume
         /\ file'.cells = Splice(file.cells, file.pos, str, n)
         /\ file'.pos = file.pos + n
         /\ file' \in [open : BOOLEAN, volume : Volumes, cells : Cells, pos : Nat]
         /\ file'.pos <= Len(file'.cells)
<1> DEFINE new == Splice(file.cells, file.pos, str, n)
<1>1. /\ file \in [open : BOOLEAN, volume : Volumes, cells : Cells, pos : Nat]
      /\ file.pos \in 0 .. Len(file.cells)
  BY DEF IInv, TypeOK
<1>2. /\ new \in Cells
      /\ Len(new) = IF file.pos + n <= Len(file.cells) THEN Len(file.cells) ELSE file.pos + n
  BY <1>1, SpliceEffect DEF Cells
<1>3. file.pos + n \in Nat /\ Len(new) \in Nat /\ Len(str) \in Nat /\ Len(file.cells) \in Nat
  BY <1>1, <1>2 DEF Cells
<1>4. file' = [file EXCEPT !.cells = new, !.pos = @ + n]
  BY DEF Put, Splice
<1> HIDE DEF new
<1>5. /\ file'.open = file.open /\ file'.volume = file.volume
      /\ file'.cells = new /\ file'.pos = file.pos + n
      /\ file' \in [open : BOOLEAN, volume : Volumes, cells : Cells, pos : Nat]
  BY <1>1, <1>2, <1>3, <1>4
<1>6. file.pos + n <= Len(new)
  <2>1. CASE file.pos + n <= Len(file.cells)
    BY <1>2, <2>1
  <2>2. CASE ~(file.pos + n <= Len(file.cells))
    BY <1>2, <1>3, <2>2
  <2> QED
    BY <2>1, <2>2
<1> QED
  BY <1>5, <1>6 DEF new

\* Calls that fail are counted.
LEMMA FailedCalls ==
  ASSUME IInv
  PROVE  /\ Works => faults' = faults /\ boots' = boots
         /\ Fails => faults' \in 1 .. MAX_FAULTS /\ faults' # 0 /\ boots' = boots
<1>1. faults \in 0 .. MAX_FAULTS /\ MAX_FAULTS \in Nat
  BY FatSampleAssumption, BootsAssumption DEF IInv, TypeOK
<1> QED
  BY <1>1 DEF Works, Fails

\* A round begins: mounting, and opening the file.
LEMMA MountKeepsInv ==
  ASSUME IInv, Mount, UNCHANGED <<board, text, kept>>
  PROVE  IInv'
<1>1. sample' = sample /\ image' = image /\ text' = text /\ kept' = kept
      /\ UNCHANGED <<disk, file, read_buff, written, boots>>
  BY DEF board, Mount, Works, Fails
<1>2. pc = "mount" /\ image = "main" /\ v <= Len(VOLUMES) /\ i = 0 /\ ~file.open
  BY DEF Mount, IInv, ControlInv, FileInv, TypeOK, MainPlaces, Using, InRound,
         PptPlaces, PptOpened
<1>3. Volume \in Volumes /\ ROUNDS \in Nat /\ ROUNDS > 0 /\ v \in Nat /\ v >= 1
      /\ Len(VOLUMES) \in Nat /\ i \in Nat
  BY <1>2, Facts
<1>4. CASE pc' = "open"
  <2>1. UNCHANGED <<v, i>> /\ Volume' = Volume /\ faults' = faults
        /\ mounted' = mounted \union {Volume} /\ workarea' = Volume
    BY <1>1, <1>4, SameSample DEF Mount, Goto, Works, Fails, Leave
  <2>2. TypeOK'
    BY <1>1, <1>3, <1>4, <2>1, SameSample DEF IInv, TypeOK
  <2>3. ControlInv'
    BY <1>1, <1>2, <1>3, <1>4, <2>1, SameSample
       DEF IInv, ControlInv, MainPlaces, Using, InRound
  <2>4. FileInv'
    BY <1>1, <1>2, <1>4, <2>1, SameSample DEF IInv, FileInv, Using, InRound
  <2>5. CleanInv'
    BY <1>4 DEF CleanInv
  <2>6. OlderInv'
    <3>1. boots = 1 => \A m \in 1 .. Len(VOLUMES) : m >= v => disk[VOLUMES[m]] = <<>>
      BY <1>2, <1>3 DEF IInv, OlderInv
    <3>2. v \in 1 .. Len(VOLUMES) /\ VOLUMES' = VOLUMES
      BY <1>1, <1>2, <1>3, SameSample
    <3>3. boots = 1 => Below(disk[Volume], i)
      BY <1>3, <3>1, <3>2, Units DEF Volume
    <3> QED
      BY <1>1, <1>3, <1>4, <2>1, <3>1, <3>2, <3>3 DEF OlderInv, InRound
  <2>7. KeptInv' /\ PptInv'
    BY <1>1, <1>2, <1>4, SameSample DEF IInv, KeptInv, PptInv
  <2> QED
    BY <2>2, <2>3, <2>4, <2>5, <2>6, <2>7 DEF IInv
<1>5. CASE Fails /\ Leave /\ UNCHANGED <<mounted, workarea>>
  <2>1. v' = v + 1 /\ i' = 0 /\ pc' = (IF v < Len(VOLUMES) THEN "mount" ELSE "done")
        /\ faults' \in 1 .. MAX_FAULTS /\ faults' # 0
    BY <1>5, FailedCalls DEF Leave, Goto
  <2>2. TypeOK'
    BY <1>1, <1>2, <1>3, <1>5, <2>1, SameSample DEF IInv, TypeOK
  <2>3. ControlInv'
    BY <1>1, <1>2, <1>3, <2>1, SameSample
       DEF IInv, ControlInv, MainPlaces, Using, InRound
  <2>4. FileInv'
    BY <1>1, <1>2, <2>1, SameSample DEF IInv, FileInv, Using, InRound
  <2>5. CleanInv'
    BY <2>1 DEF CleanInv
  <2>6. OlderInv'
    <3>1. boots = 1 => \A m \in 1 .. Len(VOLUMES) : m > v => disk[VOLUMES[m]] = <<>>
      BY <1>2 DEF IInv, OlderInv
    <3> QED
      BY <1>1, <1>3, <2>1, <3>1, SameSample DEF OlderInv, InRound
  <2>7. KeptInv' /\ PptInv'
    BY <1>1, <1>2, <2>1, SameSample DEF IInv, KeptInv, PptInv
  <2> QED
    BY <2>2, <2>3, <2>4, <2>5, <2>6, <2>7 DEF IInv
<1> QED
  BY <1>4, <1>5 DEF Mount, Goto

LEMMA OpenKeepsInv ==
  ASSUME IInv, Open, UNCHANGED <<board, text, kept>>
  PROVE  IInv'
<1>1. /\ sample' = sample /\ image' = image /\ text' = text /\ kept' = kept
      /\ UNCHANGED <<disk, mounted, workarea, v, i, read_buff, boots>>
      /\ written' = FALSE /\ written' \in BOOLEAN
  BY DEF board, Open, Works, Fails
<1>2. /\ pc = "open" /\ image = "main" /\ v <= Len(VOLUMES) /\ i < ROUNDS /\ ~file.open
      /\ workarea = Volume /\ Volume \in mounted
  BY DEF Open, IInv, ControlInv, FileInv, TypeOK, MainPlaces, Using, InRound, PptPlaces,
         PptOpened
<1>3. Volume \in Volumes /\ Volume' = Volume /\ i \in Nat
  BY <1>1, <1>2, Facts, SameSample
<1>4. disk[Volume] \in Cells
  BY <1>3 DEF IInv, TypeOK
<1>5. boots = 1 => Below(disk[Volume], i)
  BY <1>2 DEF IInv, OlderInv
<1>6. Len(disk[Volume]) \in Nat /\ \A k \in 1 .. Len(disk[Volume]) : disk[Volume][k] \in Int
  <2>1. \A n \in Cells : Len(n) \in Nat /\ \A k \in 1 .. Len(n) : n[k] \in Int
    BY Facts, Units DEF Cells
  <2> QED
    BY <1>4, <2>1
<1>7. boots = 1 => Below(disk[Volume], i + 1)
  BY <1>3, <1>5, <1>6 DEF Below
<1>8. CASE pc' = "write"
  <2>1. faults' = faults
        /\ file' = [open |-> TRUE, volume |-> Volume, cells |-> disk[Volume], pos |-> 0]
    BY <1>8, FailedCalls DEF Open, Goto
  <2>2. file'.open /\ file'.volume = Volume /\ file'.cells = disk[Volume] /\ file'.pos = 0
    BY <2>1
  <2>3. TypeOK'
    BY <1>1, <1>3, <1>4, <1>6, <1>8, <2>1, SameSample DEF IInv, TypeOK
  <2>4. ControlInv'
    BY <1>1, <1>2, <1>8, SameSample DEF IInv, ControlInv, MainPlaces, Using, InRound
  <2>5. FileInv'
    BY <1>1, <1>2, <1>3, <1>8, <2>2 DEF IInv, FileInv, Using, InRound, PptOpened
  <2>6. CleanInv'
    BY <1>8 DEF CleanInv
  <2>7. OlderInv'
    BY <1>1, <1>2, <1>3, <1>5, <1>7, <1>8, <2>2, SameSample DEF IInv, OlderInv, InRound
  <2>8. KeptInv' /\ PptInv'
    BY <1>1, <1>2, <1>8, <2>2, SameSample DEF IInv, KeptInv, PptInv
  <2> QED
    BY <2>3, <2>4, <2>5, <2>6, <2>7, <2>8 DEF IInv
<1>9. CASE Fails /\ pc' = "unmount" /\ UNCHANGED file
  <2>1. faults' \in 1 .. MAX_FAULTS /\ faults' # 0
    BY <1>9, FailedCalls
  <2>2. TypeOK'
    BY <1>1, <1>3, <1>9, <2>1, SameSample DEF IInv, TypeOK
  <2>3. ControlInv' /\ FileInv'
    BY <1>1, <1>2, <1>3, <1>9, SameSample
       DEF IInv, ControlInv, FileInv, MainPlaces, Using, InRound, PptOpened
  <2>4. CleanInv'
    BY <2>1 DEF CleanInv
  <2>5. OlderInv' /\ KeptInv' /\ PptInv'
    BY <1>1, <1>2, <1>3, <1>9, SameSample DEF IInv, OlderInv, KeptInv, PptInv, InRound
  <2> QED
    BY <2>2, <2>3, <2>4, <2>5 DEF IInv
<1> QED
  BY <1>8, <1>9 DEF Open, Goto

\* What the round writes: the file is at its start, so that its own text takes
\* the place of an earlier one.
LEMMA WriteKeepsInv ==
  ASSUME IInv, Write, UNCHANGED <<board, text, kept>>
  PROVE  IInv'
<1>1. PICK n \in 0 .. 2 :
        /\ (n = 2 /\ Works) \/ (n < 2 /\ Fails)
        /\ file' = Put(test_str, n)
        /\ written' = (n = 2)
  BY DEF Write
<1>2. /\ sample' = sample /\ image' = image /\ text' = text /\ kept' = kept
      /\ UNCHANGED <<disk, mounted, workarea, v, i, read_buff>>
      /\ pc = "write" /\ pc' = "seek"
  BY DEF board, Write, Goto
<1>3. /\ image = "main" /\ v <= Len(VOLUMES) /\ i < ROUNDS
      /\ file.open /\ file.pos = 0 /\ file.volume = Volume
  BY <1>2
     DEF IInv, ControlInv, FileInv, TypeOK, MainPlaces, Using, InRound, PptPlaces,
         PptOpened
<1>4. /\ Volume \in Volumes /\ Volume' = Volume /\ i \in Nat /\ test_str' = test_str
      /\ boots' = boots
  BY <1>1, <1>2, <1>3, Facts, SameSample, FailedCalls DEF test_str
<1>5. /\ n = 2 => faults' = faults
      /\ n < 2 => faults' # 0
      /\ faults' \in 0 .. MAX_FAULTS
  <2>1. faults \in 0 .. MAX_FAULTS /\ MAX_FAULTS \in Nat
    BY FatSampleAssumption, BootsAssumption DEF IInv, TypeOK
  <2> QED
    BY <1>1, <2>1, FailedCalls
<1>6. /\ file'.open = file.open /\ file'.volume = file.volume
      /\ file'.cells = Splice(file.cells, 0, test_str, n)
      /\ file' \in [open : BOOLEAN, volume : Volumes, cells : Cells, pos : Nat]
      /\ file'.pos <= Len(file'.cells)
  <2>1. test_str \in Cells /\ n \in 0 .. Len(test_str)
    BY Units
  <2> QED
    BY <1>1, <1>3, <2>1, PutEffect
<1>7. file.cells \in Cells /\ test_str \in Cells /\ 0 \in 0 .. Len(file.cells)
      /\ n \in 0 .. Len(test_str)
  <2>1. file.cells \in Cells
    BY DEF IInv, TypeOK
  <2>2. Len(file.cells) \in Nat
    BY <2>1 DEF Cells
  <2>3. 0 \in 0 .. Len(file.cells)
    BY <2>2
  <2>4. test_str \in Cells /\ n \in 0 .. Len(test_str)
    BY Units
  <2> QED
    BY <2>1, <2>3, <2>4
<1>8. ASSUME NEW whole, HasText(file.cells, whole),
             whole[1] = test_str[1], whole[2] = test_str[2]
      PROVE  HasText(file'.cells, whole)
  <2>1. \A k \in 1 .. n : k <= 2 => test_str[k] = whole[k]
    BY <1>8
  <2>2. HasText(Splice(file.cells, 0, test_str, n), whole)
    BY <1>7, <1>8, <2>1, WholeTextStays DEF Cells
  <2> QED
    BY <1>6, <2>2
<1>9. n = 2 => HasText(file'.cells, test_str)
  BY <1>6, <1>7, Units, WholeTextWritten DEF Cells
<1>10. \A bound \in Nat :
         Below(file.cells, bound) /\ ((n < 2 /\ bound = i) \/ bound = i + 1) =>
           Below(file'.cells, bound)
  <2> SUFFICES ASSUME NEW bound \in Nat, Below(file.cells, bound),
                      (n < 2 /\ bound = i) \/ bound = i + 1
               PROVE  Below(file'.cells, bound)
    OBVIOUS
  <2>1. \A k \in 1 .. n : test_str[k] < bound
    <3>1. test_str[1] < bound /\ (n = 2 => test_str[2] < bound)
      BY <1>4, Units
    <3>2. \A k \in 1 .. n : k = 1 \/ (k = 2 /\ n = 2)
      OBVIOUS
    <3> QED
      BY <3>1, <3>2
  <2>2. Below(Splice(file.cells, 0, test_str, n), bound)
    BY <1>7, <2>1, OnlyOlder DEF Cells
  <2> QED
    BY <1>6, <2>2
<1>11. TypeOK'
  <2>1. written' \in BOOLEAN
    BY <1>1
  <2> QED
    BY <1>2, <1>4, <1>5, <1>6, <2>1, SameSample DEF IInv, TypeOK
<1>12. ControlInv'
  BY <1>2, <1>3, SameSample DEF IInv, ControlInv, MainPlaces, Using, InRound
<1>13. FileInv'
  BY <1>2, <1>3, <1>4, <1>6, SameSample DEF IInv, FileInv, Using, InRound, PptOpened
<1>14. CleanInv'
  BY <1>1, <1>2, <1>4, <1>5, <1>9 DEF CleanInv
<1>15. OlderInv'
  <2>1. boots = 1 => /\ Below(disk[Volume], i + 1)
                     /\ Below(file'.cells, i + 1) /\ (n < 2 => Below(file'.cells, i))
    BY <1>2, <1>3, <1>4, <1>10 DEF IInv, OlderInv, InRound
  <2> QED
    BY <1>1, <1>2, <1>3, <1>4, <2>1, SameSample DEF IInv, OlderInv, InRound
<1>16. KeptInv'
  <2>1. ROUNDS = 1 => test_str = Text
    BY <1>3, <1>4 DEF test_str, Text
  <2> QED
    BY <1>1, <1>2, <1>3, <1>6, <1>8, <1>9, <2>1, SameSample DEF IInv, KeptInv
<1>17. PptInv'
  BY <1>2 DEF IInv, PptInv
<1> QED
  BY <1>11, <1>12, <1>13, <1>14, <1>15, <1>16, <1>17 DEF IInv

\* A new position of the file.
LEMMA MoveEffect ==
  ASSUME IInv, NEW pos \in 0 .. Len(file.cells), file' = [file EXCEPT !.pos = pos]
  PROVE  /\ file'.open = file.open /\ file'.volume = file.volume
         /\ file'.cells = file.cells /\ file'.pos = pos
         /\ file' \in [open : BOOLEAN, volume : Volumes, cells : Cells, pos : Nat]
         /\ file'.pos <= Len(file'.cells)
<1>1. file \in [open : BOOLEAN, volume : Volumes, cells : Cells, pos : Nat]
      /\ Len(file.cells) \in Nat
  BY DEF IInv, TypeOK, Cells
<1> QED
  BY <1>1

LEMMA SeekKeepsInv ==
  ASSUME IInv, Seek, UNCHANGED <<board, text, kept>>
  PROVE  IInv'
<1>1. /\ sample' = sample /\ image' = image /\ text' = text /\ kept' = kept
      /\ UNCHANGED <<disk, mounted, workarea, v, i, read_buff, written>>
      /\ pc = "seek" /\ pc' = "read"
  BY DEF board, Seek, Goto
<1>2. image = "main"
  BY <1>1 DEF IInv, ControlInv, TypeOK, PptPlaces, PptOpened
<1>3. /\ faults' \in 0 .. MAX_FAULTS /\ boots' = boots
      /\ faults' = 0 => faults = 0 /\ file'.pos = 0
      /\ file'.open = file.open /\ file'.volume = file.volume /\ file'.cells = file.cells
      /\ file' \in [open : BOOLEAN, volume : Volumes, cells : Cells, pos : Nat]
      /\ file'.pos <= Len(file'.cells)
  <2>1. /\ faults \in 0 .. MAX_FAULTS /\ MAX_FAULTS \in Nat
        /\ file \in [open : BOOLEAN, volume : Volumes, cells : Cells, pos : Nat]
        /\ file.pos <= Len(file.cells) /\ 0 \in 0 .. Len(file.cells)
    BY FatSampleAssumption, BootsAssumption DEF IInv, TypeOK, Cells
  <2>2. CASE Works /\ file' = [file EXCEPT !.pos = 0]
    BY <2>1, <2>2, MoveEffect, FailedCalls
  <2>3. CASE Fails /\ UNCHANGED file
    BY <2>1, <2>3, FailedCalls
  <2> QED
    BY <2>2, <2>3 DEF Seek
<1>4. TypeOK'
  BY <1>1, <1>3, SameSample DEF IInv, TypeOK
<1>5. ControlInv' /\ FileInv'
  BY <1>1, <1>2, <1>3, SameSample
     DEF IInv, ControlInv, FileInv, MainPlaces, Using, InRound, PptOpened
<1>6. CleanInv'
  BY <1>1, <1>3 DEF IInv, CleanInv, test_str
<1>7. OlderInv' /\ KeptInv' /\ PptInv'
  BY <1>1, <1>2, <1>3, SameSample DEF IInv, OlderInv, KeptInv, PptInv, InRound
<1> QED
  BY <1>4, <1>5, <1>6, <1>7 DEF IInv

LEMMA ReadKeepsInv ==
  ASSUME IInv, Read, UNCHANGED <<board, text, kept>>
  PROVE  IInv'
<1>1. /\ sample' = sample /\ image' = image /\ text' = text /\ kept' = kept
      /\ UNCHANGED <<disk, mounted, workarea, v, i, written>>
      /\ pc = "read" /\ pc' \in {"compare", "closetwice"}
  BY DEF board, Read, Goto
<1>2. image = "main" /\ v <= Len(VOLUMES)
  BY <1>1 DEF IInv, ControlInv, TypeOK, PptPlaces, PptOpened, MainPlaces, Using, InRound
<1>3. /\ file \in [open : BOOLEAN, volume : Volumes, cells : Cells, pos : Nat]
      /\ file.pos \in 0 .. Len(file.cells)
      /\ faults \in 0 .. MAX_FAULTS /\ MAX_FAULTS \in Nat
  <2>1. /\ file \in [open : BOOLEAN, volume : Volumes, cells : Cells, pos : Nat]
        /\ file.pos <= Len(file.cells)
        /\ faults \in 0 .. MAX_FAULTS
    BY DEF IInv, TypeOK
  <2>2. Len(file.cells) \in Nat
    BY <2>1 DEF Cells
  <2> QED
    BY <2>1, <2>2, FatSampleAssumption, BootsAssumption
<1>4. CASE /\ Works /\ pc' = "compare"
           /\ \E n : /\ n = Smaller(2, Len(file.cells) - file.pos)
                     /\ read_buff' = SubSeq(file.cells, file.pos + 1, file.pos + n)
                     /\ file' = [file EXCEPT !.pos = @ + n]
  <2>1. PICK n : /\ n = Smaller(2, Len(file.cells) - file.pos)
                 /\ read_buff' = SubSeq(file.cells, file.pos + 1, file.pos + n)
                 /\ file' = [file EXCEPT !.pos = @ + n]
    BY <1>4
  <2>2. /\ read_buff' \in Cells /\ n \in 0 .. 2 /\ file.pos + n \in 0 .. Len(file.cells)
        /\ \A bound : Below(file.cells, bound) => Below(read_buff', bound)
        /\ \A a, b : file.pos = 0 /\ HasText(file.cells, <<a, b>>) => read_buff' = <<a, b>>
    BY <1>3, <2>1, ReadDelivers, SMTT(30) DEF Cells
  <2>3. /\ file'.open = file.open /\ file'.volume = file.volume
        /\ file'.cells = file.cells
        /\ file' \in [open : BOOLEAN, volume : Volumes, cells : Cells, pos : Nat]
        /\ file'.pos <= Len(file'.cells)
    <3>1. file' = [file EXCEPT !.pos = file.pos + n]
      BY <1>3, <2>1
    <3> QED
      BY <2>2, <3>1, MoveEffect
  <2>4. faults' = faults /\ boots' = boots
    BY <1>4, FailedCalls
  <2>5. TypeOK'
    BY <1>1, <1>4, <2>2, <2>3, <2>4, SameSample DEF IInv, TypeOK
  <2>6. ControlInv' /\ FileInv'
    BY <1>1, <1>2, <1>4, <2>3, SameSample
       DEF IInv, ControlInv, FileInv, MainPlaces, Using, InRound, PptOpened
  <2>7. CleanInv'
    <3>1. faults = 0 => file.pos = 0 /\ HasText(file.cells, <<Words, i>>)
      BY <1>1 DEF IInv, CleanInv, test_str
    <3> QED
      BY <1>1, <1>4, <2>2, <2>4, <3>1 DEF CleanInv, test_str
  <2>8. OlderInv' /\ KeptInv' /\ PptInv'
    BY <1>1, <1>2, <1>4, <2>2, <2>3, <2>4, SameSample
       DEF IInv, OlderInv, KeptInv, PptInv, InRound
  <2> QED
    BY <2>5, <2>6, <2>7, <2>8 DEF IInv
<1>5. CASE Fails /\ pc' = "closetwice" /\ UNCHANGED <<read_buff, file>>
  <2>1. faults' \in 1 .. MAX_FAULTS /\ faults' # 0 /\ boots' = boots
    BY <1>5, FailedCalls
  <2>2. TypeOK'
    BY <1>1, <1>5, <2>1, SameSample DEF IInv, TypeOK
  <2>3. ControlInv' /\ FileInv'
    BY <1>1, <1>2, <1>5, SameSample
       DEF IInv, ControlInv, FileInv, MainPlaces, Using, InRound, PptOpened
  <2>4. CleanInv'
    BY <2>1 DEF CleanInv
  <2>5. OlderInv' /\ KeptInv' /\ PptInv'
    BY <1>1, <1>2, <1>5, <2>1, SameSample DEF IInv, OlderInv, KeptInv, PptInv, InRound
  <2> QED
    BY <2>2, <2>3, <2>4, <2>5 DEF IInv
<1> QED
  BY <1>4, <1>5 DEF Read, Goto

\* A look at the buffer changes nothing.
LEMMA CompareKeepsInv ==
  ASSUME IInv, Compare, UNCHANGED <<board, text, kept>>
  PROVE  IInv'
<1>1. /\ sample' = sample /\ image' = image /\ text' = text
      /\ UNCHANGED <<disk, mounted, workarea, file, v, i, read_buff, written, kept, boots, faults>>
      /\ pc = "compare" /\ pc' = "close"
  BY DEF board, history, Compare, Goto
<1>2. image = "main"
  BY <1>1 DEF IInv, ControlInv, TypeOK, PptPlaces, PptOpened
<1>3. TypeOK'
  BY <1>1, SameSample DEF IInv, TypeOK
<1>4. ControlInv' /\ FileInv'
  BY <1>1, <1>2, SameSample
     DEF IInv, ControlInv, FileInv, MainPlaces, Using, InRound, PptOpened
<1>5. CleanInv' /\ OlderInv' /\ KeptInv' /\ PptInv'
  BY <1>1, <1>2, SameSample DEF IInv, CleanInv, OlderInv, KeptInv, PptInv, InRound
<1> QED
  BY <1>3, <1>4, <1>5 DEF IInv

\* A file closed: what the volume holds is the file or what it held before, and
\* it is the file where a text is kept from now on.
LEMMA CloseEffect ==
  ASSUME IInv, CloseFile
  PROVE  /\ ~file'.open /\ file'.volume = file.volume /\ file'.cells = file.cells
         /\ file' \in [open : BOOLEAN, volume : Volumes, cells : Cells, pos : Nat]
         /\ file'.pos <= Len(file'.cells)
         /\ boots' = boots /\ faults' \in 0 .. MAX_FAULTS /\ (faults' = 0 => faults = 0)
         /\ disk' \in [Volumes -> Cells] /\ kept' \subseteq Volumes
         /\ \A u \in Volumes : u # file.volume \/ ~file.open => disk'[u] = disk[u]
         /\ disk'[file.volume] = disk[file.volume] \/ disk'[file.volume] = file.cells
         /\ ROUNDS = 1 => \A u \in kept' : HasText(disk'[u], Text)
<1>1. /\ file \in [open : BOOLEAN, volume : Volumes, cells : Cells, pos : Nat]
      /\ file.pos <= Len(file.cells) /\ disk \in [Volumes -> Cells] /\ kept \subseteq Volumes
      /\ faults \in 0 .. MAX_FAULTS /\ MAX_FAULTS \in Nat
  BY FatSampleAssumption, BootsAssumption DEF IInv, TypeOK
<1>2. /\ file' = [file EXCEPT !.open = FALSE]
      /\ ~file'.open /\ file'.volume = file.volume /\ file'.cells = file.cells
      /\ file' \in [open : BOOLEAN, volume : Volumes, cells : Cells, pos : Nat]
      /\ file'.pos <= Len(file'.cells)
  BY <1>1 DEF CloseFile
<1>3. boots' = boots /\ faults' \in 0 .. MAX_FAULTS /\ (faults' = 0 => faults = 0)
  BY <1>1, FailedCalls DEF CloseFile
<1>4. ROUNDS = 1 =>
        /\ \A u \in kept : HasText(disk[u], Text)
        /\ file.open /\ (file.volume \in kept \/ written) => HasText(file.cells, Text)
  BY DEF IInv, KeptInv
<1>5. CASE file.open /\ disk' = Committed
  <2>1. /\ disk' = [disk EXCEPT ![file.volume] = file.cells]
        /\ file.volume \in Volumes /\ file.cells \in Cells
    BY <1>1, <1>5 DEF Committed
  <2>2. kept' = kept \/ (written /\ kept' = kept \union {file.volume})
    BY <1>5 DEF CloseFile
  <2>3. /\ disk' \in [Volumes -> Cells] /\ disk'[file.volume] = file.cells
        /\ \A u \in Volumes : u # file.volume => disk'[u] = disk[u]
    BY <1>1, <2>1
  <2>4. kept' \subseteq Volumes
    BY <1>1, <2>1, <2>2
  <2>5. ASSUME ROUNDS = 1, NEW u \in kept' PROVE HasText(disk'[u], Text)
    <3>1. CASE u = file.volume
      BY <1>4, <1>5, <2>2, <2>3, <2>5, <3>1
    <3>2. CASE u # file.volume
      BY <1>1, <1>4, <2>2, <2>3, <2>5, <3>2
    <3> QED
      BY <3>1, <3>2
  <2> QED
    BY <1>2, <1>3, <1>5, <2>3, <2>4, <2>5
<1>6. CASE disk' = disk /\ kept' = kept
  BY <1>1, <1>2, <1>3, <1>4, <1>6
<1> QED
  BY <1>5, <1>6 DEF CloseFile

LEMMA CloseTwiceKeepsInv ==
  ASSUME IInv, CloseAfterReadError, UNCHANGED <<board, text>>
  PROVE  IInv'
<1>1. /\ sample' = sample /\ image' = image /\ text' = text
      /\ UNCHANGED <<mounted, workarea, v, i, read_buff, written>>
      /\ pc = "closetwice" /\ pc' = "close" /\ CloseFile
  BY DEF board, CloseAfterReadError, Goto
<1>2. image = "main" /\ v <= Len(VOLUMES) /\ file.volume = Volume /\ file.open
  BY <1>1
     DEF IInv, ControlInv, FileInv, TypeOK, PptPlaces, PptOpened, MainPlaces, Using,
         InRound
<1>3. Volume \in Volumes /\ VOLUMES' = VOLUMES /\ Volume' = Volume /\ v \in Nat
      /\ \A m \in 1 .. Len(VOLUMES) : m > v => VOLUMES[m] \in Volumes /\ VOLUMES[m] # Volume
  BY <1>1, <1>2, Facts, SameSample DEF Volumes, Volume
<1>4. TypeOK'
  BY <1>1, CloseEffect, SameSample DEF IInv, TypeOK
<1>5. ControlInv' /\ FileInv'
  BY <1>1, <1>2, <1>3, CloseEffect, SameSample
     DEF IInv, ControlInv, FileInv, MainPlaces, Using, InRound, PptOpened
<1>6. CleanInv'
  BY <1>1 DEF CleanInv
<1>7. OlderInv'
  BY <1>1, <1>2, <1>3, CloseEffect DEF IInv, OlderInv, InRound
<1>8. KeptInv' /\ PptInv'
  BY <1>1, CloseEffect, SameSample DEF IInv, KeptInv, PptInv
<1> QED
  BY <1>4, <1>5, <1>6, <1>7, <1>8 DEF IInv

LEMMA CloseKeepsInv ==
  ASSUME IInv, Close, UNCHANGED <<board, text>>
  PROVE  IInv'
<1>1. /\ sample' = sample /\ image' = image /\ text' = text
      /\ UNCHANGED <<mounted, workarea, v, read_buff, written>>
      /\ i' = i + 1 /\ pc' = (IF i + 1 < ROUNDS THEN "open" ELSE "unmount")
      /\ pc = "close" /\ CloseFile
  BY DEF board, Close, Goto
<1>2. /\ image = "main" /\ v <= Len(VOLUMES) /\ i < ROUNDS
      /\ workarea = Volume /\ Volume \in mounted /\ file.volume = Volume
  BY <1>1
     DEF IInv, ControlInv, FileInv, TypeOK, PptPlaces, PptOpened, MainPlaces, Using,
         InRound
<1>3. Volume \in Volumes /\ VOLUMES' = VOLUMES /\ Volume' = Volume /\ v \in Nat
      /\ i \in Nat /\ ROUNDS \in Nat /\ i + 1 \in 0 .. ROUNDS /\ ROUNDS' = ROUNDS
      /\ \A m \in 1 .. Len(VOLUMES) : m > v => VOLUMES[m] \in Volumes /\ VOLUMES[m] # Volume
  BY <1>1, <1>2, Facts, SameSample DEF Volumes, Volume
<1>4. TypeOK'
  BY <1>1, <1>3, CloseEffect, SameSample DEF IInv, TypeOK
<1>5. ControlInv' /\ FileInv'
  BY <1>1, <1>2, <1>3, CloseEffect
     DEF IInv, ControlInv, FileInv, MainPlaces, Using, InRound, PptOpened
<1>6. CleanInv'
  BY <1>1 DEF CleanInv
<1>7. OlderInv'
  BY <1>1, <1>2, <1>3, CloseEffect DEF IInv, OlderInv, InRound
<1>8. KeptInv' /\ PptInv'
  BY <1>1, CloseEffect, SameSample DEF IInv, KeptInv, PptInv
<1> QED
  BY <1>4, <1>5, <1>6, <1>7, <1>8 DEF IInv

LEMMA UnmountKeepsInv ==
  ASSUME IInv, Unmount, UNCHANGED <<board, text, kept>>
  PROVE  IInv'
<1>1. /\ sample' = sample /\ image' = image /\ text' = text /\ kept' = kept
      /\ UNCHANGED <<disk, workarea, file, read_buff, written>>
      /\ mounted' \subseteq mounted
      /\ v' = v + 1 /\ i' = 0 /\ pc' = (IF v < Len(VOLUMES) THEN "mount" ELSE "done")
      /\ pc = "unmount"
  BY DEF board, Unmount, Leave, Goto
<1>2. /\ image = "main" /\ v <= Len(VOLUMES) /\ ~file.open
  BY <1>1
     DEF IInv, ControlInv, FileInv, TypeOK, PptPlaces, PptOpened, MainPlaces, Using,
         InRound
<1>3. /\ v \in Nat /\ v >= 1 /\ Len(VOLUMES) \in Nat /\ ROUNDS \in Nat /\ ROUNDS > 0
      /\ boots' = boots /\ faults' \in 0 .. MAX_FAULTS
  <2>1. faults \in 0 .. MAX_FAULTS /\ MAX_FAULTS \in Nat
    BY FatSampleAssumption, BootsAssumption DEF IInv, TypeOK
  <2> QED
    BY <2>1, Facts, FailedCalls DEF Unmount
<1>4. TypeOK'
  BY <1>1, <1>2, <1>3, SameSample DEF IInv, TypeOK
<1>5. ControlInv' /\ FileInv'
  BY <1>1, <1>2, <1>3, SameSample
     DEF IInv, ControlInv, FileInv, MainPlaces, Using, InRound, PptOpened
<1>6. CleanInv'
  BY <1>1 DEF CleanInv
<1>7. OlderInv'
  <2>1. boots = 1 => \A m \in 1 .. Len(VOLUMES) : m > v => disk[VOLUMES[m]] = <<>>
    BY <1>2 DEF IInv, OlderInv
  <2> QED
    BY <1>1, <1>3, <2>1, SameSample DEF OlderInv, InRound
<1>8. KeptInv' /\ PptInv'
  BY <1>1, <1>2, SameSample DEF IInv, KeptInv, PptInv
<1> QED
  BY <1>4, <1>5, <1>6, <1>7, <1>8 DEF IInv

\* What ppt_main writes: the text, or the beginning of it.
LEMMA PrefixOfText ==
  ASSUME IInv
  PROVE  \A n \in 0 .. 2 :
           /\ SubSeq(Text, 1, n) \in Cells /\ Len(SubSeq(Text, 1, n)) = n
           /\ \A k \in 1 .. n : SubSeq(Text, 1, n)[k] = Text[k]
           /\ n = 2 => SubSeq(Text, 1, n) = Text
<1> SUFFICES ASSUME NEW n \in 0 .. 2
             PROVE  /\ SubSeq(Text, 1, n) \in Cells /\ Len(SubSeq(Text, 1, n)) = n
                    /\ \A k \in 1 .. n : SubSeq(Text, 1, n)[k] = Text[k]
                    /\ n = 2 => SubSeq(Text, 1, n) = Text
  OBVIOUS
<1>1. Text \in Cells /\ Len(Text) = 2 /\ 1 \in 1 .. Len(Text) + 1 /\ n \in 0 .. Len(Text)
  BY Units
<1>2. /\ SubSeq(Text, 1, n) \in Cells
      /\ Len(SubSeq(Text, 1, n)) = (IF 1 <= n THEN n - 1 + 1 ELSE 0)
      /\ \A k \in 1 .. n - 1 + 1 : SubSeq(Text, 1, n)[k] = Text[1 + k - 1]
  BY <1>1, PartOf DEF Cells
<1>3. n = 2 => SubSeq(Text, 1, n) = Text
  <2>1. HasText(Text, Text)
    BY <1>1 DEF HasText
  <2> QED
    BY <1>1, <2>1, TextAtStart DEF Text, Cells
<1> QED
  BY <1>2, <1>3

LEMMA PptFacts ==
  ASSUME IInv, pc \in PptPlaces
  PROVE  image = "ppt" /\ PptVolume \in Volumes /\ ROUNDS = 1
<1>1. image = "ppt" /\ sample.ppt # {}
  BY DEF IInv, ControlInv, TypeOK, PptPlaces, PptOpened, MainPlaces, Using, InRound
<1> QED
  BY <1>1, Facts

\* ppt_main: its volume is mounted, and the file opened, or neither.
LEMMA PptMountKeepsInv ==
  ASSUME IInv, PptMount, UNCHANGED board
  PROVE  IInv'
<1>1. /\ sample' = sample /\ image' = image
      /\ UNCHANGED <<disk, file, v, i, read_buff, text, written, kept>>
      /\ pc = "pptmount" /\ pc' = "pptopen"
  BY DEF board, PptMount, Goto
<1>2. image = "ppt" /\ PptVolume \in Volumes /\ ~file.open
  BY <1>1, PptFacts DEF IInv, FileInv, PptPlaces, PptOpened
<1>3. /\ \/ mounted' = mounted \union {PptVolume} /\ workarea' = PptVolume
         \/ UNCHANGED <<mounted, workarea>>
      /\ boots' = boots /\ faults' \in 0 .. MAX_FAULTS
  <2>1. faults \in 0 .. MAX_FAULTS /\ MAX_FAULTS \in Nat
    BY FatSampleAssumption, BootsAssumption DEF IInv, TypeOK
  <2> QED
    BY <2>1, FailedCalls DEF PptMount
<1>4. TypeOK'
  BY <1>1, <1>2, <1>3, SameSample DEF IInv, TypeOK
<1>5. ControlInv' /\ FileInv'
  BY <1>1, <1>2, <1>3, SameSample
     DEF IInv, ControlInv, FileInv, MainPlaces, Using, InRound, PptOpened, PptPlaces
<1>6. CleanInv' /\ OlderInv'
  BY <1>1, <1>2 DEF CleanInv, OlderInv
<1>7. KeptInv' /\ PptInv'
  BY <1>1, SameSample DEF IInv, KeptInv, PptInv
<1> QED
  BY <1>4, <1>5, <1>6, <1>7 DEF IInv

LEMMA PptOpenKeepsInv ==
  ASSUME IInv, PptOpen, UNCHANGED board
  PROVE  IInv'
<1>1. /\ sample' = sample /\ image' = image
      /\ UNCHANGED <<disk, mounted, workarea, v, i, read_buff, text, written, kept>>
      /\ pc = "pptopen" /\ pc' = "pptread"
  BY DEF board, PptOpen, Goto
<1>2. image = "ppt" /\ PptVolume \in Volumes /\ ~file.open /\ ~written
  BY <1>1, PptFacts DEF IInv, FileInv, PptInv, PptPlaces, PptOpened
<1>3. /\ disk[PptVolume] \in Cells /\ Len(disk[PptVolume]) \in Nat
  BY <1>2 DEF IInv, TypeOK, Cells
<1>4. /\ \/ /\ PptVolume \in mounted /\ file'.open /\ file'.volume = PptVolume
            /\ file'.cells = disk[PptVolume] /\ file'.pos = 0
         \/ UNCHANGED file
      /\ file' \in [open : BOOLEAN, volume : Volumes, cells : Cells, pos : Nat]
      /\ file'.pos <= Len(file'.cells)
      /\ boots' = boots /\ faults' \in 0 .. MAX_FAULTS
  <2>1. faults \in 0 .. MAX_FAULTS /\ MAX_FAULTS \in Nat
        /\ file \in [open : BOOLEAN, volume : Volumes, cells : Cells, pos : Nat]
        /\ file.pos <= Len(file.cells)
    BY FatSampleAssumption, BootsAssumption DEF IInv, TypeOK
  <2>2. boots' = boots /\ faults' \in 0 .. MAX_FAULTS
    BY <2>1, FailedCalls DEF PptOpen
  <2>3. CASE UNCHANGED file
    BY <2>1, <2>2, <2>3
  <2>4. CASE /\ PptVolume \in mounted
             /\ file' = [open |-> TRUE, volume |-> PptVolume,
                          cells |-> disk[PptVolume], pos |-> 0]
    BY <1>2, <1>3, <2>2, <2>4
  <2> QED
    BY <2>3, <2>4 DEF PptOpen
<1>5. TypeOK'
  BY <1>1, <1>4, SameSample DEF IInv, TypeOK
<1>6. ControlInv' /\ FileInv'
  BY <1>1, <1>2, <1>4, SameSample
     DEF IInv, ControlInv, FileInv, MainPlaces, Using, InRound, PptOpened, PptPlaces
<1>7. CleanInv' /\ OlderInv'
  BY <1>1, <1>2 DEF CleanInv, OlderInv
<1>8. KeptInv' /\ PptInv'
  BY <1>1, <1>2, <1>4, SameSample DEF IInv, KeptInv, PptInv
<1> QED
  BY <1>5, <1>6, <1>7, <1>8 DEF IInv

\* The read leaves the file at the end of what it delivered.
LEMMA PptReadKeepsInv ==
  ASSUME IInv, PptRead, UNCHANGED board
  PROVE  IInv'
<1>1. /\ sample' = sample /\ image' = image
      /\ UNCHANGED <<disk, mounted, workarea, v, i, text, written, kept>>
      /\ pc = "pptread" /\ pc' = "pptwrite" /\ file.open
  BY DEF board, PptRead, Goto
<1>2. image = "ppt" /\ file.pos = 0
  BY <1>1, PptFacts DEF IInv, FileInv, PptPlaces, PptOpened
<1>3. /\ file \in [open : BOOLEAN, volume : Volumes, cells : Cells, pos : Nat]
      /\ file.pos \in 0 .. Len(file.cells) /\ Len(file.cells) \in Nat
  BY DEF IInv, TypeOK, Cells
<1>4. /\ read_buff' \in Cells /\ PptCount \in 0 .. 2
      /\ file.pos + PptCount \in 0 .. Len(file.cells)
      /\ PptCount = Smaller(2, Len(file.cells))
  <2>1. PptCount = Smaller(2, Len(file.cells) - file.pos)
    BY DEF PptCount
  <2>2. read_buff' = SubSeq(file.cells, file.pos + 1, file.pos + PptCount)
    BY DEF PptRead
  <2>3. /\ SubSeq(file.cells, file.pos + 1, file.pos + PptCount) \in Cells
        /\ PptCount \in 0 .. 2 /\ file.pos + PptCount \in 0 .. Len(file.cells)
    BY <1>3, <2>1, ReadDelivers DEF Cells
  <2>4. Len(file.cells) - file.pos = Len(file.cells)
    BY <1>2, <1>3
  <2> QED
    BY <2>1, <2>2, <2>3, <2>4
<1>5. /\ file'.open = file.open /\ file'.volume = file.volume
      /\ file'.cells = file.cells /\ file'.pos = Smaller(2, Len(file.cells))
      /\ file' \in [open : BOOLEAN, volume : Volumes, cells : Cells, pos : Nat]
      /\ file'.pos <= Len(file'.cells)
  <2>1. file' = [file EXCEPT !.pos = file.pos + PptCount]
    BY <1>3 DEF PptRead
  <2>2. file.pos + PptCount = PptCount
    BY <1>2, <1>4
  <2> QED
    BY <1>4, <2>1, <2>2, MoveEffect
<1>6. faults' = faults /\ boots' = boots
  BY FailedCalls DEF PptRead
<1>7. TypeOK'
  BY <1>1, <1>4, <1>5, <1>6, SameSample DEF IInv, TypeOK
<1>8. ControlInv' /\ FileInv'
  BY <1>1, <1>2, <1>5, SameSample
     DEF IInv, ControlInv, FileInv, MainPlaces, Using, InRound, PptOpened, PptPlaces
<1>9. CleanInv' /\ OlderInv'
  BY <1>1, <1>2 DEF CleanInv, OlderInv
<1>10. KeptInv' /\ PptInv'
  BY <1>1, <1>5, SameSample DEF IInv, KeptInv, PptInv, Smaller
<1> QED
  BY <1>7, <1>8, <1>9, <1>10 DEF IInv

\* A failing read leaves it at the start, and the text perhaps shorter.
LEMMA PptReadFailsKeepsInv ==
  ASSUME IInv, PptReadFails, UNCHANGED board
  PROVE  IInv'
<1>1. /\ sample' = sample /\ image' = image /\ read_buff' = <<>>
      /\ UNCHANGED <<disk, mounted, workarea, file, v, i, written, kept>>
      /\ pc = "pptread" /\ pc' \in {"pptwrite", "done"}
      /\ (\E n \in 0 .. 2 : text' = SubSeq(Text, 1, n)) \/ text' = text
  BY DEF board, PptReadFails, Goto
<1>2. image = "ppt" /\ (file.open => file.pos = 0) /\ ~written
  BY <1>1, PptFacts DEF IInv, FileInv, PptInv, PptPlaces, PptOpened
<1>3. boots' = boots /\ faults' \in 0 .. MAX_FAULTS
  <2>1. faults \in 0 .. MAX_FAULTS /\ MAX_FAULTS \in Nat
    BY FatSampleAssumption, BootsAssumption DEF IInv, TypeOK
  <2> QED
    BY <2>1, FailedCalls DEF PptReadFails
<1>4. text' \in Cells
  BY <1>1, PrefixOfText DEF IInv, TypeOK
<1>5. TypeOK'
  BY <1>1, <1>3, <1>4, Units, SameSample DEF IInv, TypeOK
<1>6. ControlInv' /\ FileInv'
  BY <1>1, <1>2, SameSample
     DEF IInv, ControlInv, FileInv, MainPlaces, Using, InRound, PptOpened, PptPlaces
<1>7. CleanInv' /\ OlderInv'
  BY <1>1, <1>2 DEF CleanInv, OlderInv
<1>8. KeptInv'
  BY <1>1, SameSample DEF IInv, KeptInv
<1>9. PptInv'
  <2>1. \E n \in 0 .. 2 : text' = SubSeq(Text, 1, n)
    BY <1>1 DEF IInv, PptInv
  <2>2. Text' = Text
    BY DEF Text, Words
  <2> QED
    BY <1>1, <1>2, <2>1, <2>2 DEF PptInv
<1> QED
  BY <1>5, <1>6, <1>7, <1>8, <1>9 DEF IInv

\* What ppt_main writes lands at the start of the file or behind the text it has
\* read, and takes nothing from a text that is kept.
LEMMA PptWriteKeepsInv ==
  ASSUME IInv, PptWrite, UNCHANGED board
  PROVE  IInv'
<1>1. /\ sample' = sample /\ image' = image
      /\ UNCHANGED <<disk, mounted, workarea, v, i, read_buff, text, kept>>
      /\ pc = "pptwrite" /\ pc' = "pptclose" /\ Text' = Text
  BY DEF board, PptWrite, Goto, Text, Words
<1>2. image = "ppt" /\ ROUNDS = 1
  BY <1>1, PptFacts DEF PptPlaces, PptOpened
<1>3. /\ file \in [open : BOOLEAN, volume : Volumes, cells : Cells, pos : Nat]
      /\ file.cells \in Cells /\ file.pos \in 0 .. Len(file.cells) /\ Len(file.cells) \in Nat
      /\ text \in Cells /\ faults \in 0 .. MAX_FAULTS /\ MAX_FAULTS \in Nat
      /\ written \in BOOLEAN
  BY FatSampleAssumption, BootsAssumption DEF IInv, TypeOK, Cells
<1>4. /\ Len(text) \in 0 .. 2 /\ \A k \in 1 .. Len(text) : text[k] = Text[k]
      /\ Len(text) = 2 => text = Text
  <2>1. PICK n \in 0 .. 2 : text = SubSeq(Text, 1, n)
    BY DEF IInv, PptInv
  <2> QED
    BY <2>1, PrefixOfText
<1>5. boots' = boots /\ faults' \in 0 .. MAX_FAULTS
  BY <1>3, FailedCalls DEF PptWrite
<1>6. CASE ~file.open /\ UNCHANGED <<file, written>>
  <2>1. TypeOK'
    BY <1>1, <1>5, <1>6, SameSample DEF IInv, TypeOK
  <2>2. ControlInv' /\ FileInv'
    BY <1>1, <1>2, <1>6, SameSample
       DEF IInv, ControlInv, FileInv, MainPlaces, Using, InRound, PptOpened, PptPlaces
  <2>3. CleanInv' /\ OlderInv'
    BY <1>1, <1>2 DEF CleanInv, OlderInv
  <2>4. KeptInv' /\ PptInv'
    BY <1>1, <1>6, SameSample DEF IInv, KeptInv, PptInv
  <2> QED
    BY <2>1, <2>2, <2>3, <2>4 DEF IInv
<1>7. ASSUME file.open,
             NEW n \in 0 .. Len(text), file' = Put(text, n),
             written' = (file.pos = 0 /\ n = 2)
      PROVE  IInv'
  <2>1. /\ file'.open = file.open /\ file'.volume = file.volume
        /\ file'.cells = Splice(file.cells, file.pos, text, n)
        /\ file' \in [open : BOOLEAN, volume : Volumes, cells : Cells, pos : Nat]
        /\ file'.pos <= Len(file'.cells)
    BY <1>3, <1>7, PutEffect
  <2>2. written' \in BOOLEAN
    BY <1>7
  <2>3. TypeOK'
    BY <1>1, <1>5, <2>1, <2>2, SameSample DEF IInv, TypeOK
  <2>4. ControlInv' /\ FileInv'
    BY <1>1, <1>2, <2>1, SameSample
       DEF IInv, ControlInv, FileInv, MainPlaces, Using, InRound, PptOpened, PptPlaces
  <2>5. CleanInv' /\ OlderInv'
    BY <1>1, <1>2 DEF CleanInv, OlderInv
  <2>6. HasText(file.cells, Text) => HasText(file'.cells, Text)
    <3> SUFFICES ASSUME HasText(file.cells, Text) PROVE HasText(file'.cells, Text)
      OBVIOUS
    <3>1. file.pos = 0 \/ file.pos >= 2
      <4>1. file.pos = 0 \/ file.pos = Smaller(2, Len(file.cells))
        BY <1>1, <1>7 DEF IInv, PptInv
      <4>2. Len(file.cells) >= 2
        BY DEF HasText
      <4> QED
        BY <1>3, <4>1, <4>2 DEF Smaller
    <3>2. \A k \in 1 .. n : k <= 2 => text[k] = Text[k]
      BY <1>4
    <3>3. HasText(Splice(file.cells, file.pos, text, n), Text)
      BY <1>3, <3>1, <3>2, WholeTextStays DEF Cells
    <3> QED
      BY <2>1, <3>3
  <2>7. file.pos = 0 /\ n = 2 => HasText(file'.cells, Text)
    <3> SUFFICES ASSUME file.pos = 0, n = 2 PROVE HasText(file'.cells, Text)
      OBVIOUS
    <3>1. Len(text) >= 2 /\ text = Text
      BY <1>4
    <3>2. HasText(Splice(file.cells, 0, text, 2), text)
      BY <1>3, <3>1, WholeTextWritten DEF Cells
    <3> QED
      BY <2>1, <3>1, <3>2
  <2>8. KeptInv'
    BY <1>1, <1>2, <1>7, <2>1, <2>6, <2>7, SameSample DEF IInv, KeptInv
  <2>9. PptInv'
    BY <1>1 DEF IInv, PptInv
  <2> QED
    BY <2>3, <2>4, <2>5, <2>8, <2>9 DEF IInv
<1> QED
  BY <1>6, <1>7 DEF PptWrite

LEMMA PptCloseKeepsInv ==
  ASSUME IInv, PptClose, UNCHANGED board
  PROVE  IInv'
<1>1. /\ sample' = sample /\ image' = image
      /\ UNCHANGED <<mounted, workarea, v, i, read_buff, text, written>>
      /\ pc = "pptclose" /\ pc' = "pptunmount" /\ CloseFile /\ Text' = Text
  BY DEF board, PptClose, Goto, Text, Words
<1>2. image = "ppt"
  BY <1>1, PptFacts DEF PptPlaces, PptOpened
<1>3. TypeOK'
  BY <1>1, CloseEffect, SameSample DEF IInv, TypeOK
<1>4. ControlInv' /\ FileInv'
  BY <1>1, <1>2, CloseEffect, SameSample
     DEF IInv, ControlInv, FileInv, MainPlaces, Using, InRound, PptOpened, PptPlaces
<1>5. CleanInv' /\ OlderInv'
  BY <1>1, <1>2 DEF CleanInv, OlderInv
<1>6. KeptInv' /\ PptInv'
  BY <1>1, CloseEffect, SameSample DEF IInv, KeptInv, PptInv
<1> QED
  BY <1>3, <1>4, <1>5, <1>6 DEF IInv

LEMMA PptUnmountKeepsInv ==
  ASSUME IInv, PptUnmount, UNCHANGED board
  PROVE  IInv'
<1>1. /\ sample' = sample /\ image' = image
      /\ UNCHANGED <<disk, workarea, file, v, i, read_buff, text, written, kept>>
      /\ mounted' \subseteq mounted
      /\ pc = "pptunmount" /\ pc' = "done" /\ Text' = Text
  BY DEF board, PptUnmount, Goto, Text, Words
<1>2. image = "ppt" /\ ~file.open
  BY <1>1, PptFacts DEF IInv, FileInv, PptPlaces, PptOpened
<1>3. boots' = boots /\ faults' \in 0 .. MAX_FAULTS
  <2>1. faults \in 0 .. MAX_FAULTS /\ MAX_FAULTS \in Nat
    BY FatSampleAssumption, BootsAssumption DEF IInv, TypeOK
  <2> QED
    BY <2>1, FailedCalls DEF PptUnmount
<1>4. TypeOK'
  BY <1>1, <1>3, SameSample DEF IInv, TypeOK
<1>5. ControlInv' /\ FileInv'
  BY <1>1, <1>2, SameSample
     DEF IInv, ControlInv, FileInv, MainPlaces, Using, InRound, PptOpened, PptPlaces
<1>6. CleanInv' /\ OlderInv'
  BY <1>1, <1>2 DEF CleanInv, OlderInv
<1>7. KeptInv' /\ PptInv'
  BY <1>1, <1>2, SameSample DEF IInv, KeptInv, PptInv
<1> QED
  BY <1>4, <1>5, <1>6, <1>7 DEF IInv

\* A power cut: the volume holds the open file or what it held before, and both
\* hold the text where it is kept.
LEMMA PowerCycleKeepsInv ==
  ASSUME IInv, PowerCycle
  PROVE  IInv'
<1>1. /\ sample' = sample /\ kept' = kept /\ faults' = faults
      /\ boots' = boots + 1 /\ boots < MAX_BOOTS
      /\ image' \in Images /\ mounted' = {} /\ workarea' = VOLUMES[1]
      /\ file' = NoFile /\ v' = 1 /\ i' = 0 /\ read_buff' = <<>> /\ text' = Text
      /\ written' = FALSE /\ pc' = (IF image' = "main" THEN "mount" ELSE "pptmount")
      /\ disk' = disk \/ (file.open /\ disk' = Committed)
      /\ Text' = Text
  BY DEF PowerCycle, PowerOn, Text, Words
<1>2. /\ boots' \in 1 .. MAX_BOOTS /\ boots' # 1
      /\ file' \in [open : BOOLEAN, volume : Volumes, cells : Cells, pos : Nat]
      /\ ~file'.open /\ file'.pos <= Len(file'.cells)
      /\ VOLUMES[1] \in Volumes /\ written' \in BOOLEAN /\ ~written'
      /\ image' \in {"main", "ppt"} /\ (image' = "ppt" => sample.ppt # {})
  <2>1. boots \in 1 .. MAX_BOOTS /\ MAX_BOOTS \in Nat
    BY FatSampleAssumption, BootsAssumption DEF IInv, TypeOK
  <2>2. boots' \in 1 .. MAX_BOOTS /\ boots' # 1
    BY <1>1, <2>1
  <2>3. file' = [open |-> FALSE, volume |-> VOLUMES[1], cells |-> <<>>, pos |-> 0]
    BY <1>1 DEF NoFile
  <2>4. VOLUMES[1] \in Volumes /\ <<>> \in Cells /\ Len(<<>>) = 0
    BY Facts, Units
  <2>5. image' \in {"main", "ppt"} /\ (image' = "ppt" => sample.ppt # {})
    BY <1>1 DEF Images
  <2>6. /\ file' \in [open : BOOLEAN, volume : Volumes, cells : Cells, pos : Nat]
        /\ ~file'.open /\ file'.pos <= Len(file'.cells)
    BY <2>3, <2>4
  <2>7. written' \in BOOLEAN /\ ~written'
    BY <1>1
  <2> QED
    BY <2>2, <2>4, <2>5, <2>6, <2>7
<1>3. /\ disk' \in [Volumes -> Cells]
      /\ ROUNDS = 1 => \A u \in kept : HasText(disk'[u], Text)
  <2>1. /\ disk \in [Volumes -> Cells] /\ kept \subseteq Volumes
        /\ file \in [open : BOOLEAN, volume : Volumes, cells : Cells, pos : Nat]
    BY DEF IInv, TypeOK
  <2>2. ROUNDS = 1 =>
          /\ \A u \in kept : HasText(disk[u], Text)
          /\ file.open /\ file.volume \in kept => HasText(file.cells, Text)
    BY DEF IInv, KeptInv
  <2>3. CASE disk' = disk
    BY <2>1, <2>2, <2>3
  <2>4. CASE file.open /\ disk' = Committed
    <3>1. \A u \in Volumes : disk'[u] = IF u = file.volume THEN file.cells ELSE disk[u]
      BY <2>1, <2>4 DEF Committed
    <3>2. disk' \in [Volumes -> Cells]
      BY <2>1, <2>4 DEF Committed
    <3>3. ASSUME ROUNDS = 1, NEW u \in kept PROVE HasText(disk'[u], Text)
      <4>1. CASE u = file.volume
        BY <2>1, <2>2, <2>4, <3>1, <3>3, <4>1
      <4>2. CASE u # file.volume
        BY <2>1, <2>2, <3>1, <3>3, <4>2
      <4> QED
        BY <4>1, <4>2
    <3> QED
      BY <3>2, <3>3
  <2> QED
    BY <1>1, <2>3, <2>4
<1>4. /\ Len(VOLUMES) \in Nat /\ Len(VOLUMES) >= 1 /\ ROUNDS \in Nat /\ ROUNDS > 0
  BY Facts
<1>5. TypeOK'
  BY <1>1, <1>2, <1>3, <1>4, Units, SameSample DEF IInv, TypeOK
<1>6. ControlInv' /\ FileInv'
  BY <1>1, <1>2, <1>4, SameSample
     DEF ControlInv, FileInv, MainPlaces, Using, InRound, PptOpened, PptPlaces
<1>7. CleanInv' /\ OlderInv' /\ KeptInv'
  BY <1>1, <1>2, <1>3, SameSample DEF CleanInv, OlderInv, KeptInv
<1>8. PptInv'
  <2>1. text' = SubSeq(Text, 1, 2)
    BY <1>1, PrefixOfText
  <2> QED
    BY <1>1, <1>2, <2>1 DEF PptInv
<1> QED
  BY <1>5, <1>6, <1>7, <1>8 DEF IInv

LEMMA InitInv ==
  ASSUME Init
  PROVE  IInv
<1>1. /\ ROUNDS \in Nat \ {0} /\ Len(VOLUMES) \in Nat \ {0}
      /\ MAX_BOOTS \in Nat \ {0} /\ MAX_FAULTS \in Nat
  BY FatSampleAssumption, BootsAssumption DEF Init, ROUNDS, VOLUMES
<1>2. VOLUMES[1] \in Volumes
  <2>1. 1 \in 1 .. Len(VOLUMES)
    BY <1>1
  <2> QED
    BY <2>1 DEF Volumes
<1>3. /\ <<>> \in Cells /\ Len(<<>>) = 0
      /\ Text \in Cells /\ Len(Text) = 2 /\ SubSeq(Text, 1, 2) = Text
  <2>1. 0 \in 0 .. ROUNDS
    BY <1>1
  <2>2. <<>> \in Cells /\ Text \in Cells /\ Len(Text) = 2 /\ HasText(Text, Text)
    BY <2>1 DEF Text, Cells, Words, HasText
  <2> QED
    BY <2>2, TextAtStart DEF Text, Cells
<1>4. /\ file \in [open : BOOLEAN, volume : Volumes, cells : Cells, pos : Nat]
      /\ ~file.open /\ file.pos <= Len(file.cells)
  <2>1. file = [open |-> FALSE, volume |-> VOLUMES[1], cells |-> <<>>, pos |-> 0]
    BY DEF Init, NoFile
  <2> QED
    BY <1>2, <1>3, <2>1
<1>5. image \in {"main", "ppt"} /\ (image = "ppt" => sample.ppt # {})
  BY DEF Init, Images
<1>6. TypeOK
  <2>1. written \in BOOLEAN
    BY DEF Init
  <2> QED
    BY <1>1, <1>2, <1>3, <1>4, <1>5, <2>1 DEF Init, TypeOK
<1>7. ControlInv /\ FileInv
  BY <1>1, <1>2, <1>4, <1>5
     DEF Init, ControlInv, FileInv, MainPlaces, Using, InRound, PptOpened, PptPlaces
<1>8. CleanInv
  BY DEF Init, CleanInv
<1>9. OlderInv
  <2>1. \A m \in 1 .. Len(VOLUMES) : disk[VOLUMES[m]] = <<>>
    BY DEF Init, Volumes
  <2> QED
    BY <2>1 DEF Init, OlderInv, InRound
<1>10. KeptInv /\ PptInv
  BY <1>3, <1>4 DEF Init, KeptInv, PptInv
<1> QED
  BY <1>6, <1>7, <1>8, <1>9, <1>10 DEF IInv

LEMMA StepInv ==
  ASSUME IInv, [Next]_vars
  PROVE  IInv'
<1>1. CASE MainStep
  BY <1>1, MountKeepsInv, OpenKeepsInv, WriteKeepsInv, SeekKeepsInv, ReadKeepsInv,
     CompareKeepsInv, UnmountKeepsInv DEF MainStep
<1>2. CASE MainClose
  BY <1>2, CloseTwiceKeepsInv, CloseKeepsInv DEF MainClose
<1>3. CASE PptStep
  BY <1>3, PptMountKeepsInv, PptOpenKeepsInv, PptReadKeepsInv, PptReadFailsKeepsInv,
     PptWriteKeepsInv, PptCloseKeepsInv, PptUnmountKeepsInv DEF PptStep
<1>4. CASE PowerCycle
  BY <1>4, PowerCycleKeepsInv
<1>5. CASE UNCHANGED vars
  <2>1. UNCHANGED <<sample, image, disk, mounted, workarea, file, v, i, read_buff, text, pc>>
        /\ UNCHANGED <<written, kept, boots, faults>>
    BY <1>5 DEF vars, board, history
  <2>2. Text' = Text /\ test_str' = test_str
    BY <2>1 DEF Text, test_str, Words
  <2>3. TypeOK'
    BY <2>1, SameSample DEF IInv, TypeOK
  <2>4. ControlInv' /\ FileInv'
    BY <2>1, SameSample DEF IInv, ControlInv, FileInv
  <2>5. CleanInv' /\ OlderInv' /\ KeptInv' /\ PptInv'
    BY <2>1, <2>2, SameSample DEF IInv, CleanInv, OlderInv, KeptInv, PptInv
  <2> QED
    BY <2>3, <2>4, <2>5 DEF IInv
<1> QED
  BY <1>1, <1>2, <1>3, <1>4, <1>5 DEF Next

LEMMA Invariance == Spec => []IInv
<1>1. Init => IInv
  BY InitInv
<1>2. IInv /\ [Next]_vars => IInv'
  BY StepInv
<1> QED
  BY <1>1, <1>2, PTL DEF Spec

-----------------------------------------------------------------------------
(* The theorems.                                                           *)

\* Every variable keeps its type, and the position stays inside the file.
THEOREM TypeCorrect == Spec => []TypeOK
<1>1. IInv => TypeOK
  BY DEF IInv
<1> QED
  BY <1>1, Invariance, PTL

\* "Data read successfully" of the first boot means that this round's write took
\* the whole text: otherwise every unit read is of an earlier round, and the
\* number of this one is not among them.
THEOREM MatchIsWritten == Spec => []MatchMeansWritten
<1>1. IInv => MatchMeansWritten
  <2> SUFFICES ASSUME IInv, pc = "compare", boots = 1, Matches, ~written PROVE FALSE
    BY DEF MatchMeansWritten
  <2>1. image = "main"
    BY DEF IInv, ControlInv, TypeOK, PptPlaces, PptOpened
  <2>2. Below(read_buff, i)
    BY <2>1 DEF IInv, OlderInv, InRound
  <2>3. Len(read_buff) = 2 /\ read_buff[2] = i /\ i \in Nat
    BY Units, Facts DEF Matches
  <2>4. i < i
    BY <2>2, <2>3 DEF Below
  <2> QED
    BY <2>3, <2>4
<1> QED
  BY <1>1, Invariance, PTL

\* Without a failing call every round reads back what it has written.
THEOREM CleanRounds == Spec => []CleanRoundMatches
<1>1. IInv => CleanRoundMatches
  BY DEF IInv, CleanInv, CleanRoundMatches, Matches
<1> QED
  BY <1>1, Invariance, PTL

\* The one work area of the volumes is that of the open file.
THEOREM WorkArea == Spec => []WorkAreaOfOpenFile
<1>1. IInv => WorkAreaOfOpenFile
  BY DEF IInv, FileInv, WorkAreaOfOpenFile
<1> QED
  BY <1>1, Invariance, PTL

\* A text that a boot has written and closed stays, whatever the boots after it
\* run, and whatever fails in them.
THEOREM TextStays == Spec => []TextSurvives
<1>1. IInv => TextSurvives
  <2> SUFFICES ASSUME IInv, ROUNDS = 1, NEW u \in kept
               PROVE  Len(disk[u]) >= 2 /\ SubSeq(disk[u], 1, 2) = Text
    BY DEF TextSurvives, ROUNDS
  <2>1. disk[u] \in Cells
    BY DEF IInv, TypeOK
  <2>2. HasText(disk[u], Text)
    BY DEF IInv, KeptInv
  <2>3. SubSeq(disk[u], 1, 2) = Text
    BY <2>1, <2>2, TextAtStart DEF Cells, Text
  <2> QED
    BY <2>2, <2>3 DEF HasText
<1> QED
  BY <1>1, Invariance, PTL

-----------------------------------------------------------------------------
(* The littlefs sample.                                                    *)

\* Quotient and remainder are unique.
LEMMA RemainderUnique ==
  ASSUME NEW U \in Nat, U > 0, NEW m \in Int, NEW p \in Int, NEW x \in 0 .. U - 1,
         m = U*p + x
  PROVE  m % U = x
<1> DEFINE q == m \div U
           y == m % U
<1>1. q \in Int /\ y \in 0 .. U - 1 /\ m = U*q + y
  OBVIOUS
<1> HIDE DEF q, y
<1>2. CASE p < q
  <2>1. U*q >= U*p + U
    BY <1>1, <1>2
  <2> QED
    BY <1>1, <2>1
<1>3. CASE q < p
  <2>1. U*p >= U*q + U
    BY <1>1, <1>3
  <2> QED
    BY <1>1, <2>1
<1>4. CASE p = q
  <2>1. y = x
    BY <1>1, <1>4
  <2> QED
    BY <2>1 DEF y
<1> QED
  BY <1>1, <1>2, <1>3, <1>4

LEMMA MultipleHasNoRemainder ==
  ASSUME NEW U \in Nat, U > 0, NEW p \in Int
  PROVE  (U*p) % U = 0
<1>1. 0 \in 0 .. U - 1
  OBVIOUS
<1>2. U*p \in Int /\ U*p = U*p + 0
  OBVIOUS
<1> QED
  BY <1>1, <1>2, RemainderUnique

\* The arithmetic of the byte, for any width of at least two values.
LEMMA Successor ==
  ASSUME NEW n \in Nat
  PROVE  /\ n % UINT8_SIZE \in 0 .. UINT8_SIZE - 1
         /\ (n + 1) % UINT8_SIZE \in 0 .. UINT8_SIZE - 1
         /\ ((n % UINT8_SIZE) + 1) % UINT8_SIZE = (n + 1) % UINT8_SIZE
         /\ (n + 1) % UINT8_SIZE # n % UINT8_SIZE
         /\ 0 % UINT8_SIZE = 0
<1> DEFINE U == UINT8_SIZE
           q == n \div U
           x == n % U
<1>1. U \in Nat /\ U > 1
  BY LittlefsBootAssumption
<1>2. q \in Int /\ x \in 0 .. U - 1 /\ n = U*q + x
  BY <1>1
<1>3. n % U = x /\ 0 % U = 0
  BY <1>1
<1> HIDE DEF U, q, x
<1>4. CASE x + 1 < U
  <2>1. U*q \in Int /\ n + 1 = U*q + (x + 1) /\ x + 1 = U*0 + (x + 1)
    BY <1>1, <1>2
  <2>2. x + 1 \in 0 .. U - 1 /\ n + 1 \in Int /\ x + 1 \in Int
    BY <1>1, <1>2, <1>4
  <2>3. (n + 1) % U = x + 1
    BY <1>1, <1>2, <2>1, <2>2, RemainderUnique
  <2>4. (x + 1) % U = x + 1
    BY <1>1, <1>2, <2>1, <2>2, RemainderUnique
  <2> QED
    BY <1>1, <1>2, <1>3, <2>2, <2>3, <2>4 DEF U
<1>5. CASE x + 1 = U
  <2>1. U*(q + 1) = U*q + U /\ U*q \in Int
    BY <1>1, <1>2
  <2>2. n + 1 = U*(q + 1) + 0 /\ x + 1 = U*1 + 0
    BY <1>1, <1>2, <1>5, <2>1
  <2>3. n + 1 \in Int /\ x + 1 \in Int /\ q + 1 \in Int /\ 0 \in 0 .. U - 1
    BY <1>1, <1>2
  <2>4. (n + 1) % U = 0
    <3> DEFINE r == q + 1
    <3>1. r \in Int /\ n + 1 = U*r
      BY <1>1, <1>2, <2>2, <2>3
    <3> HIDE DEF r
    <3>2. U \in Nat /\ U > 0
      BY <1>1
    <3>3. (U*r) % U = 0
      BY <3>1, <3>2, MultipleHasNoRemainder, Zenon
    <3> QED
      BY <3>1, <3>3, Zenon
  <2>5. (x + 1) % U = 0
    BY <1>1, <2>2, <2>3, RemainderUnique
  <2> QED
    BY <1>1, <1>2, <1>3, <1>5, <2>4, <2>5 DEF U
<1> QED
  BY <1>1, <1>2, <1>4, <1>5

-----------------------------------------------------------------------------
\* A boot counts once at the most, so that the counts fit in the boots.
CountedOnce ==
  /\ commits + (IF counted THEN 0 ELSE 1) <= boots
  /\ pc \notin {"unmount", "done"} => ~counted

\* The value on its way from the volume to the open file.
ValueOnItsWay ==
  /\ pc \in {"read", "seek", "write"} => lfs_file = stored
  /\ pc = "read" => boot_count = 0 /\ lfs_pos = 0
  /\ pc \in {"seek", "write"} => boot_count = commits % UINT8_SIZE
  /\ pc = "write" => lfs_pos = 0
  /\ pc = "close" =>
       \/ lfs_file = stored /\ (rc = -1 \/ unstored)
       \/ lfs_file = (commits + 1) % UINT8_SIZE

\* What the results say.
ResultsTell ==
  /\ faults = 0 => rc = 0
  /\ faults = 0 => ~unstored /\ (pc \in {"mount", "done"} \/ lfs_mounted)
  /\ pc = "unmount" /\ rc = 0 => counted \/ unstored
  /\ pc = "done" /\ faults = 0 => counted /\ ~lfs_mounted

CounterClosed ==
  pc \in {"mount", "statvfs", "opendir", "readdir", "open", "unmount", "done"} =>
    lfs_file = NotOpen

BootInv ==
  /\ BootTypeOK /\ CountsCommits
  /\ CountedOnce /\ ValueOnItsWay /\ ResultsTell /\ CounterClosed

\* The two marks of stored and lfs_file as the numbers they are.
USE DEF Empty, NotOpen

LEMMA BootInitInv == BootInit => BootInv
<1> SUFFICES ASSUME BootInit PROVE BootInv
  OBVIOUS
<1>0. lfs_mounted \in BOOLEAN /\ counted \in BOOLEAN /\ unstored \in BOOLEAN
  BY Zenon DEF BootInit
<1>1. BootTypeOK
  BY <1>0, LittlefsBootAssumption, BootsAssumption DEF BootInit, BootTypeOK
<1>2. CountsCommits /\ CountedOnce
  BY DEF BootInit, CountsCommits, CountedOnce
<1>3. ValueOnItsWay /\ ResultsTell /\ CounterClosed
  BY DEF BootInit, ValueOnItsWay, ResultsTell, CounterClosed
<1> QED
  BY <1>1, <1>2, <1>3 DEF BootInv

\* The calls before the file is opened, and the unmount, leave the counter alone.
LEMMA OtherCallsKeepInv ==
  ASSUME BootInv, MountVolume \/ Statvfs \/ OpenDir \/ ReadDir \/ UnmountVolume
  PROVE  BootInv'
<1> USE LittlefsBootAssumption, BootsAssumption DEF Result, Works, Fails, Goto, bootrecord
<1>1. CASE MountVolume
  <2>1. \/ Works /\ rc' = 0 /\ pc' = "statvfs" /\ lfs_mounted' = TRUE
        \/ Fails /\ rc' = -1 /\ pc' \in {"statvfs", "done"} /\ lfs_mounted' = FALSE
    BY <1>1 DEF MountVolume
  <2>2. pc = "mount" /\ UNCHANGED <<stored, lfs_file, lfs_pos, boot_count, entries, bootrecord>>
    BY <1>1 DEF MountVolume
  <2>3. lfs_mounted' \in BOOLEAN
    BY <2>1, Zenon
  <2>4. /\ faults \in 0 .. MAX_FAULTS /\ (faults' = faults \/ faults' = faults + 1)
        /\ faults' \in 0 .. MAX_FAULTS /\ boots' = boots
    BY <2>1 DEF BootInv, BootTypeOK
  <2>5. BootTypeOK' /\ CountsCommits' /\ CountedOnce' /\ ValueOnItsWay' /\ CounterClosed'
    BY <2>1, <2>2, <2>3, <2>4 DEF BootInv, BootTypeOK, CountsCommits, CountedOnce,
                                  ValueOnItsWay, CounterClosed
  <2>6. faults' = 0 => faults = 0 /\ rc' = 0 /\ pc' = "statvfs" /\ lfs_mounted'
    BY <2>1, <2>4
  <2>7. ResultsTell'
    BY <2>1, <2>2, <2>6 DEF BootInv, ResultsTell
  <2> QED
    BY <2>5, <2>7 DEF BootInv
<1>2. CASE Statvfs
  BY <1>2 DEF Statvfs, BootInv, BootTypeOK, CountsCommits, CountedOnce, ValueOnItsWay,
              ResultsTell, CounterClosed
<1>3. CASE OpenDir
  BY <1>3 DEF OpenDir, BootInv, BootTypeOK, CountsCommits, CountedOnce, ValueOnItsWay,
              ResultsTell, CounterClosed
<1>4. CASE ReadDir
  BY <1>4 DEF ReadDir, BootInv, BootTypeOK, CountsCommits, CountedOnce, ValueOnItsWay,
              ResultsTell, CounterClosed
<1>5. CASE UnmountVolume
  <2>1. lfs_mounted' \in BOOLEAN /\ counted' \in BOOLEAN
    BY <1>5, Zenon DEF UnmountVolume, BootInv, BootTypeOK
  <2> QED
    BY <1>5, <2>1 DEF UnmountVolume, BootInv, BootTypeOK, CountsCommits, CountedOnce,
                           ValueOnItsWay, ResultsTell, CounterClosed
<1> QED
  BY <1>1, <1>2, <1>3, <1>4, <1>5

LEMMA OpenCounterKeepsInv == ASSUME BootInv, OpenCounter PROVE BootInv'
BY LittlefsBootAssumption, BootsAssumption
   DEF OpenCounter, Result, Works, Fails, Goto, bootrecord, BootInv, BootTypeOK,
       CountsCommits, CountedOnce, ValueOnItsWay, ResultsTell, CounterClosed

\* What was read is the count so far; an empty file is a count of 0.
LEMMA ReadCounterKeepsInv == ASSUME BootInv, ReadCounter PROVE BootInv'
<1>1. commits \in Nat
  BY LittlefsBootAssumption, BootsAssumption DEF BootInv, BootTypeOK
<1>2. commits % UINT8_SIZE \in 0 .. UINT8_SIZE - 1 /\ 0 % UINT8_SIZE = 0
  BY <1>1, Successor
<1> QED
  BY <1>1, <1>2, LittlefsBootAssumption, BootsAssumption
     DEF ReadCounter, Result, Works, Fails, Goto, bootrecord, BootInv, BootTypeOK,
         CountsCommits, CountedOnce, ValueOnItsWay, ResultsTell, CounterClosed

LEMMA SeekCounterKeepsInv == ASSUME BootInv, SeekCounter PROVE BootInv'
BY LittlefsBootAssumption, BootsAssumption
   DEF SeekCounter, Result, Works, Fails, Goto, bootrecord, BootInv, BootTypeOK,
       CountsCommits, CountedOnce, ValueOnItsWay, ResultsTell, CounterClosed

\* The write puts the successor of the count in the open file, or nothing.
LEMMA WriteCounterKeepsInv == ASSUME BootInv, WriteCounter PROVE BootInv'
<1>1. commits \in Nat
  BY LittlefsBootAssumption, BootsAssumption DEF BootInv, BootTypeOK
<1>2. /\ boot_count' = (commits + 1) % UINT8_SIZE
      /\ (commits + 1) % UINT8_SIZE \in 0 .. UINT8_SIZE - 1
  BY <1>1, Successor DEF WriteCounter, BootInv, ValueOnItsWay
<1> QED
  BY <1>1, <1>2, LittlefsBootAssumption, BootsAssumption
     DEF WriteCounter, Result, Works, Fails, Goto, bootrecord, BootInv, BootTypeOK,
         CountsCommits, CountedOnce, ValueOnItsWay, ResultsTell, CounterClosed

\* A write that stores nothing leaves the open file as it was read.
LEMMA WriteStoresNothingKeepsInv == ASSUME BootInv, WriteStoresNothing PROVE BootInv'
<1>1. commits \in Nat
  BY LittlefsBootAssumption, BootsAssumption DEF BootInv, BootTypeOK
<1>2. /\ boot_count' = (commits + 1) % UINT8_SIZE
      /\ (commits + 1) % UINT8_SIZE \in 0 .. UINT8_SIZE - 1
  BY <1>1, Successor DEF WriteStoresNothing, BootInv, ValueOnItsWay
<1> QED
  BY <1>1, <1>2, LittlefsBootAssumption, BootsAssumption
     DEF WriteStoresNothing, Fails, Goto, BootInv, BootTypeOK, CountsCommits,
         CountedOnce, ValueOnItsWay, ResultsTell, CounterClosed

\* The close commits the successor, which differs from what is stored, or
\* leaves the volume as it is.
LEMMA CloseCounterKeepsInv == ASSUME BootInv, CloseCounter PROVE BootInv'
<1>1. commits \in Nat /\ commits + 1 <= MAX_BOOTS /\ ~counted
  BY LittlefsBootAssumption, BootsAssumption
     DEF CloseCounter, BootInv, BootTypeOK, CountedOnce
<1>2. /\ (commits + 1) % UINT8_SIZE \in 0 .. UINT8_SIZE - 1
      /\ (commits + 1) % UINT8_SIZE # commits % UINT8_SIZE
  BY <1>1, Successor
<1>3. (commits + 1) % UINT8_SIZE # stored
  BY <1>2, LittlefsBootAssumption, BootsAssumption DEF BootInv, CountsCommits
<1>4. CASE Commit /\ lfs_file = stored
  <2>1. rc' = -1 \/ unstored'
    BY <1>3, <1>4 DEF CloseCounter, BootInv, ValueOnItsWay
  <2>2. stored' = stored /\ commits' = commits /\ ~counted'
    BY <1>1, <1>4 DEF Commit
  <2>3. counted' \in BOOLEAN /\ lfs_mounted' \in BOOLEAN
    BY <1>4, Zenon DEF CloseCounter, Commit, BootInv, BootTypeOK
  <2> QED
    BY <1>1, <2>1, <2>2, <2>3, LittlefsBootAssumption, BootsAssumption
       DEF CloseCounter, Works, Fails, Goto, BootInv, BootTypeOK, CountsCommits,
           CountedOnce, ValueOnItsWay, ResultsTell, CounterClosed
<1>5. CASE Commit /\ lfs_file # stored
  <2>1. lfs_file = (commits + 1) % UINT8_SIZE
    BY <1>5 DEF CloseCounter, BootInv, ValueOnItsWay
  <2>2. stored' = lfs_file /\ commits' = commits + 1 /\ counted'
    BY <1>5 DEF Commit
  <2>3. CountsCommits'
    BY <1>1, <2>1, <2>2 DEF CountsCommits
  <2> QED
    BY <1>1, <1>2, <2>1, <2>2, <2>3, LittlefsBootAssumption, BootsAssumption
       DEF CloseCounter, Works, Fails, Goto, BootInv, BootTypeOK, CountedOnce,
           ValueOnItsWay, ResultsTell, CounterClosed
<1>6. CASE Abandon /\ Fails /\ rc' = -1
  BY <1>1, <1>6, LittlefsBootAssumption, BootsAssumption
     DEF CloseCounter, Abandon, Works, Fails, Goto, BootInv, BootTypeOK, CountsCommits,
         CountedOnce, ValueOnItsWay, ResultsTell, CounterClosed
<1> QED
  BY <1>4, <1>5, <1>6 DEF CloseCounter

\* A boot that was cut short leaves what the volume holds and nothing else.
LEMMA BootPowerCycleKeepsInv == ASSUME BootInv, BootPowerCycle PROVE BootInv'
<1>1. counted' \in BOOLEAN /\ lfs_mounted' \in BOOLEAN /\ unstored' \in BOOLEAN
  BY Zenon DEF BootPowerCycle, BootPowerOn
<1> QED
  BY <1>1, LittlefsBootAssumption, BootsAssumption
     DEF BootPowerCycle, BootPowerOn, BootInv, BootTypeOK, CountsCommits, CountedOnce,
         ValueOnItsWay, ResultsTell, CounterClosed

LEMMA BootStepInv == BootInv /\ [BootNext]_bootvars => BootInv'
<1> SUFFICES ASSUME BootInv, [BootNext]_bootvars PROVE BootInv'
  OBVIOUS
<1>1. CASE UNCHANGED bootvars
  BY <1>1
     DEF bootvars, bootrecord, BootInv, BootTypeOK, CountsCommits, CountedOnce,
         ValueOnItsWay, ResultsTell, CounterClosed
<1> QED
  BY <1>1, OtherCallsKeepInv, OpenCounterKeepsInv, ReadCounterKeepsInv,
     SeekCounterKeepsInv, WriteCounterKeepsInv, WriteStoresNothingKeepsInv,
     CloseCounterKeepsInv,
     BootPowerCycleKeepsInv
     DEF BootNext, Step

LEMMA BootInvariance == BootSpec => []BootInv
BY BootInitInv, BootStepInv, PTL DEF BootSpec

-----------------------------------------------------------------------------
\* The variables keep their types: the byte never holds a value it cannot, and
\* the count of commits never exceeds that of boots.
THEOREM BootTypesCorrect == BootSpec => []BootTypeOK
<1>1. BootInv => BootTypeOK
  BY DEF BootInv
<1> QED
  BY <1>1, BootInvariance, PTL

\* boot_count on the volume is the number of committed boots, modulo the width
\* of the byte, wherever power is cut and whichever calls fail.
THEOREM CounterCountsCommits == BootSpec => []CountsCommits
<1>1. BootInv => CountsCommits
  BY DEF BootInv
<1> QED
  BY <1>1, BootInvariance, PTL

\* littlefs_increase_infile_value returns 0 only if this boot has been counted,
\* but for a write that returned without an error and had stored nothing.
THEOREM SuccessMeansCounted == BootSpec => []ReportedMeansCounted
<1>1. BootInv => ReportedMeansCounted
  BY DEF BootInv, ResultsTell, ReportedMeansCounted
<1> QED
  BY <1>1, BootInvariance, PTL

\* No volume is unmounted under an open file, and a boot without a failing call
\* is counted and leaves its volume unmounted.
THEOREM BootIsClean == BootSpec => []CleanBoot
<1>1. BootInv => CleanBoot
  BY DEF BootInv, ResultsTell, CounterClosed, CleanBoot
<1> QED
  BY <1>1, BootInvariance, PTL
=============================================================================
