---- MODULE CurrentRegionProofs ----
(***************************************************************************)
(* Theorems about CurrentRegion and Relocate: however a file is written,   *)
(* replaced and removed while it is read, what is read was there; and for  *)
(* every text, region and parse, what is found is the region.              *)
(***************************************************************************)
EXTENDS CurrentRegion, FiniteSetTheorems, SequenceTheorems, TLAPS

---------------------------------------------------------------------------
\* The invariant of the read.

Types ==
    /\ inode \in [Ino -> Inode \cup {None}] /\ file \in Ino \cup {None} /\ now \in Nat
    /\ pc \in {"lstat", "stat", "open", "read", "after", "compare", "locate", "done"}
    /\ attempt \in {0, 1}
    /\ {before, opened, after} \subseteq Metadata \cup {None}
    /\ bytes \in Text /\ held \in SUBSET Text
    /\ {gone, twice} \subseteq BOOLEAN /\ changes \in [1 .. 2 -> Nat]
    /\ Reading => answer = None
    /\ pc # "done" => unit \in Region /\ parsed \in Parse

\* The path leads to a text that counts as held, and nothing is stamped later
\* than now.
Present ==
    /\ file # None => inode[file] # None /\ inode[file].text \in held
    /\ file = None => gone
    /\ \A i \in Ino : inode[i] # None => inode[i].time <= now

\* What has been looked at; the open inode is kept, and holds what the path has
\* led to.
Looked ==
    /\ pc \in {"open", "read", "after", "compare"} => before # None
    /\ Reading => (opened # None <=> pc \in {"read", "after", "compare"})
    /\ pc = "compare" => after # None
    /\ Reading /\ opened # None =>
          /\ inode[opened.ino] # None /\ inode[opened.ino].text \in held
          /\ inode[opened.ino].time >= opened.time

\* Nobody has written to the open inode, as far as stamps can tell.
Unwritten == ~twice /\ inode[opened.ino].time = opened.time

\* As long as that is so, what has been read is the inode's text, up to there.
ReadSoFar ==
    /\ pc \in {"lstat", "stat", "open"} => bytes = <<>>
    /\ pc = "read" /\ Unwritten =>
          LET text == inode[opened.ino].text
          IN Len(bytes) <= Len(text) /\ bytes = Slice(text, 0, Len(bytes))
    /\ pc = "after" /\ Unwritten => bytes = inode[opened.ino].text
    /\ pc = "compare" /\ ~twice /\ after = opened => bytes \in held
    /\ \E t \in held : Len(bytes) <= Len(t)

\* Without a change in this attempt every look sees the same.
Steady ==
    /\ attempt = 1 => changes[1] > 0
    /\ Reading /\ changes[attempt + 1] = 0 =>
          \A s \in {before, opened, after} \ {None} : file # None /\ s = StatOf(file)

IInv == Types /\ Present /\ Looked /\ ReadSoFar /\ Steady /\ SnapshotIsHonest

---------------------------------------------------------------------------
\* Slices.

LEMMA SliceType ==
    ASSUME NEW t \in Text, NEW a \in Nat, NEW b \in Nat, a <= b, b <= Len(t)
    PROVE  Slice(t, a, b) \in Text /\ Len(Slice(t, a, b)) = b - a
<1>1. \A i \in a + 1 .. b : t[i] \in Nat
  BY DEF Text
<1>2. /\ SubSeq(t, a + 1, b) \in Seq(Nat)
      /\ Len(SubSeq(t, a + 1, b)) = IF a + 1 <= b THEN b - (a + 1) + 1 ELSE 0
  BY <1>1, SubSeqProperties
<1> QED BY <1>2 DEF Slice, Text

LEMMA SliceEmpty == ASSUME NEW t, NEW a \in Nat PROVE Slice(t, a, a) = <<>>
BY SubSeqEmpty DEF Slice

LEMMA SliceAll == ASSUME NEW t \in Text PROVE Slice(t, 0, Len(t)) = t
BY SubSeqFull DEF Slice, Text

LEMMA SliceGrows ==
    ASSUME NEW t \in Text, NEW a \in Nat, NEW b \in Nat, a <= b, b <= Len(t)
    PROVE  Slice(t, 0, a) \o Slice(t, a, b) = Slice(t, 0, b)
<1>1. Len(t) \in Nat
  BY DEF Text
<1> QED BY <1>1, ConcatAdjacentSubSeq DEF Slice, Text

---------------------------------------------------------------------------
\* The others.

LEMMA InodeTypes ==
    ASSUME Types, Present, file # None
    PROVE  /\ file \in Ino /\ inode[file] \in Inode
           /\ StatOf(file) \in Metadata /\ StatOf(file) # None
           /\ StatOf(file).ino = file /\ StatOf(file).time = inode[file].time
           /\ StatOf(file).size = Len(inode[file].text)
<1>1. file \in Ino /\ inode[file] \in Inode
  BY DEF Types, Present
<1>2. StatOf(file) \in Metadata
  BY <1>1 DEF StatOf, Metadata, Inode, Text
<1> QED BY <1>1, <1>2, NoneAssumption DEF StatOf

\* A text comes to an inode that a stat has not seen open.
LEMMA PutKeeps ==
    ASSUME IInv, Changes, NEW t \in Text, NEW i \in Ino, Puts(i, t), gone' = gone, file' = i,
           twice' \in BOOLEAN, twice => twice',
           opened # None /\ opened.ino = i =>
               inode[i] # None /\ (inode[i].time = now => twice')
    PROVE  IInv'
<1>1. /\ pc' = pc /\ pc \notin {"locate", "done"} /\ attempt' = attempt /\ answer' = None
      /\ bytes' = bytes /\ before' = before /\ opened' = opened /\ after' = after /\ now' = now
      /\ unit' = unit /\ parsed' = parsed
      /\ changes' = [changes EXCEPT ![attempt + 1] = @ + 1]
      /\ held' = held \cup {t} /\ inode' = [inode EXCEPT ![i] = [text |-> t, time |-> now]]
  BY DEF IInv, Changes, Reading, Puts, stats, Types
<1>2. inode'[i] = [text |-> t, time |-> now] /\ \A j \in Ino \ {i} : inode'[j] = inode[j]
  BY <1>1 DEF IInv, Types
<1>3. [text |-> t, time |-> now] \in Inode /\ [text |-> t, time |-> now] # None
  BY NoneAssumption DEF IInv, Types, Inode
<1>4. changes'[attempt + 1] > 0 /\ changes' \in [1 .. 2 -> Nat] /\ (changes[1] > 0 => changes'[1] > 0)
  BY <1>1 DEF IInv, Types
<1>5. Types'
  BY <1>1, <1>3, <1>4 DEF IInv, Types, Reading
<1>6. Present'
  <2>1. i # None
    BY NoneAssumption
  <2> QED BY <1>1, <1>2, <1>3, <2>1 DEF IInv, Present, Types
<1>7. ASSUME opened # None PROVE opened.ino \in Ino /\ opened.time \in Nat
  BY <1>7 DEF IInv, Types, Metadata
<1>8. ASSUME opened # None
      PROVE  /\ inode'[opened.ino] # None /\ inode'[opened.ino].text \in held'
             /\ inode'[opened.ino].time >= opened.time
             /\ Unwritten' => inode'[opened.ino] = inode[opened.ino] /\ Unwritten
  <2>1. /\ inode[opened.ino] # None /\ inode[opened.ino].text \in held
        /\ inode[opened.ino].time >= opened.time /\ opened.ino \in Ino /\ opened.time \in Nat
        /\ inode[opened.ino].time \in Nat /\ inode[opened.ino].time <= now /\ now \in Nat
    BY <1>1, <1>7, <1>8 DEF IInv, Looked, Reading, Present, Types, Inode
  <2>2. CASE opened.ino = i
    <3>1. inode'[i].time = now /\ inode'[i].text = t
      BY <1>2
    <3>2. ~Unwritten'
      BY <1>1, <1>8, <2>1, <2>2, <3>1 DEF Unwritten
    <3> QED BY <1>1, <1>2, <1>3, <2>1, <2>2, <3>1, <3>2
  <2>3. CASE opened.ino # i
    BY <1>1, <1>2, <2>1, <2>3 DEF Unwritten
  <2> QED BY <2>2, <2>3
<1>9. Looked'
  BY <1>1, <1>8 DEF IInv, Looked, Reading
<1>10. ReadSoFar'
  BY <1>1, <1>8 DEF IInv, ReadSoFar, Looked, Reading
<1>11. Steady'
  BY <1>1, <1>4 DEF IInv, Steady
<1>12. SnapshotIsHonest'
  BY <1>1, NoneAssumption DEF SnapshotIsHonest, Error
<1> QED BY <1>5, <1>6, <1>9, <1>10, <1>11, <1>12 DEF IInv

LEMMA WriteInPlaceKeeps ==
    ASSUME IInv, NEW t \in Written, WriteInPlace(t) PROVE IInv'
<1>1. t \in Text /\ file \in Ino /\ file' = file /\ inode[file] # None
  BY FileAssumption DEF WriteInPlace, IInv, Types, Present
<1>2. twice' = (twice \/ inode[file].time = now) /\ twice \in BOOLEAN
  BY DEF WriteInPlace, IInv, Types
<1>3. twice' \in BOOLEAN /\ (twice => twice') /\ (inode[file].time = now => twice')
  BY <1>2
<1> QED BY <1>1, <1>3, PutKeeps DEF WriteInPlace

LEMMA ReplaceKeeps ==
    ASSUME IInv, NEW t \in Written, Replace(t) PROVE IInv'
<1>1. PICK i \in Free : file' = i /\ Puts(i, t)
  BY DEF Replace
<1>2. i \in Ino /\ (opened = None \/ opened.ino # i)
  BY <1>1 DEF Free
<1>3. Changes /\ gone' = gone /\ twice' = twice /\ twice \in BOOLEAN /\ t \in Text
  BY FileAssumption DEF Replace, IInv, Types
<1> QED BY <1>1, <1>2, <1>3, PutKeeps

LEMMA RemoveKeeps == ASSUME IInv, Remove PROVE IInv'
<1>1. /\ pc' = pc /\ pc \notin {"locate", "done"} /\ attempt' = attempt /\ answer' = None
      /\ bytes' = bytes /\ before' = before /\ opened' = opened /\ after' = after /\ now' = now
      /\ unit' = unit /\ parsed' = parsed /\ inode' = inode /\ held' = held /\ twice' = twice
      /\ file' = None /\ gone' = TRUE
      /\ changes' = [changes EXCEPT ![attempt + 1] = @ + 1]
  BY DEF IInv, Remove, Changes, Reading, stats, Types
<1>2. changes'[attempt + 1] > 0 /\ changes' \in [1 .. 2 -> Nat] /\ (changes[1] > 0 => changes'[1] > 0)
  BY <1>1 DEF IInv, Types
<1>3. Types' /\ Present'
  BY <1>1, <1>2 DEF IInv, Types, Present, Reading
<1>4. Looked'
  BY <1>1 DEF IInv, Looked, Reading
<1>5. ReadSoFar'
  BY <1>1 DEF IInv, ReadSoFar, Unwritten
<1>6. Steady'
  BY <1>1, <1>2 DEF IInv, Steady
<1>7. SnapshotIsHonest'
  BY <1>1, NoneAssumption DEF SnapshotIsHonest, Error
<1> QED BY <1>3, <1>4, <1>5, <1>6, <1>7 DEF IInv

LEMMA TickKeeps == ASSUME IInv, Tick PROVE IInv'
<1>1. UNCHANGED <<inode, file, held, gone, changes, twice, pc, attempt, before, opened, after,
                  bytes, answer, unit, parsed>>
  BY DEF Tick, stats
<1>2. now' = now + 1
  BY DEF Tick
<1>3. Types' /\ Looked' /\ ReadSoFar' /\ SnapshotIsHonest'
  BY <1>1, <1>2 DEF IInv, Types, Looked, Reading, ReadSoFar, Unwritten, SnapshotIsHonest
<1>4. Present'
  BY <1>1, <1>2 DEF IInv, Present, Types, Inode
<1>5. Steady'
  BY <1>1 DEF IInv, Steady, Reading, StatOf
<1> QED BY <1>3, <1>4, <1>5 DEF IInv

---------------------------------------------------------------------------
\* The reader.

\* A step of the reader that leaves the files alone, up to where it goes.
Quiet == UNCHANGED <<inode, file, now, gone, changes, twice, unit, parsed>>

\* An error ends the read, and is an honest one.
LEMMA FailKeeps ==
    ASSUME IInv, Reading, NEW e \in Error, Fails(e), Quiet, UNCHANGED <<attempt, bytes, held>>,
           {before', opened', after'} \subseteq Metadata \cup {None},
           e \in {"deleted", "resolution_failed"} => file = None,
           e = "file_too_large" => \E t \in held : Len(t) > MaxBytes,
           e = "snapshot_unstable" => changes[1] > 0 /\ changes[2] > 0
    PROVE  IInv'
<1>1. answer' = e /\ pc' = "done"
  BY DEF Fails
<1>2. Types' /\ Present' /\ Looked' /\ ReadSoFar' /\ Steady'
  BY <1>1 DEF IInv, Types, Present, Looked, ReadSoFar, Steady, Reading, Quiet
<1>3. SnapshotIsHonest'
  BY <1>1 DEF SnapshotIsHonest, Quiet, IInv, Present, Error
<1> QED BY <1>2, <1>3 DEF IInv

LEMMA LstatKeeps == ASSUME IInv, Lstat PROVE IInv'
<1>1. Reading /\ Quiet /\ UNCHANGED <<attempt, bytes, held, before, opened, after>>
  BY DEF Lstat, Reading, Quiet, disk, stats
<1>2. {before', opened', after'} \subseteq Metadata \cup {None}
  BY <1>1 DEF IInv, Types
<1>3. CASE file = None
  BY <1>1, <1>2, <1>3, FailKeeps DEF Lstat, Error
<1>4. CASE file # None
  BY <1>1, <1>4 DEF Lstat, Goes, Quiet, IInv, Types, Present, Looked, Reading, ReadSoFar,
     Unwritten, Steady, StatOf, SnapshotIsHonest
<1> QED BY <1>3, <1>4

LEMMA StatKeeps == ASSUME IInv, Stat PROVE IInv'
<1>1. pc = "stat" /\ Reading /\ Quiet /\ UNCHANGED <<attempt, bytes, held, opened, after>>
  BY DEF Stat, Reading, Quiet, disk
<1>2. CASE file = None
  <2>1. {before', opened', after'} \subseteq Metadata \cup {None}
    BY <1>1, <1>2 DEF IInv, Types, Stat
  <2> QED BY <1>1, <1>2, <2>1, FailKeeps DEF Stat, Error
<1>3. CASE file # None
  <2>1. /\ before' = StatOf(file) /\ before' \in Metadata /\ before' # None
        /\ inode[file].text \in held
    BY <1>1, <1>3, InodeTypes DEF Stat, IInv, Present
  <2>2. {before', opened', after'} \subseteq Metadata \cup {None}
    BY <1>1, <2>1 DEF IInv, Types
  <2>3. CASE Len(inode[file].text) > MaxBytes
    BY <1>1, <1>3, <2>1, <2>2, <2>3, FailKeeps DEF Stat, Error
  <2>4. CASE ~(Len(inode[file].text) > MaxBytes)
    <3>1. pc' = "open" /\ answer' = answer
      BY <1>1, <1>3, <2>4 DEF Stat, Goes
    <3>2. Types' /\ Present' /\ SnapshotIsHonest'
      BY <1>1, <2>2, <3>1 DEF Quiet, IInv, Types, Present, Reading, SnapshotIsHonest
    <3>3. Looked' /\ ReadSoFar'
      BY <1>1, <2>1, <3>1 DEF Quiet, IInv, Looked, Reading, ReadSoFar, Unwritten
    <3>4. Steady'
      BY <1>1, <1>3, <2>1, <3>1 DEF Quiet, IInv, Steady, Reading, StatOf
    <3> QED BY <3>2, <3>3, <3>4 DEF IInv
  <2> QED BY <2>3, <2>4
<1> QED BY <1>2, <1>3

LEMMA OpenKeeps == ASSUME IInv, Open PROVE IInv'
<1>1. pc = "open" /\ Reading /\ Quiet /\ UNCHANGED <<attempt, bytes, held, before, after>>
  BY DEF Open, Reading, Quiet, disk
<1>2. CASE file = None
  <2>1. {before', opened', after'} \subseteq Metadata \cup {None}
    BY <1>1, <1>2 DEF IInv, Types, Open
  <2> QED BY <1>1, <1>2, <2>1, FailKeeps DEF Open, Error
<1>3. CASE file # None
  <2>1. /\ opened' = StatOf(file) /\ opened' \in Metadata /\ opened' # None
        /\ opened'.ino = file /\ opened'.time = inode[file].time
        /\ inode[file] \in Inode /\ inode[file] # None /\ inode[file].text \in held
        /\ pc' = "read" /\ answer' = answer
    BY <1>1, <1>3, InodeTypes DEF Open, Goes, IInv, Present
  <2>2. Types' /\ Present' /\ SnapshotIsHonest'
    BY <1>1, <2>1 DEF Quiet, IInv, Types, Present, Reading, SnapshotIsHonest
  <2>3. Looked'
    BY <1>1, <2>1 DEF Quiet, IInv, Looked, Reading, Inode
  <2>4. Steady'
    BY <1>1, <1>3, <2>1 DEF Quiet, IInv, Steady, Reading, StatOf
  <2>5. ReadSoFar'
    <3>1. bytes = <<>> /\ Len(bytes) = 0 /\ bytes' = bytes
      BY <1>1 DEF IInv, ReadSoFar
    <3>2. inode[file].text \in Text /\ bytes = Slice(inode[file].text, 0, 0)
      BY <2>1, <3>1, SliceEmpty DEF Inode
    <3>3. inode' = inode /\ held' = held
      BY <1>1 DEF Quiet
    <3> QED BY <2>1, <3>1, <3>2, <3>3 DEF IInv, ReadSoFar, Text
  <2> QED BY <2>2, <2>3, <2>4, <2>5 DEF IInv
<1> QED BY <1>2, <1>3

LEMMA ReadKeeps == ASSUME IInv, Read PROVE IInv'
<1> DEFINE text == inode[opened.ino].text
           most == Least(Len(text), MaxBytes + 1)
<1>1. /\ pc = "read" /\ Reading /\ Quiet /\ UNCHANGED <<attempt, held, before, opened, after>>
      /\ {before', opened', after'} \subseteq Metadata \cup {None}
  BY DEF Read, Reading, Quiet, disk, stats, IInv, Types
<1>2. /\ opened # None /\ inode[opened.ino] # None /\ text \in held /\ text \in Text
      /\ bytes \in Text /\ Len(bytes) \in Nat /\ Len(text) \in Nat /\ MaxBytes \in Nat
  BY <1>1, FileAssumption DEF IInv, Looked, Types, Text
<1>3. most \in Nat /\ most <= Len(text) /\ (most = Len(text) \/ most = MaxBytes + 1)
  BY <1>2 DEF Least
<1>4. CASE Len(bytes) < most
  <2>1. PICK upto \in Len(bytes) + 1 .. most : bytes' = bytes \o Slice(text, Len(bytes), upto)
    BY <1>4 DEF Read
  <2> HIDE DEF text, most
  <2> upto \in Nat /\ Len(bytes) <= upto /\ upto <= Len(text)
    BY <1>2, <1>3, <1>4
  <2>2. pc' = "read" /\ answer' = answer
    BY <1>4 DEF Read, Goes, text, most
  <2>3. /\ Slice(text, Len(bytes), upto) \in Text
        /\ Len(Slice(text, Len(bytes), upto)) = upto - Len(bytes)
    BY <1>2, SliceType
  <2>4. bytes' \in Text /\ Len(bytes') = upto
    <3>1. /\ bytes' \in Seq(Nat)
          /\ Len(bytes') = Len(bytes) + Len(Slice(text, Len(bytes), upto))
      BY <1>2, <2>1, <2>3, ConcatProperties DEF Text
    <3> QED BY <1>2, <2>3, <3>1 DEF Text
  <2>5. Types' /\ Present' /\ SnapshotIsHonest'
    BY <1>1, <2>2, <2>4, NoneAssumption DEF Quiet, IInv, Types, Present, Reading, SnapshotIsHonest, Error
  <2>6. Looked' /\ Steady'
    BY <1>1, <2>2 DEF Quiet, IInv, Looked, Steady, Reading, StatOf
  <2>7. ASSUME Unwritten' PROVE bytes' = Slice(text, 0, upto)
    <3>1. bytes = Slice(text, 0, Len(bytes))
      BY <1>1, <2>7 DEF IInv, ReadSoFar, Unwritten, Quiet, text
    <3>2. Slice(text, 0, Len(bytes)) \o Slice(text, Len(bytes), upto) = Slice(text, 0, upto)
      BY <1>2, SliceGrows
    <3> QED BY <2>1, <3>1, <3>2
  <2>8. ReadSoFar'
    BY <1>1, <1>2, <2>2, <2>4, <2>7 DEF ReadSoFar, Quiet, text
  <2> QED BY <2>5, <2>6, <2>8 DEF IInv
<1>5. CASE ~(Len(bytes) < most)
  <2>1. bytes' = bytes
    BY <1>5 DEF Read
  <2>2. CASE Len(bytes) > MaxBytes
    <3>1. PICK t \in held : Len(bytes) <= Len(t)
      BY DEF IInv, ReadSoFar
    <3>2. Len(t) \in Nat
      BY DEF IInv, Types, Text
    <3>3. Len(t) > MaxBytes
      BY <1>2, <2>2, <3>1, <3>2
    <3>4. Fails("file_too_large")
      BY <1>5, <2>2 DEF Read
    <3> QED BY <1>1, <2>1, <3>3, <3>4, FailKeeps DEF Error
  <2>3. CASE ~(Len(bytes) > MaxBytes)
    <3>1. pc' = "after" /\ answer' = answer
      BY <1>5, <2>3 DEF Read, Goes
    <3>2. Types' /\ Present' /\ SnapshotIsHonest'
      BY <1>1, <2>1, <3>1, NoneAssumption
         DEF Quiet, IInv, Types, Present, Reading, SnapshotIsHonest, Error
    <3>3. Looked' /\ Steady'
      BY <1>1, <3>1 DEF Quiet, IInv, Looked, Steady, Reading, StatOf
    <3>4. ASSUME Unwritten' PROVE bytes = text
      <4>1. bytes = Slice(text, 0, Len(bytes)) /\ Len(bytes) <= Len(text)
        BY <1>1, <3>4 DEF IInv, ReadSoFar, Unwritten, Quiet
      <4>2. Len(bytes) = Len(text)
        BY <1>2, <1>3, <1>5, <2>3, <4>1
      <4> QED BY <1>2, <4>1, <4>2, SliceAll
    <3>5. ReadSoFar'
      BY <1>1, <2>1, <3>1, <3>4 DEF ReadSoFar, Quiet, IInv
    <3> QED BY <3>2, <3>3, <3>5 DEF IInv
  <2> QED BY <2>2, <2>3
<1> QED BY <1>4, <1>5

LEMMA AfterKeeps == ASSUME IInv, After PROVE IInv'
<1>1. pc = "after" /\ Reading /\ Quiet /\ UNCHANGED <<attempt, bytes, held, before, opened>>
  BY DEF After, Reading, Quiet, disk
<1>2. CASE file = None
  <2>1. {before', opened', after'} \subseteq Metadata \cup {None}
    BY <1>1, <1>2 DEF IInv, Types, After
  <2> QED BY <1>1, <1>2, <2>1, FailKeeps DEF After, Error
<1>3. CASE file # None
  <2>1. /\ after' = StatOf(file) /\ after' \in Metadata /\ after' # None
        /\ after'.ino = file /\ after'.time = inode[file].time
        /\ pc' = "compare" /\ answer' = answer /\ opened # None
    BY <1>1, <1>3, InodeTypes DEF After, Goes, IInv, Looked
  <2>2. Types' /\ Present' /\ SnapshotIsHonest'
    BY <1>1, <2>1 DEF Quiet, IInv, Types, Present, Reading, SnapshotIsHonest
  <2>3. Looked'
    BY <1>1, <2>1 DEF Quiet, IInv, Looked, Reading
  <2>4. Steady'
    BY <1>1, <1>3, <2>1 DEF Quiet, IInv, Steady, Reading, StatOf
  <2>5. ASSUME ~twice, after' = opened PROVE bytes \in held
    <3>1. Unwritten
      BY <2>1, <2>5 DEF Unwritten
    <3> QED BY <1>1, <2>1, <3>1 DEF IInv, Looked, ReadSoFar
  <2>6. ReadSoFar'
    BY <1>1, <2>1, <2>5 DEF Quiet, IInv, ReadSoFar
  <2> QED BY <2>2, <2>3, <2>4, <2>6 DEF IInv
<1> QED BY <1>2, <1>3

LEMMA CompareKeeps == ASSUME IInv, Compare PROVE IInv'
<1>1. /\ pc = "compare" /\ Reading /\ Quiet /\ before # None /\ opened # None /\ after # None
      /\ {before, opened, after} \subseteq Metadata \cup {None} /\ attempt \in {0, 1}
      /\ held \in SUBSET Text /\ changes \in [1 .. 2 -> Nat] /\ bytes \in Text
  BY DEF Compare, Reading, Quiet, IInv, Looked, Types
<1>2. ASSUME Unstable PROVE changes[attempt + 1] > 0
  <2>1. changes[attempt + 1] \in Nat
    BY <1>1
  <2>2. changes[attempt + 1] # 0
    BY <1>1, <1>2 DEF Unstable, IInv, Steady
  <2> QED BY <2>1, <2>2
<1>3. CASE file = None /\ Fails("deleted") /\ UNCHANGED <<attempt, stats, bytes, held>>
  BY <1>1, <1>3, FailKeeps DEF Error, stats
<1>4. CASE /\ file # None /\ ~Unstable
           /\ answer' = "ok" /\ pc' = "locate" /\ UNCHANGED <<attempt, stats, bytes, held>>
  <2>1. UNCHANGED <<attempt, before, opened, after, bytes, held>>
    BY <1>4 DEF stats
  <2>2. twice \/ bytes \in held
    BY <1>1, <1>4 DEF Unstable, IInv, ReadSoFar
  <2>3. Types' /\ Present' /\ Looked' /\ Steady'
    BY <1>1, <1>4, <2>1 DEF Quiet, IInv, Types, Present, Reading, Looked, Steady
  <2>4. ReadSoFar' /\ SnapshotIsHonest'
    BY <1>1, <1>4, <2>1, <2>2 DEF Quiet, IInv, ReadSoFar, SnapshotIsHonest, Types
  <2> QED BY <2>3, <2>4 DEF IInv
<1>5. CASE /\ file # None /\ Unstable /\ attempt = 1
           /\ Fails("snapshot_unstable") /\ UNCHANGED <<attempt, stats, bytes, held>>
  <2>1. changes[1] > 0 /\ changes[2] > 0
    BY <1>2, <1>5 DEF IInv, Steady
  <2> QED BY <1>1, <1>5, <2>1, FailKeeps DEF Error, stats
<1>6. CASE /\ file # None /\ Unstable /\ attempt = 0
           /\ attempt' = 1 /\ Goes("lstat")
           /\ before' = None /\ opened' = None /\ after' = None /\ bytes' = <<>>
           /\ held' = {inode[file].text}
  <2>1. changes[1] > 0
    BY <1>2, <1>6
  <2>2. inode[file].text \in Text /\ inode[file] # None
    BY <1>1, <1>6 DEF IInv, Present
  <2>3. <<>> \in Text /\ Len(<<>>) = 0 /\ Len(inode[file].text) \in Nat
    BY <2>2 DEF Text
  <2>4. pc' = "lstat" /\ answer' = answer
    BY <1>6 DEF Goes
  <2>5. Types' /\ Present' /\ SnapshotIsHonest'
    BY <1>1, <1>6, <2>2, <2>3, <2>4, NoneAssumption
       DEF Quiet, IInv, Types, Present, Reading, SnapshotIsHonest, Error
  <2>6. Looked' /\ ReadSoFar' /\ Steady'
    BY <1>1, <1>6, <2>1, <2>3, <2>4 DEF Quiet, Looked, ReadSoFar, Steady, Reading
  <2> QED BY <2>5, <2>6 DEF IInv
<1> QED BY <1>3, <1>4, <1>5, <1>6 DEF Compare

LEMMA LocateKeeps == ASSUME IInv, Locate PROVE IInv'
BY DEF Locate, disk, stats, IInv, Types, Present, Looked, ReadSoFar, Steady, SnapshotIsHonest, Reading

LEMMA InitHolds == Init => IInv
<1> SUFFICES ASSUME Init PROVE IInv
  OBVIOUS
<1>1. PICK c \in Start :
         /\ unit = c.unit /\ parsed = c.parsed
         /\ inode = [i \in Ino |-> IF i = 1 THEN [text |-> c.text, time |-> 0] ELSE None]
         /\ held = {c.text}
         /\ pc = IF c.read THEN "locate" ELSE "lstat"
         /\ bytes = IF c.read THEN c.text ELSE <<>>
         /\ answer = IF c.read THEN "ok" ELSE None
  BY DEF Init
<1>2. c.unit \in Region /\ c.parsed \in Parse /\ c.text \in Text /\ c.read \in BOOLEAN
  BY StartAssumption
<1>3. inode[1] = [text |-> c.text, time |-> 0] /\ [text |-> c.text, time |-> 0] \in Inode
  BY <1>1, <1>2, FileAssumption DEF Inode
<1>4. <<>> \in Text /\ Len(<<>>) = 0 /\ Len(c.text) \in Nat
  BY <1>2 DEF Text
<1>5. Types
  <2>1. inode \in [Ino -> Inode \cup {None}] /\ file \in Ino
    BY <1>1, <1>3, FileAssumption DEF Init
  <2>2. changes \in [1 .. 2 -> Nat] /\ now \in Nat /\ attempt \in {0, 1}
    BY DEF Init
  <2>3. bytes \in Text /\ held \in SUBSET Text /\ unit \in Region /\ parsed \in Parse
    BY <1>1, <1>2, <1>4
  <2>4. pc \in {"lstat", "locate"} /\ (pc = "lstat" => answer = None)
    BY <1>1, <1>2
  <2> QED BY <2>1, <2>2, <2>3, <2>4 DEF Init, Types, Reading
<1>6. Present /\ Looked
  BY <1>1, <1>3, FileAssumption, NoneAssumption DEF Init, Present, Looked, Reading
<1>7. ReadSoFar /\ Steady
  BY <1>1, <1>2, <1>4 DEF Init, ReadSoFar, Steady, Reading
<1>8. SnapshotIsHonest
  BY <1>1, <1>2, NoneAssumption DEF Init, SnapshotIsHonest, Error
<1> QED BY <1>5, <1>6, <1>7, <1>8 DEF IInv

LEMMA NextKeeps == ASSUME IInv, [Next]_vars PROVE IInv'
<1>1. CASE UNCHANGED vars
  BY <1>1 DEF vars, disk, stats, IInv, Types, Present, Looked, ReadSoFar, Unwritten, Steady,
     SnapshotIsHonest, Reading, StatOf
<1> QED BY <1>1, LstatKeeps, StatKeeps, OpenKeeps, ReadKeeps, AfterKeeps, CompareKeeps, LocateKeeps,
           WriteInPlaceKeeps, ReplaceKeeps, RemoveKeeps, TickKeeps DEF Next, Others

LEMMA AlwaysIInv == Spec => []IInv
<1> QED BY InitHolds, NextKeeps, PTL DEF Spec

\* Whatever is written, replaced and removed meanwhile, and however little each
\* read returns, a snapshot is a text the file had during that attempt, unless it
\* was written twice in one tick; and each error has its cause (workspace.mjs
\* 92-131).
THEOREM SnapshotsAreHonest == Spec => []SnapshotIsHonest
<1>1. IInv => SnapshotIsHonest
  BY DEF IInv
<1> QED BY <1>1, AlwaysIInv, PTL

---------------------------------------------------------------------------
\* Relocation: where a text occurs.

\* A nonempty set of numbers has a least one.
LEMMA MinExists ==
    ASSUME NEW S, S \subseteq Nat, S # {} PROVE Min(S) \in S /\ \A x \in S : Min(S) <= x
<1>1. PICK n \in S : TRUE
  OBVIOUS
<1> DEFINE T == {0 .. y : y \in S \cap (0 .. n)}
<1>2. IsFiniteSet(0 .. n)
  BY FS_Interval
<1>3. T \subseteq FiniteSubsetsOf(0 .. n) /\ T # {}
  <2>1. \A y \in S \cap (0 .. n) : 0 .. y \subseteq 0 .. n
    OBVIOUS
  <2>2. \A A \in T : A \in SUBSET (0 .. n)
    BY <2>1
  <2> HIDE DEF T
  <2>3. \A A \in T : IsFiniteSet(A)
    BY <1>2, <2>2, FS_Subset
  <2>4. T # {}
    BY <1>1 DEF T
  <2> QED BY <2>2, <2>3, <2>4 DEF FiniteSubsetsOf
<1>4. PICK A \in T : \A B \in T : ~(<<B, A>> \in StrictSubsetOrdering(0 .. n))
  <2> HIDE DEF T
  <2> QED BY <1>2, <1>3, FS_StrictSubsetOrderingWellFounded, WFMin
<1>5. PICK x \in S \cap (0 .. n) : A = 0 .. x
  OBVIOUS
<1>6. ASSUME NEW y \in S PROVE x <= y
  <2> SUFFICES ASSUME y < x PROVE FALSE
    OBVIOUS
  <2>1. y \in S \cap (0 .. n) /\ 0 .. y \in T
    OBVIOUS
  <2>2. 0 .. y \subseteq 0 .. x /\ 0 .. y # 0 .. x /\ 0 .. x \subseteq 0 .. n
    <3>1. x \in 0 .. x /\ x \notin 0 .. y
      OBVIOUS
    <3> QED BY <3>1
  <2>3. <<0 .. y, A>> \in StrictSubsetOrdering(0 .. n)
    BY <1>5, <2>2 DEF StrictSubsetOrdering
  <2> QED BY <1>4, <2>1, <2>3
<1> QED BY <1>6 DEF Min

\* Each occurrence is one, and is in the text.
LEMMA OccurrenceIs ==
    ASSUME NEW text \in Text, NEW needle \in Text, NEW at \in Occurrences(text, needle)
    PROVE  /\ at \in Nat /\ Len(needle) \in Nat \ {0} /\ Len(text) \in Nat
           /\ at + Len(needle) <= Len(text)
           /\ Slice(text, at, at + Len(needle)) = needle
<1>1. Len(text) \in Nat /\ Len(needle) \in Nat /\ (needle # <<>> => Len(needle) # 0)
  BY DEF Text
<1> QED BY <1>1 DEF Occurrences

\* Where the referent stands it occurs.
LEMMA SliceOccurs ==
    ASSUME NEW text \in Text, NEW a \in Nat, NEW b \in Nat, InBounds(text, a, b)
    PROVE  a \in Occurrences(text, Slice(text, a, b)) /\ b = a + Len(Slice(text, a, b))
<1> DEFINE slice == Slice(text, a, b)
<1>1. a < b /\ b <= Len(text) /\ Len(text) \in Nat
  BY DEF InBounds, Text
<1>2. Len(slice) = b - a
  BY <1>1, SliceType
<1> HIDE DEF slice
<1>3. slice # <<>> /\ b = a + Len(slice) /\ a \in 0 .. Len(text) - Len(slice)
  BY <1>1, <1>2
<1>4. Slice(text, a, a + Len(slice)) = slice
  BY <1>3 DEF slice
<1>5. a \in Occurrences(text, slice)
  BY <1>3, <1>4 DEF Occurrences
<1> QED BY <1>3, <1>5 DEF slice

LEMMA ReferentOccurs ==
    ASSUME NEW text \in Text, NEW u \in Region, NEW a \in Nat, NEW b \in Nat,
           IsReferent(text, u, a, b)
    PROVE  a \in Occurrences(text, u.referent) /\ b = a + Len(u.referent)
BY SliceOccurs DEF IsReferent

LEMMA OccurrencesFinite ==
    ASSUME NEW text \in Text, NEW needle \in Text
    PROVE  IsFiniteSet(Occurrences(text, needle)) /\ Occurrences(text, needle) \subseteq Nat
<1>1. Len(text) - Len(needle) \in Int
  BY DEF Text
<1>2. IsFiniteSet(0 .. Len(text) - Len(needle)) /\ IsFiniteSet({})
  BY <1>1, FS_Interval, FS_EmptySet
<1>3. Occurrences(text, needle) \subseteq 0 .. Len(text) - Len(needle)
  BY DEF Occurrences
<1>4. IsFiniteSet(Occurrences(text, needle))
  BY <1>2, <1>3, FS_Subset
<1> QED BY <1>1, <1>3, <1>4

\* One element, the smallest.
LEMMA OnlyOne ==
    ASSUME NEW S, IsFiniteSet(S), S \subseteq Nat, Cardinality(S) = 1
    PROVE  S = {Min(S)} /\ Min(S) \in Nat
<1>1. PICK x : S = {x}
  BY FS_Singleton
<1>2. Min(S) = x
  BY <1>1 DEF Min
<1> QED BY <1>1, <1>2

\* The surroundings at an occurrence of the anchors, or at the text's ends.
LEMMA PrefixHolds ==
    ASSUME NEW text \in Text, NEW prefix \in Text, NEW at \in Occurrences(text, prefix)
    PROVE  PrefixAt(text, at + Len(prefix), prefix)
<1>1. /\ at \in Nat /\ Len(prefix) \in Nat /\ Slice(text, at, at + Len(prefix)) = prefix
      /\ at + Len(prefix) - Len(prefix) = at /\ Len(prefix) - Len(prefix) = 0
  BY OccurrenceIs
<1>2. Least(at + Len(prefix), Len(prefix)) = Len(prefix)
  BY <1>1 DEF Least
<1> QED BY <1>1, <1>2, SliceAll DEF PrefixAt

LEMMA SuffixHolds ==
    ASSUME NEW text \in Text, NEW suffix \in Text, NEW at \in Occurrences(text, suffix)
    PROVE  SuffixAt(text, at, suffix)
<1>1. /\ at \in Nat /\ Len(suffix) \in Nat /\ Len(text) \in Nat /\ at + Len(suffix) <= Len(text)
      /\ Slice(text, at, at + Len(suffix)) = suffix
  BY OccurrenceIs
<1>2. Least(Len(text) - at, Len(suffix)) = Len(suffix)
  BY <1>1 DEF Least
<1> QED BY <1>1, <1>2, SliceAll DEF SuffixAt

LEMMA NothingHolds ==
    ASSUME NEW text \in Text, NEW at \in Nat
    PROVE  PrefixAt(text, at, <<>>) /\ (at <= Len(text) => SuffixAt(text, at, <<>>))
<1>1. Len(text) \in Nat /\ Len(<<>>) = 0 /\ Least(at, 0) = 0
  BY DEF Text, Least
<1>2. PrefixAt(text, at, <<>>)
  <2>1. Slice(text, at, at) = <<>> /\ Slice(<<>>, 0, 0) = <<>> /\ at - 0 = at /\ 0 - 0 = 0
    BY SliceEmpty
  <2> QED BY <1>1, <2>1 DEF PrefixAt
<1>3. ASSUME at <= Len(text) PROVE SuffixAt(text, at, <<>>)
  <2>1. Least(Len(text) - at, 0) = 0 /\ at + 0 = at
    BY <1>1, <1>3 DEF Least
  <2>2. Slice(text, at, at) = <<>> /\ Slice(<<>>, 0, 0) = <<>>
    BY SliceEmpty
  <2> QED BY <1>1, <2>1, <2>2 DEF SuffixAt
<1> QED BY <1>2, <1>3

---------------------------------------------------------------------------
\* Relocation: the span between the surroundings.

\* What IsClear says of the span from start to end among the given bounds.
ClearAmong(text, u, starts, ends, start, end) ==
    LET from(s)  == {e \in ends : Fits(u, s, e)}
        score(e) == Score(Slice(text, start, e), u.referent)
        similar  == {e \in from(start) : Reaches(score(e))}
    IN /\ \A s \in starts : from(s) # {} => s = start
       /\ \/ \A e \in from(start) : end <= e
          \/ {e \in similar : \A f \in similar : ~Above(score(f), score(e))} = {end}

LEMMA BetweenIs ==
    ASSUME NEW text, NEW u \in Region, NEW starts, NEW ends, starts \subseteq Nat, ends \subseteq Nat,
           IsFiniteSet(starts), IsFiniteSet(ends),
           NEW o, o = Between(text, u, starts, ends), o.status = "unique"
    PROVE  /\ o.start \in starts /\ o.end \in ends /\ o.end > o.start
           /\ ClearAmong(text, u, starts, ends, o.start, o.end)
<1> DEFINE Nearest(s) == Min({e \in ends : e > s})
           bracketed == {s \in starts : (\E e \in ends : e > s) /\ Fits(u, s, Nearest(s))}
           start == CHOOSE s \in bracketed : TRUE
           score(e) == Score(Slice(text, start, e), u.referent)
           fitting == {e \in ends : Fits(u, start, e)}
           longer == {e \in ends : Fits(u, start, e)} \ {Nearest(start)}
           viable == {e \in longer : Reaches(score(e))}
           best == {e \in viable : \A f \in viable : ~Above(score(f), score(e))}
           similar == {e \in fitting : Reaches(score(e))}
           top == {e \in similar : \A f \in similar : ~Above(score(f), score(e))}
<1>1. o = IF bracketed = {} THEN Nowhere("none")
          ELSE IF Cardinality(bracketed) > 1 THEN Nowhere("ambiguous")
          ELSE IF longer = {} \/ Reaches(score(Nearest(start)))
          THEN At("unique", start, Nearest(start))
          ELSE IF Cardinality(best) = 1 THEN At("unique", start, CHOOSE e \in best : TRUE)
          ELSE Nowhere("ambiguous")
  BY Zenon DEF Between
<1>2. best \subseteq longer
  OBVIOUS
<1>3. longer = fitting \ {Nearest(start)} /\ \A e \in fitting : e \in ends /\ Fits(u, start, e)
  OBVIOUS
<1>4. bracketed # {} => start \in bracketed
  OBVIOUS
<1>5. ASSUME NEW s \in starts, \E e \in ends : e > s
      PROVE  Nearest(s) \in ends /\ Nearest(s) > s /\ \A e \in ends : e > s => Nearest(s) <= e
  <2>1. {e \in ends : e > s} # {} /\ {e \in ends : e > s} \subseteq Nat
    BY <1>5
  <2> QED BY <2>1, MinExists
<1>6. bracketed # {} => start \in starts /\ Nearest(start) \in ends /\ Fits(u, start, Nearest(start))
  BY <1>4, <1>5
<1>7. Cardinality(best) = 1 => best = {CHOOSE e \in best : TRUE}
  <2>1. best \subseteq ends
    OBVIOUS
  <2> HIDE DEF best
  <2>2. IsFiniteSet(best)
    BY <2>1, FS_Subset
  <2> QED BY <2>2, FS_Singleton
\* Where any end fits, the nearest does.
<1>8. ASSUME NEW s \in starts, NEW e \in ends, Fits(u, s, e) PROVE s \in bracketed
  <2>1. Most(MinSpan, 4 * Len(u.referent)) \in Nat
    BY BoundsAssumption DEF Most, Region, Text
  <2>2. e \in Nat /\ s \in Nat /\ e > s /\ e - s <= Most(MinSpan, 4 * Len(u.referent))
    BY <1>8 DEF Fits
  <2>3. Nearest(s) \in Nat /\ Nearest(s) > s /\ Nearest(s) <= e
    BY <1>5, <2>2
  <2> HIDE DEF Nearest
  <2>4. Fits(u, s, Nearest(s))
    BY <2>1, <2>2, <2>3 DEF Fits
  <2> QED BY <2>2, <2>4
<1>9. bracketed \subseteq starts
  OBVIOUS
<1>10. ~Reaches(score(Nearest(start))) => top = best
  <2>1. ~Reaches(score(Nearest(start))) => similar = viable
    OBVIOUS
  <2> HIDE DEF viable, similar
  <2> QED BY <2>1
<1>11. \A e \in fitting : e > start
  BY DEF Fits
<1>12. ASSUME bracketed # {}, ~(Cardinality(bracketed) > 1) PROVE bracketed = {start}
  <2> HIDE DEF start, bracketed
  <2>1. IsFiniteSet(bracketed)
    BY <1>9, FS_Subset
  <2>2. Cardinality(bracketed) \in Nat /\ Cardinality(bracketed) # 0
    BY <1>12, <2>1, FS_CardinalityType, FS_EmptySet
  <2>3. PICK x : bracketed = {x}
    <3>1. Cardinality(bracketed) = 1
      BY <1>12, <2>2
    <3> QED BY <2>1, <3>1, FS_Singleton
  <2> QED BY <1>4, <1>12, <2>3
<1>13. ASSUME NEW e, bracketed = {start}, e \in fitting,
             (\A f \in fitting : e <= f) \/ top = {e}
       PROVE ClearAmong(text, u, starts, ends, start, e)
  <2>1. \A s \in starts : {x \in ends : Fits(u, s, x)} # {} => s = start
    <3> HIDE DEF bracketed, start
    <3> QED BY <1>8, <1>13
  <2>2. \/ \A x \in {x \in ends : Fits(u, start, x)} : e <= x
        \/ top = {e}
    BY <1>13
  <2> QED BY <2>1, <2>2, Zenon DEF ClearAmong
<1>14. start \in starts => \A e \in fitting : Nearest(start) <= e
  <2>1. \A e \in fitting : e \in ends /\ e > start
    BY <1>3, <1>11
  <2> HIDE DEF Nearest, start, fitting
  <2> QED BY <1>5, <2>1
<1> HIDE DEF Nearest, bracketed, start, score, fitting, longer, viable, best, similar, top
<1>15. /\ bracketed # {} /\ ~(Cardinality(bracketed) > 1)
       /\ \/ o = At("unique", start, Nearest(start)) /\ (longer = {} \/ Reaches(score(Nearest(start))))
          \/ /\ ~Reaches(score(Nearest(start))) /\ Cardinality(best) = 1
             /\ o = At("unique", start, CHOOSE e \in best : TRUE)
  BY <1>1 DEF Nowhere, At
<1>16. bracketed = {start} /\ start \in starts /\ start \in Nat /\ Nearest(start) \in fitting
  BY <1>6, <1>9, <1>12, <1>15 DEF fitting
<1>17. ASSUME NEW e \in fitting, o = At("unique", start, e),
              (\A f \in fitting : e <= f) \/ top = {e}
       PROVE  /\ o.start \in starts /\ o.end \in ends /\ o.end > o.start
              /\ ClearAmong(text, u, starts, ends, o.start, o.end)
  <2>1. o.start = start /\ o.end = e
    BY <1>17 DEF At
  <2> QED BY <1>3, <1>11, <1>13, <1>16, <1>17, <2>1
<1>18. CASE o = At("unique", start, Nearest(start))
  BY <1>14, <1>16, <1>17, <1>18
<1>19. CASE /\ ~Reaches(score(Nearest(start))) /\ Cardinality(best) = 1
            /\ o = At("unique", start, CHOOSE e \in best : TRUE)
  <2>1. (CHOOSE e \in best : TRUE) \in fitting
    BY <1>2, <1>3, <1>7, <1>19
  <2>2. top = {CHOOSE e \in best : TRUE}
    BY <1>7, <1>10, <1>19
  <2> QED BY <1>17, <1>19, <2>1, <2>2
<1> QED BY <1>15, <1>18, <1>19

\* A span is in bounds and between the surroundings.
LEMMA SpanIs ==
    ASSUME NEW text \in Text, NEW u \in Region,
           NEW o, o = BracketSpan(text, u), o.status = "unique"
    PROVE  /\ o.start \in Nat /\ o.end \in Nat
           /\ InBounds(text, o.start, o.end) /\ Surrounded(text, u, o.start, o.end)
           /\ IsClear(u, text, o.start, o.end)
<1> DEFINE starts == {at + Len(u.prefix) : at \in Occurrences(text, u.prefix)}
           ends == Occurrences(text, u.suffix)
<1>1. u.prefix \in Text /\ u.suffix \in Text /\ Len(text) \in Nat
  BY DEF Region, Text
<1>2. ASSUME NEW s \in starts
      PROVE  s \in Nat /\ s <= Len(text) /\ PrefixAt(text, s, u.prefix)
  BY <1>1, OccurrenceIs, PrefixHolds
<1>3. ASSUME NEW e \in ends
      PROVE  e \in Nat /\ e <= Len(text) /\ SuffixAt(text, e, u.suffix)
  <2>1. e \in Nat /\ Len(u.suffix) \in Nat /\ e + Len(u.suffix) <= Len(text)
    BY <1>1, OccurrenceIs
  <2> QED BY <1>1, <2>1, SuffixHolds
<1>4. /\ IsFiniteSet(ends) /\ ends \subseteq Nat
      /\ IsFiniteSet(starts) /\ starts \subseteq Nat
  <2>1. IsFiniteSet(ends) /\ IsFiniteSet(Occurrences(text, u.prefix))
    BY <1>1, OccurrencesFinite
  <2>2. IsFiniteSet(starts)
    <3>1. starts \in SUBSET Nat /\ \A s \in starts : s <= Len(text)
      BY <1>2
    <3> HIDE DEF starts
    <3> QED BY <1>1, <3>1, FS_BoundedSetOfNaturals
  <2> QED BY <1>2, <1>3, <2>1, <2>2
<1>5. u.prefix = <<>> => PrefixAt(text, 0, u.prefix)
  BY NothingHolds
<1>6. u.suffix = <<>> => SuffixAt(text, Len(text), u.suffix)
  BY <1>1, NothingHolds
<1>7. ASSUME NEW s \in Nat, NEW e \in Nat, o.start = s, o.end = e, e > s, e <= Len(text),
             PrefixAt(text, s, u.prefix), SuffixAt(text, e, u.suffix), IsClear(u, text, s, e)
      PROVE  /\ o.start \in Nat /\ o.end \in Nat
             /\ InBounds(text, o.start, o.end) /\ Surrounded(text, u, o.start, o.end)
             /\ IsClear(u, text, o.start, o.end)
  BY <1>7 DEF InBounds, Surrounded
\* With one start and one end there is no other span.
<1>12. ASSUME NEW s \in Nat, NEW e \in Nat, StartsOf(u, text) = {s}, EndsOf(u, text) = {e}
       PROVE  IsClear(u, text, s, e)
  <2>1. \A x \in EndsFrom(u, text, s) : e <= x
    BY <1>12 DEF EndsFrom
  <2>2. \A x \in StartsOf(u, text) : x = s
    BY <1>12
  <2> QED BY <2>1, <2>2 DEF IsClear
<1>8. CASE u.prefix = <<>> /\ u.suffix = <<>>
  <2>1. o = IF Fits(u, 0, Len(text)) THEN At("unique", 0, Len(text)) ELSE Nowhere("none")
    BY <1>8 DEF BracketSpan
  <2>2. o.start = 0 /\ o.end = Len(text) /\ Len(text) > 0
    BY <2>1 DEF At, Nowhere, Fits
  <2>3. StartsOf(u, text) = {0} /\ EndsOf(u, text) = {Len(text)}
    BY <1>8 DEF StartsOf, EndsOf
  <2> QED BY <1>1, <1>5, <1>6, <1>7, <1>8, <1>12, <2>2, <2>3
<1>9. CASE u.prefix = <<>> /\ u.suffix # <<>>
  <2>1. o = IF Cardinality(ends) = 1
            THEN IF Fits(u, 0, Min(ends)) THEN At("unique", 0, Min(ends)) ELSE Nowhere("none")
            ELSE Nowhere(IF ends = {} THEN "none" ELSE "ambiguous")
    BY <1>9 DEF BracketSpan
  <2>2. Cardinality(ends) = 1 /\ o.start = 0 /\ o.end = Min(ends) /\ Min(ends) > 0
    BY <2>1 DEF At, Nowhere, Fits
  <2>3. Min(ends) \in ends /\ ends = {Min(ends)}
    BY <1>4, <2>2, OnlyOne
  <2>4. StartsOf(u, text) = {0} /\ EndsOf(u, text) = {Min(ends)}
    BY <1>9, <2>3 DEF StartsOf, EndsOf
  <2> QED BY <1>3, <1>5, <1>7, <1>9, <1>12, <2>2, <2>3, <2>4
<1>10. CASE u.prefix # <<>> /\ u.suffix = <<>>
  <2>1. o = IF Cardinality(starts) = 1
            THEN IF Fits(u, Min(starts), Len(text)) THEN At("unique", Min(starts), Len(text))
                 ELSE Nowhere("none")
            ELSE Nowhere(IF starts = {} THEN "none" ELSE "ambiguous")
    BY <1>10 DEF BracketSpan
  <2>4. StartsOf(u, text) = starts /\ EndsOf(u, text) = {Len(text)}
    BY <1>10 DEF StartsOf, EndsOf
  <2> HIDE DEF starts
  <2>2. /\ Cardinality(starts) = 1 /\ o.start = Min(starts) /\ o.end = Len(text)
        /\ Len(text) > Min(starts)
    BY <2>1 DEF At, Nowhere, Fits
  <2>3. Min(starts) \in starts /\ starts = {Min(starts)}
    BY <1>4, <2>2, OnlyOne
  <2> QED BY <1>1, <1>2, <1>6, <1>7, <1>10, <1>12, <2>2, <2>3, <2>4
<1>11. CASE u.prefix # <<>> /\ u.suffix # <<>>
  <2>1. o = Between(text, u, starts, ends)
    BY <1>11 DEF BracketSpan
  <2>3. StartsOf(u, text) = starts /\ EndsOf(u, text) = ends
    BY <1>11 DEF StartsOf, EndsOf
  <2> HIDE DEF starts, ends
  <2>2. /\ o.start \in starts /\ o.end \in ends /\ o.end > o.start
        /\ ClearAmong(text, u, starts, ends, o.start, o.end)
    BY <1>4, <2>1, BetweenIs
  <2>4. IsClear(u, text, o.start, o.end)
    BY <2>2, <2>3, Zenon DEF ClearAmong, IsClear, EndsFrom, MostSimilar
  <2> QED BY <1>2, <1>3, <1>7, <2>2, <2>4
<1> QED BY <1>8, <1>9, <1>10, <1>11

---------------------------------------------------------------------------
\* Relocation: each way of finding a region finds the region.

\* The referent at some place, taken for the region's; when the region is
\* relocated there with no parent to go by, no other place has the surroundings.
LEMMA ReferentIsRegion ==
    ASSUME NEW text \in Text, NEW u \in Region, NEW a \in Nat, NEW b \in Nat,
           IsReferent(text, u, a, b), NEW status \in {"stable", "relocated"},
           status = "relocated" /\ Follows(u, text, parsed) = {} =>
               \A at \in Occurrences(text, u.referent) :
                   Surrounded(text, u, at, at + Len(u.referent)) => at = a
    PROVE  IsTheRegion(u, text, At(status, a, b))
<1> DEFINE o == At(status, a, b)
           all == Occurrences(text, u.referent)
<1>1. o.status = status /\ o.start = a /\ o.end = b
  BY DEF At
<1>2. a \in all
  BY ReferentOccurs
<1>3. Cardinality(all) = 1 => all = {a}
  <2>1. u.referent \in Text
    BY DEF Region
  <2> HIDE DEF all
  <2> SUFFICES ASSUME Cardinality(all) = 1 PROVE all = {a}
    OBVIOUS
  <2>2. all = {Min(all)}
    BY <2>1, OccurrencesFinite, OnlyOne DEF all
  <2> QED BY <1>2, <2>2
<1> HIDE DEF o
<1> QED BY <1>1, <1>3 DEF IsTheRegion, IsReferent, o

LEMMA StaysIsRegion ==
    ASSUME NEW text \in Text, NEW u \in Region, Stays(u, text, parsed)
    PROVE  IsTheRegion(u, text, At("stable", u.start, u.end))
BY ReferentIsRegion DEF Stays, Region

LEMMA FollowsIsRegion ==
    ASSUME NEW text \in Text, NEW u \in Region, parsed \in Parse,
           NEW p \in Follows(u, text, parsed)
    PROVE  IsTheRegion(u, text, At("relocated", p.start + u.relStart, p.start + u.relEnd))
<1>1. /\ p.start \in Nat /\ u.relStart \in Nat /\ u.relEnd \in Nat
      /\ IsReferent(text, u, p.start + u.relStart, p.start + u.relEnd)
  BY DEF Follows, Parse, Region
<1> QED BY <1>1, ReferentIsRegion

\* Something similar between the surroundings, when the referent is not there
\* alone or the old place looks right.
LEMMA SimilarIsRegion ==
    ASSUME NEW text, NEW u, NEW a \in Nat, NEW b \in Nat,
           InBounds(text, a, b), Surrounded(text, u, a, b), SameParent(u, parsed, a, b),
           Similar(Slice(text, a, b), u.referent),
           \/ InPlace(u, text, parsed)
           \/ Cardinality(Occurrences(text, u.referent)) # 1 /\ IsClear(u, text, a, b)
    PROVE  IsTheRegion(u, text, At("updated", a, b))
<1> DEFINE o == At("updated", a, b)
<1>1. o.status = "updated" /\ o.start = a /\ o.end = b
  BY DEF At
<1> HIDE DEF o
<1> QED BY <1>1 DEF IsTheRegion, o

\* Nothing found.
LEMMA NothingIsRegion ==
    ASSUME NEW text, NEW u, NEW status \in {"ambiguous", "invalidated"},
           InPlace(u, text, parsed) \/ Cardinality(Occurrences(text, u.referent)) # 1
    PROVE  IsTheRegion(u, text, Nowhere(status))
<1> DEFINE o == Nowhere(status)
<1>1. o.status = status /\ o.start = None /\ o.end = None
  BY DEF At, Nowhere
<1> HIDE DEF o
<1> QED BY <1>1 DEF IsTheRegion, o

LEMMA SearchIsRegion ==
    ASSUME NEW text \in Text, NEW u \in Region
    PROVE  IsTheRegion(u, text, Search(u, text, parsed))
<1> DEFINE all == Occurrences(text, u.referent)
           found == Anchored(u, text)
           span == BracketSpan(text, u)
<1>1. u.referent \in Text
  BY DEF Region
<1>2. IsFiniteSet(all) /\ all \subseteq Nat
  BY <1>1, OccurrencesFinite
<1>3. found \subseteq all /\ (Cardinality(all) = 1 => found = all)
  BY DEF Anchored
<1>4. IsFiniteSet(found) /\ found \subseteq Nat
  <2> HIDE DEF found, all
  <2> QED BY <1>2, <1>3, FS_Subset
<1>5. CASE Cardinality(found) = 1
  <2> DEFINE at == Min(found)
             to == at + Len(u.referent)
  <2>1. found = {at} /\ at \in Nat
    <3> HIDE DEF found
    <3> QED BY <1>4, <1>5, OnlyOne
  <2>2. at \in all
    BY <1>3, <2>1
  <2>3. IsReferent(text, u, at, to) /\ to \in Nat
    BY <1>1, <2>2, OccurrenceIs DEF IsReferent, InBounds
  <2>4. \A x \in all : Surrounded(text, u, x, x + Len(u.referent)) => x = at
    BY <1>3, <2>1 DEF Anchored
  <2>5. Search(u, text, parsed) = At("relocated", at, to)
    BY <1>5 DEF Search
  <2> HIDE DEF at, to
  <2> QED BY <2>1, <2>3, <2>4, <2>5, ReferentIsRegion
<1>6. CASE Cardinality(found) # 1
  <2>1. Cardinality(all) # 1
    BY <1>3, <1>6
  <2>2. CASE /\ span.status = "unique" /\ SameParent(u, parsed, span.start, span.end)
             /\ Similar(Slice(text, span.start, span.end), u.referent)
    <3>1. Search(u, text, parsed) = At("updated", span.start, span.end)
      BY <1>6, <2>2 DEF Search
    <3>2. /\ InBounds(text, span.start, span.end) /\ Surrounded(text, u, span.start, span.end)
          /\ IsClear(u, text, span.start, span.end)
          /\ span.start \in Nat /\ span.end \in Nat
      BY <2>2, SpanIs
    <3> HIDE DEF span
    <3> QED BY <2>1, <2>2, <3>1, <3>2, SimilarIsRegion
  <2>3. CASE ~(/\ span.status = "unique" /\ SameParent(u, parsed, span.start, span.end)
               /\ Similar(Slice(text, span.start, span.end), u.referent))
    <3>1. \E status \in {"ambiguous", "invalidated"} : Search(u, text, parsed) = Nowhere(status)
      BY <1>6, <2>3 DEF Search
    <3> QED BY <2>1, <3>1, NothingIsRegion
  <2> QED BY <2>2, <2>3
<1> QED BY <1>5, <1>6

\* For every text, region and parse.
LEMMA FoundIsRegion ==
    ASSUME NEW text \in Text, NEW u \in Region, parsed \in Parse
    PROVE  IsTheRegion(u, text, RelocateRegion(u, text, parsed))
<1>1. CASE Stays(u, text, parsed)
  BY <1>1, StaysIsRegion DEF RelocateRegion
<1>2. CASE ~Stays(u, text, parsed) /\ Follows(u, text, parsed) # {}
  <2> DEFINE p == CHOOSE x \in Follows(u, text, parsed) : TRUE
  <2>1. p \in Follows(u, text, parsed)
    BY <1>2
  <2>2. RelocateRegion(u, text, parsed)
           = At("relocated", p.start + u.relStart, p.start + u.relEnd)
    BY <1>2 DEF RelocateRegion
  <2> QED BY <2>1, <2>2, FollowsIsRegion
<1>3. CASE /\ ~Stays(u, text, parsed) /\ Follows(u, text, parsed) = {}
           /\ InPlace(u, text, parsed)
  <2>1. CASE Similar(Slice(text, u.start, u.end), u.referent)
    <3>1. RelocateRegion(u, text, parsed) = At("updated", u.start, u.end)
      BY <1>3, <2>1 DEF RelocateRegion
    <3> QED BY <1>3, <2>1, <3>1, SimilarIsRegion DEF InPlace, Region
  <2>2. CASE ~Similar(Slice(text, u.start, u.end), u.referent)
    BY <1>3, <2>2, NothingIsRegion DEF RelocateRegion
  <2> QED BY <2>1, <2>2
<1>4. CASE /\ ~Stays(u, text, parsed) /\ Follows(u, text, parsed) = {}
           /\ ~InPlace(u, text, parsed)
  BY <1>4, SearchIsRegion DEF RelocateRegion
<1> QED BY <1>1, <1>2, <1>3, <1>4

\* Stored again, a region is stable where it was found, stored the same, and its
\* count and parent are those of the text.
LEMMA RefreshedStays ==
    ASSUME NEW text \in Text, NEW u \in Region, parsed \in Parse,
           NEW a \in Nat, NEW b \in Nat, InBounds(text, a, b)
    PROVE  LET v == Refreshed(u, text, a, b)
           IN /\ RelocateRegion(v, text, parsed) = At("stable", a, b)
              /\ Refreshed(v, text, a, b) = v
              /\ IsStored(v, text)
<1> DEFINE parent == IF parsed.ok THEN Enclosing(parsed.units, a, b) ELSE None
           from == IF parent = None THEN 0
                   ELSE (CHOOSE p \in parsed.units : p.selector = parent).start
           referent == Slice(text, a, b)
           count == Cardinality(Occurrences(text, referent))
           relStart == IF parent = None THEN None ELSE a - from
           relEnd == IF parent = None THEN None ELSE b - from
           Stored(w) == [w EXCEPT !.start = a, !.end = b, !.source = text, !.referent = referent,
                                  !.occurrences = count, !.parent = parent,
                                  !.relStart = relStart, !.relEnd = relEnd]
           v == Stored(u)
<1>1. \A w : Refreshed(w, text, a, b) = Stored(w)
  BY Zenon DEF Refreshed
<1>2. referent \in Text /\ referent # <<>>
  <2>1. a <= b /\ b <= Len(text) /\ b - a # 0
    BY DEF InBounds
  <2>2. referent \in Text /\ Len(referent) # 0
    BY <2>1, SliceType
  <2> HIDE DEF referent
  <2> QED BY <2>2
<1>3. IsFiniteSet(Occurrences(text, referent)) /\ count \in Nat
  BY <1>2, OccurrencesFinite, FS_CardinalityType
<1>4. a \in Occurrences(text, referent)
  BY SliceOccurs
<1> HIDE DEF referent
<1>5. count = 1 => \A at \in Occurrences(text, referent) : at = a
  BY <1>3, <1>4, FS_Singleton
<1> HIDE DEF count
<1>6. parsed.ok => Enclosing(parsed.units, a, b) = parent
  OBVIOUS
<1>7. ASSUME NEW p \in parsed.units, p.selector = parent
      PROVE  p.start + relStart = a /\ p.start + relEnd = b
  <2>1. p.selector \in Nat /\ p.start \in Nat /\ \A w \in parsed.units : w.selector = p.selector => w = p
    BY DEF Parse
  <2>2. parent # None
    BY <1>7, <2>1, NoneAssumption
  <2>3. (CHOOSE w \in parsed.units : w.selector = parent) = p
    <3> HIDE DEF parent
    <3> QED BY <1>7, <2>1
  <2>4. relStart = a - p.start /\ relEnd = b - p.start
    <3> HIDE DEF parent
    <3> QED BY <2>2, <2>3
  <2> HIDE DEF relStart, relEnd
  <2> QED BY <2>1, <2>4
<1> HIDE DEF parent, from, relStart, relEnd
<1>8. /\ v.start = a /\ v.end = b /\ v.source = text /\ v.referent = referent
      /\ v.occurrences = count /\ v.parent = parent /\ v.relStart = relStart /\ v.relEnd = relEnd
      /\ Stored(v) = v
  BY DEF Region
<1> HIDE DEF Stored
<1>9. Stays(v, text, parsed)
  BY <1>8 DEF Stays, IsReferent, referent
<1>10. IsStored(v, text)
  <2>1. \A t \in OtherText : Stays(v, t, parsed) => t = text \/ \A at \in Occurrences(text, v.referent) : at = v.start
    <3>1. count # None
      BY <1>3, NoneAssumption
    <3> QED BY <1>5, <1>8, <3>1 DEF Stays
  <2>2. SameParent(v, parsed, v.start, v.end)
    BY <1>6, <1>8 DEF SameParent
  <2> QED BY <1>7, <1>8, <2>1, <2>2 DEF IsStored
<1> QED BY <1>1, <1>8, <1>9, <1>10 DEF RelocateRegion

\* Whatever has become of a file, what is shown for a region is the region, in its
\* old place or clear of every other span, and what is stored of it serves the next
\* look, at this text or another (relocate.mjs 57-149, session.mjs 105-133).
THEOREM RegionsAreSure == Spec => RegionIsSure
<1>1. IInv /\ [Next]_vars =>
         [pc = "locate" =>
            /\ IsTheRegion(unit, bytes, outcome')
            /\ outcome'.start # None =>
                  /\ RelocateRegion(unit', bytes, parsed)
                        = At("stable", outcome'.start, outcome'.end)
                  /\ Refreshed(unit', bytes, outcome'.start, outcome'.end) = unit'
                  /\ IsStored(unit', bytes)]_pc
  <2> SUFFICES ASSUME IInv, [Next]_vars, pc = "locate", pc' # pc
               PROVE  /\ IsTheRegion(unit, bytes, outcome')
                      /\ outcome'.start # None =>
                            /\ RelocateRegion(unit', bytes, parsed)
                                  = At("stable", outcome'.start, outcome'.end)
                            /\ Refreshed(unit', bytes, outcome'.start, outcome'.end) = unit'
                            /\ IsStored(unit', bytes)
    OBVIOUS
  <2>1. bytes \in Text /\ unit \in Region /\ parsed \in Parse
    BY DEF IInv, Types
  <2>2. Locate
    BY DEF Next, Others, Lstat, Stat, Open, Read, After, Compare, WriteInPlace, Replace, Remove,
           Tick, Changes, Reading, vars
  <2>3. outcome' = RelocateRegion(unit, bytes, parsed)
    BY <2>2 DEF Locate
  <2>4. IsTheRegion(unit, bytes, outcome')
    BY <2>1, <2>3, FoundIsRegion
  <2>5. ASSUME outcome'.start # None
        PROVE  /\ outcome'.start \in Nat /\ outcome'.end \in Nat
               /\ InBounds(bytes, outcome'.start, outcome'.end)
               /\ unit' = Refreshed(unit, bytes, outcome'.start, outcome'.end)
    BY <2>2, <2>4, <2>5 DEF Locate, IsTheRegion
  <2> QED BY <2>1, <2>4, <2>5, RefreshedStays
<1> QED BY <1>1, AlwaysIInv, PTL DEF Spec, RegionIsSure

====
