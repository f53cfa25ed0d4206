-------------------------- MODULE ModelImportProofs --------------------------
(***************************************************************************)
(* Proofs about ModelImport, for any importers, any GGUFs and any number   *)
(* of changes of the source and power losses.  The inductive invariant is  *)
(* IInv: what an importer has copied lies between the digest it took and   *)
(* what the source now holds (a source never gets an old content back), so *)
(* that an unchanged digest leaves one GGUF; with locking writers the      *)
(* content stays what was parsed; and nothing is unsynced when a package   *)
(* is renamed into place.                                                  *)
(***************************************************************************)
EXTENDS ModelImport, TLAPS

Opening == [at : {"lock", "parse"}, inode : Nat, size : Versions]
Hashing == [at : {"hash"}, inode : Nat, size : Versions, directory : Versions]
Writing ==
    [at : {"write", "sync", "rehash", "manifest", "directory", "publish", "parent"},
     inode : Nat, size : Versions, directory : Versions, digest : Versions,
     copied : Seq(Versions), unsynced : SUBSET Int]
Progress == {Start, Done} \cup Opening \cup Hashing \cup Writing

Published ==
    [directory : Versions, size : Versions, digest : Versions, copied : Seq(Versions),
     unsynced : SUBSET Int, lost : SUBSET Int, durable : BOOLEAN, by : Importers]

TypeOK ==
    /\ inodes \in Seq(Versions) /\ Len(inodes) > 0
    /\ DOMAIN importer = Importers
    /\ \A p \in Importers : importer[p] \in Progress
    /\ output = None \/ output \in Published

\* The descriptor of an importer is of an inode that the path had.
HasInode(r, contents) == r.inode \in 1..Len(contents)

\* The GGUFs copied, all of them the one whose digest was taken.
AllOf(copied, digest) == copied # <<>> /\ \A i \in 1..Len(copied) : copied[i] = digest

\* What is not synced yet at each step.
Unsynced(r) ==
    CASE r.at = "sync" -> {Entries, Len(r.copied)}
      [] r.at \in {"publish", "parent"} -> {}
      [] OTHER -> {Entries}

\* What holds of an importer with a digest, when the inodes have these contents.
SoundWriting(r, contents, lock, out) ==
    /\ HasInode(r, contents)
    /\ r.unsynced = Unsynced(r)
    /\ r.digest <= contents[r.inode]
    /\ \A i \in 1..Len(r.copied) : r.digest <= r.copied[i] /\ r.copied[i] <= contents[r.inode]
    /\ lock => r.directory = r.digest /\ r.digest = contents[r.inode]
    /\ r.at \in {"sync", "rehash"} => r.copied # <<>>
    /\ r.at \in {"manifest", "directory", "publish"} => AllOf(r.copied, r.digest)
    /\ r.at = "parent" => out # None

Sound(r, contents, lock, out) ==
    /\ r \in Opening => HasInode(r, contents)
    /\ r \in Hashing => /\ HasInode(r, contents)
                        /\ lock => r.directory = contents[r.inode]
    /\ r \in Writing => SoundWriting(r, contents, lock, out)

SoundOutput ==
    output # None =>
        /\ AllOf(output.copied, output.digest)
        /\ output.unsynced = {} /\ output.lost = {}
        /\ locking => output.directory = output.digest

IInv ==
    /\ TypeOK
    /\ locking \in BOOLEAN
    /\ \A p \in Importers : Sound(importer[p], inodes, locking, output)
    /\ SoundOutput
-----------------------------------------------------------------------------
\* The step that an importer is at says which record it is.
LEMMA ProgressKinds ==
    ASSUME NEW r \in Progress
    PROVE  /\ r.at \in {"lock", "parse"} => r \in Opening
           /\ r.at = "hash" => r \in Hashing
           /\ r.at \in {"write", "sync", "rehash", "manifest", "directory", "publish", "parent"}
                => r \in Writing
<1>1. CASE r = Start \/ r = Done BY <1>1 DEF Start, Done
<1>2. CASE r \in Opening
  <2>1. r.at \in {"lock", "parse"} BY <1>2, Zenon DEF Opening
  <2> QED BY <1>2, <2>1, Zenon
<1>3. CASE r \in Hashing
  <2>1. r.at = "hash" BY <1>3, Zenon DEF Hashing
  <2> QED BY <1>3, <2>1, Zenon
<1>4. CASE r \in Writing
  <2>1. r.at \in {"write", "sync", "rehash", "manifest", "directory", "publish", "parent"}
    BY <1>4, Zenon DEF Writing
  <2> QED BY <1>4, <2>1, Zenon
<1> QED BY <1>1, <1>2, <1>3, <1>4, Zenon DEF Progress

\* An importer that has not opened the source, or is done, claims nothing.
LEMMA Resting ==
    ASSUME NEW contents, NEW lock, NEW out
    PROVE  Sound(Start, contents, lock, out) /\ Sound(Done, contents, lock, out)
BY Zenon DEF Sound, Start, Done, Opening, Hashing, Writing

\* A record with a digest is of no other kind.
LEMMA WritingIsSound ==
    ASSUME NEW r \in Writing, NEW contents, NEW lock, NEW out, SoundWriting(r, contents, lock, out)
    PROVE  r \in Progress /\ Sound(r, contents, lock, out)
<1>1. r \in Progress BY Zenon DEF Progress
<1>2. r \notin Opening /\ r \notin Hashing BY Zenon DEF Opening, Hashing, Writing
<1> QED BY <1>1, <1>2, Zenon DEF Sound

\* The output matters to an importer only by being there.
LEMMA OutputKept ==
    ASSUME NEW r, NEW contents, NEW lock, NEW out, NEW next,
           Sound(r, contents, lock, out), next = out \/ next # None
    PROVE  Sound(r, contents, lock, next)
BY Zenon DEF Sound, SoundWriting

\* The step of one importer: what it becomes must be sound, and so must the output.
LEMMA ImporterStep ==
    ASSUME IInv, NEW p \in Importers, NEW r \in Progress,
           Goes(p, r), UNCHANGED <<locking, inodes>>,
           output' = output \/ (output' # None /\ output' \in Published),
           SoundOutput', Sound(r, inodes, locking, output')
    PROVE  IInv'
<1>1. TypeOK'
  <2>1. \A q \in Importers : importer'[q] \in Progress
    BY Zenon DEF Goes, IInv, TypeOK
  <2> QED BY <2>1, Zenon DEF Goes, IInv, TypeOK
<1>2. ASSUME NEW q \in Importers PROVE Sound(importer'[q], inodes, locking, output')
  <2>1. CASE q = p
    BY <2>1, Zenon DEF Goes, IInv, TypeOK
  <2>2. CASE q # p
    <3>1. importer'[q] = importer[q] BY <2>2, Zenon DEF Goes, IInv, TypeOK
    <3>2. Sound(importer[q], inodes, locking, output) BY Zenon DEF IInv
    <3> QED BY <3>1, <3>2, OutputKept, Zenon
  <2> QED BY <2>1, <2>2, Zenon
<1> QED BY <1>1, <1>2, Zenon DEF IInv

\* An importer that gives up, or is killed.
LEMMA ThrowsSound ==
    ASSUME IInv, NEW p \in Importers, Throws(p) \/ (Goes(p, Done) /\ output' = output),
           UNCHANGED <<locking, inodes>>
    PROVE  IInv'
<1>1. Done \in Progress BY Zenon DEF Progress
<1>2. Sound(Done, inodes, locking, output') BY Resting, Zenon
<1>3. Goes(p, Done) /\ output' = output BY Zenon DEF Throws
<1>4. SoundOutput' BY <1>3, Zenon DEF IInv, SoundOutput
<1> HIDE DEF Done
<1> QED BY <1>1, <1>2, <1>3, <1>4, ImporterStep, Zenon

\* Opening and locking.
LEMMA OpeningSound ==
    ASSUME IInv, NEW p \in Importers, SourceFile(p) \/ LockSource(p)
    PROVE  IInv'
<1>0. UNCHANGED <<locking, inodes>> BY Zenon DEF SourceFile, LockSource, At
<1>1. CASE SourceFile(p) /\ output # None
  BY <1>0, <1>1, ThrowsSound, Zenon DEF SourceFile
<1>2. CASE SourceFile(p) /\ output = None
  <2> DEFINE r == [at |-> "lock", inode |-> Len(inodes), size |-> inodes[Len(inodes)]]
  <2>1. Goes(p, r) /\ output' = output BY <1>2, Zenon DEF SourceFile
  <2>2. Len(inodes) \in Nat /\ inodes[Len(inodes)] \in Versions /\ Len(inodes) \in 1..Len(inodes)
    BY DEF IInv, TypeOK
  <2>3. r \in Opening /\ r \in Progress BY <2>2, Zenon DEF Opening, Progress
  <2>4. Sound(r, inodes, locking, output')
    BY <2>2, <2>3, Zenon DEF Sound, Hashing, Writing, HasInode
  <2>5. SoundOutput' BY <2>1, <1>0, Zenon DEF IInv, SoundOutput
  <2> HIDE DEF r
  <2> QED BY <1>0, <2>1, <2>3, <2>4, <2>5, ImporterStep, Zenon
<1>3. CASE LockSource(p)
  <2> DEFINE r == [importer[p] EXCEPT !.at = "parse"]
  <2>1. Goes(p, r) /\ output' = output /\ importer[p].at = "lock" BY <1>3, Zenon
                                                                     DEF LockSource, At, Step
  <2>2. importer[p] \in Opening
    <3>1. importer[p] \in Progress BY Zenon DEF IInv, TypeOK
    <3> QED BY <2>1, <3>1, ProgressKinds, Zenon
  <2>3. r \in Opening /\ r.inode = importer[p].inode /\ r \in Progress
    BY <2>2, Zenon DEF Opening, Progress
  <2>4. HasInode(importer[p], inodes) BY <2>2, Zenon DEF IInv, Sound
  <2>5. Sound(r, inodes, locking, output')
    BY <2>3, <2>4, Zenon DEF Sound, Opening, Hashing, Writing, HasInode
  <2>6. SoundOutput' BY <2>1, <1>0, Zenon DEF IInv, SoundOutput
  <2> HIDE DEF r
  <2> QED BY <1>0, <2>1, <2>3, <2>5, <2>6, ImporterStep, Zenon
<1> QED BY <1>1, <1>2, <1>3, Zenon
\* Parsing the directory.
LEMMA ParsingSound ==
    ASSUME IInv, NEW p \in Importers, ParseSource(p)
    PROVE  IInv'
<1>0. UNCHANGED <<locking, inodes>> /\ importer[p].at = "parse" BY Zenon DEF ParseSource, At
<1>1. CASE Throws(p)
  BY <1>0, <1>1, ThrowsSound, Zenon
<1>2. CASE ~Throws(p)
  <2> DEFINE r == [at |-> "hash", inode |-> importer[p].inode, size |-> importer[p].size,
                   directory |-> inodes[importer[p].inode]]
  <2>1. Goes(p, r) /\ output' = output BY <1>2, Zenon DEF ParseSource, Held
  <2>2. importer[p] \in Opening
    <3>1. importer[p] \in Progress BY Zenon DEF IInv, TypeOK
    <3> QED BY <1>0, <3>1, ProgressKinds, Zenon
  <2>3. HasInode(importer[p], inodes) BY <2>2, Zenon DEF IInv, Sound
  <2>4. inodes[importer[p].inode] \in Versions BY <2>3 DEF HasInode, IInv, TypeOK
  <2>5. r \in Hashing /\ r \in Progress BY <2>2, <2>4, Zenon DEF Opening, Hashing, Progress
  <2>6. Sound(r, inodes, locking, output')
    BY <2>3, <2>5, Zenon DEF Sound, Opening, Writing, HasInode
  <2>7. SoundOutput' BY <2>1, <1>0, Zenon DEF IInv, SoundOutput
  <2> HIDE DEF r
  <2> QED BY <1>0, <2>1, <2>5, <2>6, <2>7, ImporterStep, Zenon
<1> QED BY <1>1, <1>2, Zenon

\* Taking the digest and creating the staging directory.
LEMMA CreatingSound ==
    ASSUME IInv, NEW p \in Importers, CreateStaging(p)
    PROVE  IInv'
<1>0. UNCHANGED <<locking, inodes>> /\ importer[p].at = "hash" BY Zenon DEF CreateStaging, At
<1>1. CASE Throws(p)
  BY <1>0, <1>1, ThrowsSound, Zenon
<1>2. CASE ~Throws(p)
  <2> DEFINE r == [at |-> "write", inode |-> importer[p].inode, size |-> importer[p].size,
                   directory |-> importer[p].directory, digest |-> inodes[importer[p].inode],
                   copied |-> <<>>, unsynced |-> {Entries}]
  <2>1. Goes(p, r) /\ output' = output BY <1>2, Zenon DEF CreateStaging, hash_stream, Held
  <2>2. importer[p] \in Hashing
    <3>1. importer[p] \in Progress BY Zenon DEF IInv, TypeOK
    <3> QED BY <1>0, <3>1, ProgressKinds, Zenon
  <2>3. HasInode(importer[p], inodes)
        /\ (locking => importer[p].directory = inodes[importer[p].inode])
    BY <2>2, Zenon DEF IInv, Sound
  <2>4. inodes[importer[p].inode] \in Versions /\ inodes[importer[p].inode] \in Nat
    BY <2>3, ImportAssumption DEF HasInode, IInv, TypeOK, Versions
  <2>5. r \in Writing BY <2>2, <2>4 DEF Hashing, Writing, Entries
  <2>6. r.at = "write" /\ r.inode = importer[p].inode /\ r.directory = importer[p].directory
        /\ r.digest = inodes[importer[p].inode] /\ r.copied = <<>> /\ r.unsynced = {Entries}
    BY Zenon
  <2>9. SoundOutput' BY <2>1, <1>0, Zenon DEF IInv, SoundOutput
  <2> HIDE DEF r
  <2>7. Unsynced(r) = {Entries} BY <2>6, Zenon DEF Unsynced
  <2>8. SoundWriting(r, inodes, locking, output')
    BY <2>3, <2>4, <2>6, <2>7 DEF SoundWriting, HasInode
  <2> QED BY <1>0, <2>1, <2>5, <2>8, <2>9, WritingIsSound, ImporterStep, Zenon
<1> QED BY <1>1, <1>2, Zenon

\* An importer with a digest.
LEMMA WritingNow ==
    ASSUME IInv, NEW p \in Importers,
           importer[p].at \in {"write", "sync", "rehash", "manifest", "directory", "publish", "parent"}
    PROVE  /\ importer[p] \in Writing
           /\ SoundWriting(importer[p], inodes, locking, output)
           /\ inodes[importer[p].inode] \in Versions
           /\ \A v \in Versions : v \in Nat
<1>1. importer[p] \in Progress BY Zenon DEF IInv, TypeOK
<1>2. importer[p] \in Writing BY <1>1, ProgressKinds, Zenon
<1>3. SoundWriting(importer[p], inodes, locking, output) BY <1>2, Zenon DEF IInv, Sound
<1>4. inodes[importer[p].inode] \in Versions BY <1>3 DEF SoundWriting, HasInode, IInv, TypeOK
<1> QED BY <1>2, <1>3, <1>4, ImportAssumption, Zenon DEF Versions

\* An importer that moves on with what it has copied.
LEMMA Carried ==
    ASSUME NEW w, NEW r, NEW contents, NEW lock, NEW out, NEW next,
           SoundWriting(w, contents, lock, out),
           r.copied = w.copied, r.inode = w.inode, r.directory = w.directory, r.digest = w.digest,
           r.unsynced = Unsynced(r),
           r.at \in {"sync", "rehash"} => w.copied # <<>>,
           r.at \in {"manifest", "directory", "publish"} => AllOf(w.copied, w.digest),
           r.at = "parent" => next # None
    PROVE  SoundWriting(r, contents, lock, next)
<1>1. HasInode(r, contents) BY Zenon DEF SoundWriting, HasInode
<1>2. \A i \in 1..Len(r.copied) : r.digest <= r.copied[i] /\ r.copied[i] <= contents[r.inode]
  BY Zenon DEF SoundWriting
<1> QED BY <1>1, <1>2, Zenon DEF SoundWriting

\* Copying a file.
LEMMA WritesSound ==
    ASSUME IInv, NEW p \in Importers, WriteSegment(p)
    PROVE  IInv'
<1>0. UNCHANGED <<locking, inodes>> /\ importer[p].at = "write" BY Zenon DEF WriteSegment, At
<1>1. CASE Throws(p)
  BY <1>0, <1>1, ThrowsSound, Zenon
<1>2. CASE ~Throws(p)
  <2> DEFINE w == importer[p]
             now == inodes[w.inode]
             c == Append(w.copied, now)
             u == w.unsynced \cup {Len(w.copied) + 1}
             r == [w EXCEPT !.at = "sync", !.copied = c, !.unsynced = u]
  <2>1. Goes(p, r) /\ output' = output BY <1>2, Zenon DEF WriteSegment, Held
  <2>2. w \in Writing /\ SoundWriting(w, inodes, locking, output) /\ now \in Versions
        /\ \A v \in Versions : v \in Nat
    BY <1>0, WritingNow, Zenon
  <2>3. w.copied \in Seq(Versions) /\ w.unsynced \in SUBSET Int /\ w.digest \in Versions
    BY <2>2, Zenon DEF Writing
  <2>4. c \in Seq(Versions) /\ Len(c) = Len(w.copied) + 1 /\ c # <<>>
        /\ \A i \in 1..Len(c) : c[i] = IF i = Len(c) THEN now ELSE w.copied[i]
    BY <2>2, <2>3
  <2>5. u \in SUBSET Int BY <2>3
  <2>6. w.unsynced = {Entries} BY <1>0, <2>2, Zenon DEF SoundWriting, Unsynced
  <2>7. u = {Entries, Len(c)} BY <2>4, <2>6, Zenon
  <2>8. w.digest <= now /\ \A i \in 1..Len(w.copied) : w.digest <= w.copied[i] /\ w.copied[i] <= now
    BY <2>2, Zenon DEF SoundWriting
  <2> HIDE DEF c, u
  <2>9. r \in Writing /\ r.at = "sync" /\ r.copied = c /\ r.unsynced = u /\ r.inode = w.inode
        /\ r.directory = w.directory /\ r.digest = w.digest
    <3>1. r = [w EXCEPT !.at = "sync", !.copied = c, !.unsynced = u] BY Zenon
    <3> HIDE DEF r, w
    <3> QED BY <2>2, <2>4, <2>5, <3>1, Zenon DEF Writing
  <2> HIDE DEF r
  <2>10. ASSUME NEW i \in 1..Len(c) PROVE w.digest <= c[i] /\ c[i] <= now
    <3>1. CASE i = Len(c)
      <4>1. c[i] = now BY <2>4, <3>1, Zenon
      <4>2. now <= now BY <2>2
      <4> QED BY <2>8, <4>1, <4>2, Zenon
    <3>2. CASE i # Len(c)
      <4>1. i \in 1..Len(w.copied) BY <2>3, <2>4, <3>2
      <4> QED BY <2>4, <2>8, <3>2, <4>1, Zenon
    <3> QED BY <3>1, <3>2, Zenon
  <2>11. Unsynced(r) = {Entries, Len(c)} BY <2>9, Zenon DEF Unsynced
  <2>14. HasInode(r, inodes) BY <2>2, <2>9, Zenon DEF SoundWriting, HasInode
  <2>15. locking => w.directory = w.digest /\ w.digest = now BY <2>2, Zenon DEF SoundWriting
  <2> HIDE DEF now
  <2>16. r.digest <= inodes[r.inode] /\ (locking => r.directory = r.digest /\ r.digest = inodes[r.inode])
    BY <2>8, <2>9, <2>15, Zenon DEF now
  <2>17. \A i \in 1..Len(r.copied) : r.digest <= r.copied[i] /\ r.copied[i] <= inodes[r.inode]
    BY <2>9, <2>10, Zenon DEF now
  <2>12. SoundWriting(r, inodes, locking, output')
    BY <2>4, <2>7, <2>9, <2>11, <2>14, <2>16, <2>17, Zenon DEF SoundWriting
  <2>13. SoundOutput' BY <2>1, <1>0, Zenon DEF IInv, SoundOutput
  <2> QED BY <1>0, <2>1, <2>9, <2>12, <2>13, WritingIsSound, ImporterStep, Zenon
<1> QED BY <1>1, <1>2, Zenon

\* Syncing it.
LEMMA SyncsSound ==
    ASSUME IInv, NEW p \in Importers, SyncSegment(p)
    PROVE  IInv'
<1> DEFINE w == importer[p]
           n == Len(w.copied)
           a == IF n = Len(Segments(w)) THEN "rehash" ELSE "write"
           u == w.unsynced \ {n}
           r == [w EXCEPT !.unsynced = u, !.at = a]
<1>0. UNCHANGED <<locking, inodes>> /\ w.at = "sync" BY Zenon DEF SyncSegment, At
<1>1. Goes(p, r) /\ output' = output BY Zenon DEF SyncSegment
<1>2. w \in Writing /\ SoundWriting(w, inodes, locking, output) BY <1>0, WritingNow, Zenon
<1>3. w.copied \in Seq(Versions) /\ w.unsynced \in SUBSET Int BY <1>2, Zenon DEF Writing
<1>4. w.unsynced = {Entries, n} BY <1>0, <1>2, Zenon DEF SoundWriting, Unsynced
<1>5. n \in Nat /\ Entries \notin Nat BY <1>3 DEF Entries
<1>6. u = {Entries} BY <1>4, <1>5, Zenon
<1>7. u \in SUBSET Int BY <1>3, Zenon
<1>8. a \in {"write", "rehash"} BY Zenon
<1> HIDE DEF u, a
<1>9. r \in Writing /\ r.at = a /\ r.copied = w.copied /\ r.unsynced = u /\ r.inode = w.inode
      /\ r.directory = w.directory /\ r.digest = w.digest
  <2>1. r = [w EXCEPT !.unsynced = u, !.at = a] BY Zenon
  <2> HIDE DEF r, w
  <2> QED BY <1>2, <1>7, <1>8, <2>1, Zenon DEF Writing
<1> HIDE DEF r
<1>10. Unsynced(r) = {Entries} BY <1>8, <1>9, Zenon DEF Unsynced
<1>11. w.copied # <<>> BY <1>0, <1>2, Zenon DEF SoundWriting
<1>13. SoundWriting(r, inodes, locking, output')
  BY <1>2, <1>6, <1>8, <1>9, <1>10, <1>11, Carried, Zenon
<1>12. SoundOutput' BY <1>1, <1>0, Zenon DEF IInv, SoundOutput
<1> QED BY <1>0, <1>1, <1>9, <1>12, <1>13, WritingIsSound, ImporterStep, Zenon

\* The digest taken again is the first one: nothing else was copied.
LEMMA RehashesSound ==
    ASSUME IInv, NEW p \in Importers, RehashSource(p)
    PROVE  IInv'
<1> DEFINE w == importer[p]
           r == [w EXCEPT !.at = "manifest"]
<1>0. UNCHANGED <<locking, inodes>> /\ w.at = "rehash" BY Zenon DEF RehashSource, At
<1>1. CASE Throws(p)
  BY <1>0, <1>1, ThrowsSound, Zenon
<1>2. CASE ~Throws(p)
  <2>1. Goes(p, r) /\ output' = output /\ inodes[w.inode] = w.digest
    BY <1>2, Zenon DEF RehashSource, Step, hash_stream, Held
  <2>2. w \in Writing /\ SoundWriting(w, inodes, locking, output) /\ \A v \in Versions : v \in Nat
    BY <1>0, WritingNow, Zenon
  <2>3. w.copied \in Seq(Versions) /\ w.unsynced \in SUBSET Int /\ w.digest \in Versions
    BY <2>2, Zenon DEF Writing
  <2>4. \A i \in 1..Len(w.copied) : w.copied[i] = w.digest
    BY <2>1, <2>2, <2>3 DEF SoundWriting
  <2>5. AllOf(w.copied, w.digest) BY <1>0, <2>2, <2>4, Zenon DEF AllOf, SoundWriting
  <2>6. w.unsynced = {Entries} BY <1>0, <2>2, Zenon DEF SoundWriting, Unsynced
  <2>7. r \in Writing /\ r.at = "manifest" /\ r.copied = w.copied /\ r.unsynced = w.unsynced
        /\ r.inode = w.inode /\ r.directory = w.directory /\ r.digest = w.digest
    <3>1. r = [w EXCEPT !.at = "manifest"] BY Zenon
    <3> HIDE DEF r, w
    <3> QED BY <2>2, <2>3, <3>1, Zenon DEF Writing
  <2> HIDE DEF r
  <2>8. Unsynced(r) = {Entries} BY <2>7, Zenon DEF Unsynced
  <2>9. SoundWriting(r, inodes, locking, output')
    BY <2>2, <2>5, <2>6, <2>7, <2>8, Carried, Zenon
  <2>10. SoundOutput' BY <2>1, <1>0, Zenon DEF IInv, SoundOutput
  <2> QED BY <1>0, <2>1, <2>7, <2>9, <2>10, WritingIsSound, ImporterStep, Zenon
<1> QED BY <1>1, <1>2, Zenon
\* The manifest and the directory: nothing is left to sync when the package is
\* about to be renamed.
LEMMA FinishesSound ==
    ASSUME IInv, NEW p \in Importers, WriteManifest(p) \/ SyncDirectory(p)
    PROVE  IInv'
<1> DEFINE w == importer[p]
<1>0. UNCHANGED <<locking, inodes>> /\ w.at \in {"manifest", "directory"}
  BY Zenon DEF WriteManifest, SyncDirectory, At
<1>1. w \in Writing /\ SoundWriting(w, inodes, locking, output) BY <1>0, WritingNow, Zenon
<1>2. w.unsynced \in SUBSET Int BY <1>1, Zenon DEF Writing
<1>3. w.unsynced = {Entries} BY <1>0, <1>1, Zenon DEF SoundWriting, Unsynced
<1>4. AllOf(w.copied, w.digest) BY <1>0, <1>1, Zenon DEF SoundWriting
<1>5. CASE WriteManifest(p)
  <2> DEFINE r == [w EXCEPT !.at = "directory"]
  <2>1. Goes(p, r) /\ output' = output BY <1>5, Zenon DEF WriteManifest, Step
  <2>2. r \in Writing /\ r.at = "directory" /\ r.copied = w.copied /\ r.unsynced = w.unsynced
        /\ r.inode = w.inode /\ r.directory = w.directory /\ r.digest = w.digest
    <3>1. r = [w EXCEPT !.at = "directory"] BY Zenon
    <3> HIDE DEF r, w
    <3> QED BY <1>1, <3>1, Zenon DEF Writing
  <2> HIDE DEF r
  <2>3. Unsynced(r) = {Entries} BY <2>2, Zenon DEF Unsynced
  <2>4. SoundWriting(r, inodes, locking, output')
    BY <1>1, <1>3, <1>4, <2>2, <2>3, Carried, Zenon
  <2>5. SoundOutput' BY <2>1, <1>0, Zenon DEF IInv, SoundOutput
  <2> QED BY <1>0, <2>1, <2>2, <2>4, <2>5, WritingIsSound, ImporterStep, Zenon
<1>6. CASE SyncDirectory(p) /\ Throws(p)
  BY <1>0, <1>6, ThrowsSound, Zenon
<1>7. CASE SyncDirectory(p) /\ ~Throws(p)
  <2> DEFINE u == w.unsynced \ {Entries}
             r == [w EXCEPT !.at = "publish", !.unsynced = u]
  <2>1. Goes(p, r) /\ output' = output BY <1>7, Zenon DEF SyncDirectory
  <2>2. u = {} BY <1>3, Zenon
  <2>3. u \in SUBSET Int BY <1>2, Zenon
  <2> HIDE DEF u
  <2>4. r \in Writing /\ r.at = "publish" /\ r.copied = w.copied /\ r.unsynced = u
        /\ r.inode = w.inode /\ r.directory = w.directory /\ r.digest = w.digest
    <3>1. r = [w EXCEPT !.at = "publish", !.unsynced = u] BY Zenon
    <3> HIDE DEF r, w
    <3> QED BY <1>1, <2>3, <3>1, Zenon DEF Writing
  <2> HIDE DEF r
  <2>5. Unsynced(r) = {} BY <2>4, Zenon DEF Unsynced
  <2>6. SoundWriting(r, inodes, locking, output')
    BY <1>1, <1>4, <2>2, <2>4, <2>5, Carried, Zenon
  <2>7. SoundOutput' BY <2>1, <1>0, Zenon DEF IInv, SoundOutput
  <2> QED BY <1>0, <2>1, <2>4, <2>6, <2>7, WritingIsSound, ImporterStep, Zenon
<1> QED BY <1>5, <1>6, <1>7, Zenon

\* The rename.
LEMMA PublishesSound ==
    ASSUME IInv, NEW p \in Importers, Publish(p)
    PROVE  IInv'
<1> DEFINE w == importer[p]
           r == [w EXCEPT !.at = "parent"]
<1>0. UNCHANGED <<locking, inodes>> /\ w.at = "publish" BY Zenon DEF Publish, At
<1>1. CASE output # None
  BY <1>0, <1>1, ThrowsSound, Zenon DEF Publish
<1>2. CASE output = None
  <2>1. Goes(p, r) /\ output' = Renamed(p) BY <1>2, Zenon DEF Publish, Step
  <2>2. w \in Writing /\ SoundWriting(w, inodes, locking, output) BY <1>0, WritingNow, Zenon
  <2>3. AllOf(w.copied, w.digest) /\ w.unsynced = {}
        /\ (locking => w.directory = w.digest)
    BY <1>0, <2>2, Zenon DEF SoundWriting, Unsynced
  <2>4. output' \in Published BY <2>1, <2>2, Zenon DEF Renamed, Writing, Published
  <2>5. output' # None
    <3>1. output'.durable = FALSE /\ DOMAIN output' # {"none"} BY <2>1, Zenon DEF Renamed
    <3>2. DOMAIN None = {"none"} BY Zenon DEF None
    <3> QED BY <3>1, <3>2, Zenon
  <2>6. SoundOutput' BY <1>0, <2>1, <2>3, Zenon DEF SoundOutput, Renamed
  <2>7. r \in Writing /\ r.at = "parent" /\ r.copied = w.copied /\ r.unsynced = w.unsynced
        /\ r.inode = w.inode /\ r.directory = w.directory /\ r.digest = w.digest
    <3>1. r = [w EXCEPT !.at = "parent"] BY Zenon
    <3> HIDE DEF r, w
    <3> QED BY <2>2, <3>1, Zenon DEF Writing
  <2> HIDE DEF r
  <2>8. Unsynced(r) = {} BY <2>7, Zenon DEF Unsynced
  <2>9. SoundWriting(r, inodes, locking, output')
    BY <2>2, <2>3, <2>5, <2>7, <2>8, Carried, Zenon
  <2> QED BY <1>0, <2>1, <2>4, <2>5, <2>6, <2>7, <2>9, WritingIsSound, ImporterStep, Zenon
<1> QED BY <1>1, <1>2, Zenon

\* The sync of the parent directory.
LEMMA SyncsParentSound ==
    ASSUME IInv, NEW p \in Importers, SyncParent(p)
    PROVE  /\ IInv'
           /\ output # None /\ output' # None /\ output'.by = output.by
           /\ output'.copied = output.copied /\ output'.lost = output.lost
<1>0. UNCHANGED <<locking, inodes>> /\ importer[p].at = "parent" BY Zenon DEF SyncParent, At
<1>1. Goes(p, Done) /\ output' = [output EXCEPT !.durable = TRUE] BY Zenon DEF SyncParent
<1>2. output # None BY <1>0, WritingNow, Zenon DEF SoundWriting
<1>3. output \in Published BY <1>2, Zenon DEF IInv, TypeOK
<1>4. output' \in Published /\ output'.copied = output.copied /\ output'.digest = output.digest
      /\ output'.directory = output.directory /\ output'.unsynced = output.unsynced
      /\ output'.lost = output.lost /\ output'.by = output.by
  BY <1>1, <1>3, Zenon DEF Published
<1>5. output' # None
  <2>1. DOMAIN output' # {"none"} BY <1>4, Zenon DEF Published
  <2>2. DOMAIN None = {"none"} BY Zenon DEF None
  <2> QED BY <2>1, <2>2, Zenon
<1>6. SoundOutput' BY <1>0, <1>2, <1>4, Zenon DEF IInv, SoundOutput
<1>7. Done \in Progress BY Zenon DEF Progress
<1>8. Sound(Done, inodes, locking, output') BY Resting, Zenon
<1> HIDE DEF Done
<1> QED BY <1>0, <1>1, <1>2, <1>4, <1>5, <1>6, <1>7, <1>8, ImporterStep, Zenon
\* Contents only get newer, and not at all under the lock.
LEMMA ContentsGrow ==
    ASSUME NEW r \in Progress, NEW lock, NEW out,
           NEW contents \in Seq(Versions), NEW next \in Seq(Versions),
           Sound(r, contents, lock, out), Len(next) >= Len(contents),
           \A i \in 1..Len(contents) : contents[i] <= next[i],
           lock /\ r.at \notin {"start", "lock", "done"} => next[r.inode] = contents[r.inode]
    PROVE  Sound(r, next, lock, out)
<1>1. CASE r \in Opening
  <2>1. HasInode(r, next) BY <1>1 DEF Sound, HasInode
  <2>2. r \notin Hashing /\ r \notin Writing BY <1>1, Zenon DEF Opening, Hashing, Writing
  <2> QED BY <2>1, <2>2, Zenon DEF Sound
<1>2. CASE r \in Hashing
  <2>1. HasInode(r, next) BY <1>2 DEF Sound, HasInode
  <2>2. r \notin Opening /\ r \notin Writing /\ r.at = "hash" BY <1>2, Zenon
                                                                 DEF Opening, Hashing, Writing
  <2>3. lock => r.directory = next[r.inode] BY <1>2, <2>2, Zenon DEF Sound
  <2> QED BY <2>1, <2>2, <2>3, Zenon DEF Sound
<1>3. CASE r \in Writing
  <2>1. SoundWriting(r, contents, lock, out) BY <1>3, Zenon DEF Sound
  <2>2. r.at \notin {"start", "lock", "done"} /\ r.copied \in Seq(Versions) /\ r.digest \in Versions
    BY <1>3, Zenon DEF Writing
  <2>3. HasInode(r, next) /\ r.inode \in 1..Len(contents) BY <2>1 DEF SoundWriting, HasInode
  <2>4. contents[r.inode] \in Nat /\ next[r.inode] \in Nat /\ contents[r.inode] <= next[r.inode]
        /\ r.digest \in Nat
    <3>1. Versions \subseteq Nat BY ImportAssumption, Zenon DEF Versions
    <3>2. r.inode \in 1..Len(next) BY <2>3, Zenon DEF HasInode
    <3>3. contents[r.inode] \in Versions /\ next[r.inode] \in Versions BY <2>3, <3>2
    <3> QED BY <2>2, <2>3, <3>1, <3>3, Zenon
  <2>5. r.digest <= next[r.inode] BY <2>1, <2>4 DEF SoundWriting
  <2>6. ASSUME NEW i \in 1..Len(r.copied)
        PROVE  r.digest <= r.copied[i] /\ r.copied[i] <= next[r.inode]
    <3>1. r.copied[i] \in Nat BY <2>2, ImportAssumption DEF Versions
    <3>2. r.digest <= r.copied[i] /\ r.copied[i] <= contents[r.inode] BY <2>1, Zenon
                                                                         DEF SoundWriting
    <3> QED BY <2>4, <3>1, <3>2
  <2>7. lock => r.directory = r.digest /\ r.digest = next[r.inode]
    BY <2>1, <2>2, Zenon DEF SoundWriting
  <2>8. SoundWriting(r, next, lock, out)
    BY <2>1, <2>3, <2>5, <2>6, <2>7, Zenon DEF SoundWriting
  <2> QED BY <1>3, <2>8, WritingIsSound, Zenon
<1>4. CASE r \in {Start, Done} BY <1>4, Resting, Zenon
<1> QED BY <1>1, <1>2, <1>3, <1>4, Zenon DEF Progress

\* The source is rewritten or replaced.
LEMMA SourceChangesSound ==
    ASSUME IInv, NEW v \in Versions, Rewrite(v) \/ Replace(v)
    PROVE  IInv'
<1>0. UNCHANGED <<locking, importer, output>> BY Zenon DEF Rewrite, Replace
<1>1. inodes \in Seq(Versions) /\ Len(inodes) > 0 BY Zenon DEF IInv, TypeOK
<1>2. \A i \in 1..Len(inodes) : inodes[i] \in Nat /\ inodes[i] < v /\ v \in Nat
  BY <1>1, ImportAssumption DEF Rewrite, Replace, Newer, Versions
<1>3. inodes' \in Seq(Versions) /\ Len(inodes') >= Len(inodes) BY <1>1 DEF Rewrite, Replace
<1>4. \A i \in 1..Len(inodes) : inodes[i] <= inodes'[i]
  BY <1>1, <1>2 DEF Rewrite, Replace
<1>5. ASSUME NEW q \in Importers PROVE Sound(importer[q], inodes', locking, output)
  <2>1. importer[q] \in Progress /\ Sound(importer[q], inodes, locking, output)
    BY Zenon DEF IInv, TypeOK
  <2>2. ASSUME locking, importer[q].at \notin {"start", "lock", "done"}
        PROVE  inodes'[importer[q].inode] = inodes[importer[q].inode]
    <3>1. importer[q].inode \in 1..Len(inodes)
      <4>1. importer[q] \notin {Start, Done} BY <2>2 DEF Start, Done
      <4> QED BY <2>1, <4>1, Zenon DEF Progress, Sound, SoundWriting, HasInode
    <3>2. CASE Rewrite(v)
      <4>1. importer[q].inode # Len(inodes) BY <2>2, <3>2, Zenon DEF Rewrite, Locks
      <4> QED BY <1>1, <3>1, <3>2, <4>1 DEF Rewrite
    <3>3. CASE Replace(v)
      BY <1>1, <3>1, <3>3 DEF Replace
    <3> QED BY <3>2, <3>3, Zenon
  <2> QED BY <1>1, <1>3, <1>4, <2>1, <2>2, ContentsGrow, Zenon
<1>6. TypeOK' BY <1>0, <1>1, <1>3 DEF IInv, TypeOK
<1>7. SoundOutput' BY <1>0, Zenon DEF IInv, SoundOutput
<1> QED BY <1>0, <1>5, <1>6, <1>7, Zenon DEF IInv

\* A power loss: the package, fully synced, loses none of its files.
LEMMA PowerLossSound ==
    ASSUME IInv, PowerLoss
    PROVE  /\ IInv'
           /\ output # None =>
                \/ /\ output' # None /\ output'.by = output.by
                   /\ output'.copied = output.copied /\ output'.lost = output.lost
                \/ output' = None /\ ~output.durable
<1>0. UNCHANGED <<locking, inodes>> /\ importer' = [p \in Importers |-> Start] BY Zenon
                                                                                  DEF PowerLoss
<1>1. ASSUME NEW q \in Importers
      PROVE  importer'[q] \in Progress /\ Sound(importer'[q], inodes, locking, output')
  <2>1. importer'[q] = Start BY <1>0, Zenon
  <2>2. Start \in Progress BY Zenon DEF Progress
  <2> QED BY <2>1, <2>2, Resting, Zenon
<1>2. CASE output # None /\ output' # None
  <2>1. output \in Published /\ output.unsynced = {} /\ output.lost = {}
    BY <1>2, Zenon DEF IInv, TypeOK, SoundOutput
  <2>2. output' = [output EXCEPT !.lost = {}] BY <1>2, <2>1, Zenon DEF PowerLoss
  <2>3. output' \in Published /\ output'.copied = output.copied /\ output'.digest = output.digest
        /\ output'.directory = output.directory /\ output'.unsynced = output.unsynced
        /\ output'.lost = output.lost /\ output'.by = output.by
    BY <2>1, <2>2, Zenon DEF Published
  <2>4. SoundOutput' BY <1>0, <1>2, <2>3, Zenon DEF IInv, SoundOutput
  <2>5. TypeOK' BY <1>0, <1>1, <2>3, Zenon DEF IInv, TypeOK
  <2> QED BY <1>0, <1>1, <1>2, <2>3, <2>4, <2>5, Zenon DEF IInv
<1>3. CASE output' = None
  <2>1. SoundOutput' BY <1>3, Zenon DEF SoundOutput
  <2>2. TypeOK' BY <1>0, <1>1, <1>3, Zenon DEF IInv, TypeOK
  <2>3. output # None => ~output.durable
    <3> SUFFICES ASSUME output # None PROVE ~output.durable BY Zenon
    <3>1. output \in Published BY Zenon DEF IInv, TypeOK
    <3>2. [output EXCEPT !.lost = IF Entries \in output.unsynced
                                  THEN 0..Len(output.copied) ELSE output.unsynced] # None
      <4>1. "lost" \in DOMAIN output BY <3>1, Zenon DEF Published
      <4> QED BY <4>1, Zenon DEF None
    <3> QED BY <1>3, <3>2, Zenon DEF PowerLoss
  <2> QED BY <1>0, <1>1, <1>3, <2>1, <2>2, <2>3, Zenon DEF IInv
<1>4. CASE output = None BY <1>3, <1>4, Zenon DEF PowerLoss
<1> QED BY <1>2, <1>3, <1>4, Zenon
-----------------------------------------------------------------------------
\* The invariant holds before any import.
LEMMA InitSound ==
    ASSUME Init
    PROVE  IInv
<1>1. PICK v \in Versions : inodes = <<v>> BY Zenon DEF Init
<1>2. inodes \in Seq(Versions) /\ Len(inodes) = 1 BY <1>1
<1>3. ASSUME NEW p \in Importers
      PROVE  importer[p] \in Progress /\ Sound(importer[p], inodes, locking, output)
  <2>1. importer[p] = Start BY Zenon DEF Init
  <2>2. Start \in Progress BY Zenon DEF Progress
  <2> QED BY <2>1, <2>2, Resting, Zenon
<1>4. TypeOK BY <1>2, <1>3 DEF TypeOK, Init
<1>5. SoundOutput BY Zenon DEF SoundOutput, Init
<1> QED BY <1>3, <1>4, <1>5, Zenon DEF IInv, Init

\* Every step of an importer preserves it.
LEMMA ImportSound ==
    ASSUME IInv, NEW p \in Importers, Import(p)
    PROVE  IInv'
<1>1. CASE SourceFile(p) \/ LockSource(p) BY <1>1, OpeningSound, Zenon
<1>2. CASE ParseSource(p) BY <1>2, ParsingSound, Zenon
<1>3. CASE CreateStaging(p) BY <1>3, CreatingSound, Zenon
<1>4. CASE WriteSegment(p) BY <1>4, WritesSound, Zenon
<1>5. CASE SyncSegment(p) BY <1>5, SyncsSound, Zenon
<1>6. CASE RehashSource(p) BY <1>6, RehashesSound, Zenon
<1>7. CASE WriteManifest(p) \/ SyncDirectory(p) BY <1>7, FinishesSound, Zenon
<1>8. CASE Publish(p) BY <1>8, PublishesSound, Zenon
<1>9. CASE SyncParent(p) BY <1>9, SyncsParentSound, Zenon
<1>10. CASE IoError(p) BY <1>10, ThrowsSound, Zenon DEF IoError
<1>11. CASE Kill(p) BY <1>11, ThrowsSound, Zenon DEF Kill
<1> QED BY <1>1, <1>2, <1>3, <1>4, <1>5, <1>6, <1>7, <1>8, <1>9, <1>10, <1>11, Zenon DEF Import

\* So does every step of the system.
LEMMA NextSound ==
    ASSUME IInv, [Next]_vars
    PROVE  IInv'
<1>1. CASE \E v \in Versions : Rewrite(v) \/ Replace(v) BY <1>1, SourceChangesSound, Zenon
<1>2. CASE PowerLoss BY <1>2, PowerLossSound, Zenon
<1>3. CASE \E p \in Importers : Import(p) BY <1>3, ImportSound, Zenon
<1>4. CASE UNCHANGED vars
  BY <1>4, Zenon DEF vars, IInv, TypeOK, SoundOutput
<1> QED BY <1>1, <1>2, <1>3, <1>4, Zenon DEF Next

\* Every reachable state has the inductive invariant.
THEOREM Invariance == Spec => []IInv
<1>1. Init => IInv BY InitSound, Zenon
<1>2. IInv /\ [Next]_vars => IInv' BY NextSound, Zenon
<1> QED BY <1>1, <1>2, PTL DEF Spec

\* compile_model: whatever is published holds the bytes of one source, the one
\* whose digest the manifest records, although the source may be rewritten or
\* replaced between any two steps of the importer.
THEOREM SourceCorrect == Spec => []PackageIsOneSource
<1>1. IInv => PackageIsOneSource
  <2> SUFFICES ASSUME IInv, output # None
               PROVE  /\ Range(output.copied) = {output.digest}
                      /\ locking => output.directory = output.digest
    BY Zenon DEF PackageIsOneSource
  <2>1. output \in Published /\ AllOf(output.copied, output.digest)
    BY Zenon DEF IInv, TypeOK, SoundOutput
  <2>2. output.copied \in Seq(Versions) BY <2>1, Zenon DEF Published
  <2>3. DOMAIN output.copied = 1..Len(output.copied) /\ 1 \in 1..Len(output.copied)
    BY <2>1, <2>2 DEF AllOf
  <2>4. Range(output.copied) = {output.digest} BY <2>1, <2>3, Zenon DEF AllOf, Range
  <2> QED BY <2>4, Zenon DEF IInv, SoundOutput
<1> QED BY <1>1, Invariance, PTL

\* The steps of an importer leave a published package as it is.
LEMMA ImportKeepsOutput ==
    ASSUME IInv, NEW p \in Importers, Import(p), output # None
    PROVE  output' # None /\ output'.by = output.by /\ output'.copied = output.copied
           /\ output'.lost = output.lost
<1>1. CASE SyncParent(p) BY <1>1, SyncsParentSound, Zenon
<1>2. CASE ~SyncParent(p)
  <2>1. output' = output
    BY <1>2, Zenon DEF Import, SourceFile, LockSource, ParseSource, CreateStaging, WriteSegment,
         SyncSegment, RehashSource, WriteManifest, SyncDirectory, Publish, IoError, Kill, Throws
  <2> QED BY <2>1, Zenon
<1> QED BY <1>1, <1>2, Zenon

\* StagingDirectory::publish: a package, once renamed into place, stays the same
\* package with all of its files; only a power loss before the fsync of the parent
\* directory takes it back.
THEOREM StaysCorrect == Spec => PublishedStays
<1> DEFINE Stays ==
      output # None =>
          \/ output' # None /\ output'.by = output.by /\ output'.copied = output.copied
                            /\ output'.lost = output.lost
          \/ output' = None /\ ~output.durable /\ losses' > losses
<1>1. Init => losses \in Nat BY DEF Init
<1>2. losses \in Nat /\ [Next]_vars => (losses \in Nat)'
  <2> SUFFICES ASSUME losses \in Nat, [Next]_vars PROVE losses' \in Nat BY Zenon
  <2>1. CASE \E v \in Versions : Rewrite(v) \/ Replace(v) BY <2>1, Zenon DEF Rewrite, Replace
  <2>2. CASE PowerLoss BY <2>2 DEF PowerLoss
  <2>3. ASSUME NEW p \in Importers, Import(p) PROVE losses' = losses
    BY <2>3, Zenon DEF Import, SourceFile, LockSource, ParseSource, CreateStaging, WriteSegment,
         SyncSegment, RehashSource, WriteManifest, SyncDirectory, Publish, SyncParent, IoError,
         Kill, At
  <2>4. CASE UNCHANGED vars BY <2>4, Zenon DEF vars
  <2> QED BY <2>1, <2>2, <2>3, <2>4, Zenon DEF Next
<1>3. losses \in Nat /\ IInv /\ [Next]_vars => [Stays]_vars
  <2> SUFFICES ASSUME losses \in Nat, IInv, Next, output # None
               PROVE  \/ output' # None /\ output'.by = output.by
                         /\ output'.copied = output.copied /\ output'.lost = output.lost
                      \/ output' = None /\ ~output.durable /\ losses' > losses
    BY Zenon
  <2>1. CASE \E v \in Versions : Rewrite(v) \/ Replace(v) BY <2>1, Zenon DEF Rewrite, Replace
  <2>2. CASE PowerLoss
    <3>1. losses' > losses BY <2>2 DEF PowerLoss
    <3> QED BY <2>2, <3>1, PowerLossSound, Zenon
  <2>3. CASE \E p \in Importers : Import(p) BY <2>3, ImportKeepsOutput, Zenon
  <2> QED BY <2>1, <2>2, <2>3, Zenon DEF Next
<1> QED BY <1>1, <1>2, <1>3, Invariance, PTL DEF Spec, PublishedStays
==============================================================================
