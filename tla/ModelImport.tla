----------------------------- MODULE ModelImport -----------------------------
(***************************************************************************)
(* jf-model-compile (compiler/jf_model_compile.cpp): processes that import *)
(* one GGUF path into one package path, while others replace or rewrite    *)
(* the source, importers are killed and the machine loses power.           *)
(*                                                                         *)
(* An importer holds a descriptor, hence an inode: a source replaced by    *)
(* rename is another inode, one rewritten in place is the same inode with  *)
(* other bytes.  flock is advisory: locking says whether the writers of    *)
(* the source take it, exclusively.  A power loss takes what was written   *)
(* and not synced, and may undo a rename whose directory was not synced.   *)
(*                                                                         *)
(* An importer and a package are kept as what determines their files: the  *)
(* GGUF whose directory was parsed, the size and the digest of the source  *)
(* and, for each file, the GGUF that the source held when it was copied.   *)
(***************************************************************************)
EXTENDS StageModel

CONSTANTS
    Importers,    \* processes, each with its own staging directory
    Sources,      \* the GGUFs, in the order in which the source path gets them
    MaxChanges,   \* times that the source is rewritten or replaced
    MaxLosses     \* power losses

ASSUME ImportAssumption ==
    /\ DOMAIN Sources \subseteq Nat
    /\ \A v \in DOMAIN Sources : Sources[v].id = v
    /\ {MaxChanges, MaxLosses} \subseteq Nat

VARIABLES
    locking,      \* writers of the source take its lock
    changes,      \* times that the source was changed
    inodes,       \* contents of the inodes that the source path had, the last one current
    importer,     \* importer |-> its progress in compile_model
    staging,      \* importers whose staging directory is on disk
    output,       \* the package directory, or None
    losses

vars == <<locking, changes, inodes, importer, staging, output, losses>>

Versions == DOMAIN Sources
Entries == -1  \* the entries of the staging directory, among what is not synced
Start == [at |-> "start"]
Done == [at |-> "done"]

Init ==
    /\ locking \in BOOLEAN
    /\ \E v \in Versions : inodes = <<v>>
    /\ changes = 0
    /\ importer = [p \in Importers |-> Start]
    /\ staging = {}
    /\ output = None
    /\ losses = 0

\* The GGUF behind the descriptor of an importer.
Held(p) == inodes[importer[p].inode]
Locks(p) == importer[p].at \notin {"start", "lock", "done"}

\* The digest of the source: the GGUF that it was computed from.
hash_stream(p) == Held(p)

\* The segments of GGUF v for a source with the size of GGUF u, the metadata
\* first, and file i of them when the source holds GGUF w.
SegmentsOf ==
    [v \in Versions |-> [u \in Versions |->
        LET segments == collect_segments(Sources[v], Sources[u].size)
        IN  IF segments = <<>> \/ Sources[v].metadata \notin 1..Sources[u].size THEN <<>>
            ELSE <<[kind |-> <<"metadata", -1>>, tensors |-> <<>>]>> \o segments]]
FileOf ==
    [v \in Versions |-> [u \in Versions |-> [w \in Versions |->
        [i \in DOMAIN SegmentsOf[v][u] |->
            IF i = 1 THEN write_metadata_segment(Sources[v], Sources[w])
            ELSE write_segment(Sources[v], SegmentsOf[v][u][i], Sources[w])]]]]
Segments(o) == SegmentsOf[o.directory][o.size]
Files(o) == [i \in DOMAIN o.copied |-> FileOf[o.directory][o.size][o.copied[i]][i]]

\* The package directory as a reader finds it: of its files, some may be lost; 0
\* stands for the manifest.
Package(o) ==
    LET files == Files(o)
        here == DOMAIN files \ o.lost
    IN  [manifest |-> IF 0 \in o.lost THEN None
                      ELSE write_manifest(Sources[o.directory], Sources[o.size].size, o.digest, files),
         files |-> [path \in {SegmentPath(files[i].kind) : i \in here} |->
                       files[CHOOSE i \in here : SegmentPath(files[i].kind) = path]]]

At(p, step) == importer[p].at = step /\ UNCHANGED <<locking, changes, inodes, losses>>
Goes(p, next) == importer' = [importer EXCEPT ![p] = next]
Step(p, next) == Goes(p, [importer[p] EXCEPT !.at = next])

\* An exception: the descriptor is closed, and the staging directory is removed
\* by the importer that made it and did not publish it.
Throws(p) ==
    /\ Goes(p, Done)
    /\ staging' = IF importer[p].at \in {"write", "sync", "rehash", "manifest", "directory", "publish"}
                  THEN staging \ {p} ELSE staging
    /\ UNCHANGED output

\* The output must not exist; then the source is opened, and its size taken.
SourceFile(p) ==
    /\ At(p, "start")
    /\ IF output # None THEN Throws(p)
       ELSE /\ Goes(p, [at |-> "lock", inode |-> Len(inodes),
                        size |-> inodes[Len(inodes)]])
            /\ UNCHANGED <<staging, output>>

\* flock(LOCK_SH); a writer holds its lock within its own step.
LockSource(p) ==
    /\ At(p, "lock")
    /\ Step(p, "parse")
    /\ UNCHANGED <<staging, output>>

\* The directory of the GGUF and the checks of its metadata.
Supported ==
    {v \in Versions : LET g == Sources[v] IN g.parses /\ ~g.split /\ g.layers \in 1..MaxLayers}
ParseSource(p) ==
    /\ At(p, "parse")
    /\ IF Held(p) \in Supported
       THEN /\ Goes(p, [at |-> "hash", inode |-> importer[p].inode, size |-> importer[p].size,
                        directory |-> Held(p)])
            /\ UNCHANGED <<staging, output>>
       ELSE Throws(p)

\* The digest of the source, its segments, and the exclusive staging directory.
CreateStaging(p) ==
    /\ At(p, "hash")
    /\ IF Segments(importer[p]) # <<>> /\ p \notin staging
       THEN /\ Goes(p, [at |-> "write", inode |-> importer[p].inode, size |-> importer[p].size,
                        directory |-> importer[p].directory, digest |-> hash_stream(p), copied |-> <<>>,
                        unsynced |-> {Entries}])
            /\ staging' = staging \cup {p}
            /\ UNCHANGED output
       ELSE Throws(p)

\* The next file of the package, copied from what the source holds now.
WriteSegment(p) ==
    /\ At(p, "write")
    /\ LET i == Len(importer[p].copied) + 1
       IN  IF FileOf[importer[p].directory][importer[p].size][Held(p)][i] = None THEN Throws(p)
           ELSE /\ Goes(p, [importer[p] EXCEPT !.at = "sync", !.copied = Append(@, Held(p)),
                                               !.unsynced = @ \cup {i}])
                /\ UNCHANGED <<staging, output>>

\* Mutant: the file is closed and not synced.
SyncSegmentSkipped(p) ==
    /\ At(p, "sync")
    /\ LET i == Len(importer[p].copied)
       IN  Goes(p, [importer[p] EXCEPT !.at = IF i = Len(Segments(importer[p])) THEN "rehash" ELSE "write"])
    /\ UNCHANGED <<staging, output>>

\* The fsync that ends write_segment.
SyncSegment(p) ==
    /\ At(p, "sync")
    /\ LET i == Len(importer[p].copied)
       IN  Goes(p, [importer[p] EXCEPT !.unsynced = @ \ {i},
                                       !.at = IF i = Len(Segments(importer[p])) THEN "rehash" ELSE "write"])
    /\ UNCHANGED <<staging, output>>

\* Mutant: the digest is taken once.
RehashSourceSkipped(p) ==
    /\ At(p, "rehash")
    /\ Step(p, "manifest")
    /\ UNCHANGED <<staging, output>>

\* The source must still have the digest taken before the first copy.
RehashSource(p) ==
    /\ At(p, "rehash")
    /\ IF hash_stream(p) = importer[p].digest
       THEN Step(p, "manifest") /\ UNCHANGED <<staging, output>>
       ELSE Throws(p)

\* write_bytes writes the manifest and syncs it, sync_directory the entries of
\* the staging directory; a package whose totals overflow is given up.
WriteManifest(p) ==
    /\ At(p, "manifest")
    /\ Step(p, "directory")
    /\ UNCHANGED <<staging, output>>

SyncDirectory(p) ==
    /\ At(p, "directory")
    /\ LET files == Files(importer[p])
           bytes == MapThenSumSet(LAMBDA i : files[i].size, DOMAIN files)
       IN  IF AddFits(bytes, ManifestSize(files))
           THEN /\ Goes(p, [importer[p] EXCEPT !.at = "publish", !.unsynced = @ \ {Entries}])
                /\ UNCHANGED <<staging, output>>
           ELSE Throws(p)

\* The package of a staging directory, just renamed.
Renamed(p) == [directory |-> importer[p].directory, size |-> importer[p].size,
               digest |-> importer[p].digest, copied |-> importer[p].copied,
               unsynced |-> importer[p].unsynced, lost |-> {}, durable |-> FALSE, by |-> p]

\* Mutant: whatever is at the output is removed before the rename.
PublishReplaces(p) ==
    /\ At(p, "publish")
    /\ output' = Renamed(p)
    /\ staging' = staging \ {p}
    /\ Step(p, "parent")

\* renameat2(RENAME_NOREPLACE)
Publish(p) ==
    /\ At(p, "publish")
    /\ IF output # None THEN Throws(p)
       ELSE /\ output' = Renamed(p)
            /\ staging' = staging \ {p}
            /\ Step(p, "parent")

\* The fsync of the output's parent.
SyncParent(p) ==
    /\ At(p, "parent")
    /\ output' = [output EXCEPT !.durable = TRUE]
    /\ Goes(p, Done)
    /\ UNCHANGED staging

\* A call to the file system fails at any point.
IoError(p) ==
    /\ importer[p].at \notin {"start", "done"}
    /\ Throws(p)
    /\ UNCHANGED <<locking, changes, inodes, losses>>

\* The process is killed: it removes nothing.
Kill(p) ==
    /\ importer[p].at \notin {"start", "done"}
    /\ Goes(p, Done)
    /\ UNCHANGED <<locking, changes, inodes, staging, output, losses>>

\* A GGUF that the source path did not have yet is written over the source, or
\* renamed onto its path.
Newer(v) == changes < MaxChanges /\ \A i \in DOMAIN inodes : inodes[i] < v
Rewrite(v) ==
    /\ Newer(v)
    /\ locking => ~\E p \in Importers : Locks(p) /\ importer[p].inode = Len(inodes)
    /\ inodes' = [inodes EXCEPT ![Len(inodes)] = v]
    /\ changes' = changes + 1
    /\ UNCHANGED <<locking, importer, staging, output, losses>>

Replace(v) ==
    /\ Newer(v)
    /\ inodes' = Append(inodes, v)
    /\ changes' = changes + 1
    /\ UNCHANGED <<locking, importer, staging, output, losses>>

\* The machine restarts; processes may get the same numbers again.
PowerLoss ==
    /\ losses < MaxLosses
    /\ losses' = losses + 1
    /\ importer' = [p \in Importers |-> Start]
    /\ \/ /\ output # None
          /\ output' = [output EXCEPT !.lost = IF Entries \in output.unsynced
                                               THEN 0..Len(output.copied) ELSE output.unsynced]
          /\ UNCHANGED staging
       \/ /\ output # None /\ ~output.durable
          /\ output' = None
          /\ staging' = staging \cup {output.by}
       \/ /\ output = None
          /\ UNCHANGED <<staging, output>>
    /\ UNCHANGED <<locking, changes, inodes>>

Import(p) ==
    \/ SourceFile(p) \/ LockSource(p) \/ ParseSource(p) \/ CreateStaging(p)
    \/ WriteSegment(p) \/ SyncSegment(p) \/ RehashSource(p) \/ WriteManifest(p)
    \/ SyncDirectory(p) \/ Publish(p) \/ SyncParent(p) \/ IoError(p) \/ Kill(p)

Next ==
    \/ \E v \in Versions : Rewrite(v) \/ Replace(v)
    \/ PowerLoss
    \/ \E p \in Importers : Import(p)

Spec == Init /\ [][Next]_vars
-----------------------------------------------------------------------------
\* The tensors of a GGUF that a stage of this layer range computes with.
Needed(g, start, end) ==
    {t \in Range(g.tensors) :
        CASE t.place = "blk" -> start <= t.layer /\ t.layer < end
          [] t.place = "token_embd" -> start = 0
          [] t.place \in {"output", "output_norm"} -> end = g.layers
          [] OTHER -> TRUE}

\* A published package opens for every layer range and gives exactly the tensors
\* of that range, each with its type, its shape and its own bytes of the source,
\* after power losses as well (docs/native-engine.md: "An interrupted import
\* cannot expose a partial destination"); and when an engine starts with the whole
\* model, so does the engine of every stage.  The importer does not apply the
\* reader's limit on tensors, so a GGUF beyond it is left out.
Opens(o) ==
    LET g == Sources[o.directory]
        package == Package(o)
        hparams == [v \in Versions |-> Sources[v].hparams]
        wholeStarts == StageStarts(package, hparams, 0, g.layers)
    IN  \A start, end \in 0..g.layers : start < end =>
            LET opened == jf_model_open(package, [start |-> start, end |-> end, verify |-> TRUE])
            IN  /\ opened # None
                /\ {<<t.name, to_ggml_type(t.type), t.shape, t.data.at, t.data.size>> :
                        t \in opened.tensors}
                    = {<<t.name, t.type, t.shape, g.metadata + t.offset,
                         TensorSize(t.type, t.shape)>> : t \in Needed(g, start, end)}
                /\ wholeStarts => StageStarts(package, hparams, start, end)
PublishedOpens ==
    [][(/\ output' # None /\ (output = None \/ output'.lost # output.lost)
        /\ Len(Sources[output'.directory].tensors) <= MaxTensors)
       => Opens(output')]_vars

\* All bytes of a published package are those of the one GGUF whose digest its
\* manifest records, however the source was rewritten or replaced meanwhile with
\* contents it did not have before (Newer: one that came back would go unnoticed
\* between two equal digests); its directory is that GGUF's too when writers take
\* the lock (the directory is read before the first digest).
PackageIsOneSource ==
    output # None =>
        /\ Range(output.copied) = {output.digest}
        /\ locking => output.directory = output.digest

\* A published package is never replaced or changed: an importer that saw no
\* output when it started gives up when another was first.  Only a power loss
\* before the parent directory was synced takes it back.
PublishedStays ==
    [][output # None =>
          \/ output' # None /\ output'.by = output.by /\ output'.copied = output.copied
                            /\ output'.lost = output.lost
          \/ output' = None /\ ~output.durable /\ losses' > losses]_vars
==============================================================================
