------------------------------ MODULE JfmFormat ------------------------------
(***************************************************************************)
(* The JFM v2 model package: what compiler/jf_model_compile.cpp writes for *)
(* a GGUF model and what engines/native/src/engine.c accepts and returns   *)
(* for the layer range of a stage.                                         *)
(*                                                                         *)
(* A GGUF is its layer count, the size of its metadata prefix, its size,   *)
(* its dimensions and its tensors, a sequence of records                   *)
(*   [name, place, layer, length, type, shape, offset]                     *)
(* where place stands for the prefix of the name and length for the number *)
(* of its characters.  Sizes and offsets are in bytes, as in the code, and *)
(* MaxWord stands for the largest uint64 and size_t.  The bytes of a range *)
(* are the GGUF they were read from, their offset there and their number.  *)
(* A digest is the content it was computed from.                           *)
(***************************************************************************)
EXTENDS Integers, Sequences, FiniteSets, FiniteSetsExt, SequencesExt

CONSTANTS
    MaxWord,      \* UINT64_MAX, SIZE_MAX
    MaxLayers,    \* JF_MAX_LAYERS, the limit of the compiler as well
    MaxTensors    \* JF_MAX_TENSORS

ASSUME FormatAssumption ==
    /\ {MaxWord, MaxLayers, MaxTensors} \subseteq Nat \ {0}
    /\ (MaxWord + 1) % 64 = 0

None == [none |-> TRUE]

\* Tensor names: blk.<layer>.<tensor>, and the others.
BlockName(layer, tensor) == <<"blk", layer, tensor>>
Global(name) == <<name, -1, "">>

\* Sizes of format.h.
MANIFEST_HEADER_SIZE == 64
MANIFEST_SEGMENT_SIZE == 72
SEGMENT_HEADER_SIZE == 64
TENSOR_RECORD_SIZE == 80
ALIGNMENT == 64

\* The tensor types by their stable number, with the elements and the bytes of a
\* storage block.
StableTypes == <<"F32", "F16", "Q4_0", "Q4_1", "Q5_0", "Q5_1", "Q8_0", "Q8_1",
    "Q2_K", "Q3_K", "Q4_K", "Q5_K", "Q6_K", "Q8_K", "IQ2_XXS", "IQ2_XS", "IQ3_XXS",
    "IQ1_S", "IQ4_NL", "IQ3_S", "IQ2_S", "IQ4_XS", "I8", "I16", "I32", "I64", "F64", "IQ1_M",
    "BF16", "TQ1_0", "TQ2_0", "MXFP4", "NVFP4", "Q1_0", "Q2_0">>
stable_tensor_type(type) == CHOOSE i \in DOMAIN StableTypes : StableTypes[i] = type
to_ggml_type(i) == StableTypes[i]

jf_tensor_type_layout(i) ==
    [elements |-> <<1, 1, 32, 32, 32, 32, 32, 32, 256, 256, 256, 256, 256, 256, 256, 256, 256,
                    256, 32, 256, 256, 256, 1, 1, 1, 1, 1, 256,
                    1, 256, 256, 32, 64, 128, 64>>[i],
     bytes |-> <<4, 2, 18, 20, 22, 24, 34, 36, 84, 110, 144, 176, 210, 292, 66, 74, 98,
                 50, 18, 110, 82, 136, 1, 2, 4, 8, 8, 56,
                 2, 54, 66, 17, 36, 18, 18>>[i]]

align_up(value, alignment) == ((value + alignment - 1) \div alignment) * alignment
AddFits(left, right) == left <= MaxWord - right
AlignFits(value, alignment) == AddFits(value, alignment - 1)
range_fits(offset, length, size) == offset <= size /\ length <= size - offset

\* ggml: the bytes of a tensor.
TensorSize(type, shape) ==
    LET layout == jf_tensor_type_layout(stable_tensor_type(type))
    IN  (shape[1] \div layout.elements) * layout.bytes * shape[2] * shape[3] * shape[4]

-----------------------------------------------------------------------------
\* Writing.

tensor_rank(shape) == Max({1} \cup {d \in 2..4 : shape[d] > 1})

\* The segment of a tensor: its kind and layer.
SegmentOf(t) ==
    CASE t.place = "blk" -> <<"layer", t.layer>>
      [] t.place = "token_embd" -> <<"input", -1>>
      [] t.place \in {"output", "output_norm"} -> <<"output", -1>>
      [] t.place = "other" -> <<"shared", -1>>

\* File names; the manifest counts their characters.
SegmentPath(kind) ==
    CASE kind[1] = "layer" -> <<"layer-%05u.jfs", kind[2]>>
      [] kind[1] = "metadata" -> <<"metadata.gguf", -1>>
      [] OTHER -> <<kind[1], -1>>
PathLength(kind) ==
    CASE kind[1] = "layer" -> 15 [] kind[1] = "metadata" -> 13
      [] kind[1] = "input" -> 9 [] OTHER -> 10

\* The tensors that the compiler refuses, of a source of so many bytes.
Unsupported(g, source_size, t) ==
    \/ t.length \notin 1..1024
    \/ \E d \in 1..4 : t.shape[d] <= 0
    \/ ~AddFits(g.metadata, t.offset)
    \/ ~range_fits(g.metadata + t.offset, TensorSize(t.type, t.shape), source_size)
    \/ t.place = "blk" /\ t.layer >= g.layers

Kinds(g) ==
    <<<<"shared", -1>>, <<"input", -1>>>> \o [l \in 1..g.layers |-> <<"layer", l - 1>>]
    \o <<<<"output", -1>>>>

\* Empty when the compiler throws.  Only the shared segment may be missing.
collect_segments(g, source_size) ==
    LET Tensors(kind) == SelectSeq(g.tensors, LAMBDA t : SegmentOf(t) = kind)
        all == [i \in DOMAIN Kinds(g) |-> [kind |-> Kinds(g)[i], tensors |-> Tensors(Kinds(g)[i])]]
        present == SelectSeq(all, LAMBDA s : s.tensors # <<>>)
    IN  IF \/ \E i \in DOMAIN g.tensors : Unsupported(g, source_size, g.tensors[i])
           \/ \E i \in DOMAIN all : all[i].kind[1] # "shared" /\ all[i].tensors = <<>>
           \/ \A i \in DOMAIN g.tensors : g.tensors[i].name # Global("output.weight")
        THEN <<>> ELSE present

RecordSize(t) == align_up(TENSOR_RECORD_SIZE + t.length, 8)

\* Bytes of the records of the first i tensors, the offset of tensor i + 1, and
\* the bytes of the first i tensors.
IndexBytes(tensors) ==
    LET sum[i \in 0..Len(tensors)] == IF i = 0 THEN 0 ELSE sum[i - 1] + RecordSize(tensors[i])
    IN  sum
DataCursors(tensors) ==
    LET start == align_up(SEGMENT_HEADER_SIZE + IndexBytes(tensors)[Len(tensors)], ALIGNMENT)
        cursor[i \in 0..Len(tensors)] ==
            IF i = 0 THEN start
            ELSE align_up(cursor[i - 1] + TensorSize(tensors[i].type, tensors[i].shape), ALIGNMENT)
    IN  cursor
TensorBytes(tensors) ==
    LET sum[i \in 0..Len(tensors)] ==
            IF i = 0 THEN 0 ELSE sum[i - 1] + TensorSize(tensors[i].type, tensors[i].shape)
    IN  sum

\* copy_range out of the GGUF that the source now holds; None when it is too short.
copy_range(source, offset, size) ==
    IF range_fits(offset, size, source.size)
    THEN [of |-> source.id, at |-> offset, size |-> size] ELSE None

\* The file of a segment of the directory of g, with the bytes of the source.
write_segment(g, segment, source) ==
    LET tensors == segment.tensors
        cursors == DataCursors(tensors)
        Size(i) == TensorSize(tensors[i].type, tensors[i].shape)
        data == [i \in DOMAIN tensors |->
                    copy_range(source, g.metadata + tensors[i].offset, Size(i))]
        Record(i) ==
            [name |-> tensors[i].name, length |-> tensors[i].length,
             type |-> stable_tensor_type(tensors[i].type),
             rank |-> tensor_rank(tensors[i].shape), shape |-> tensors[i].shape,
             layer |-> segment.kind[2], offset |-> cursors[i - 1], size |-> Size(i),
             block |-> jf_tensor_type_layout(stable_tensor_type(tensors[i].type))]
    IN  IF \/ \E i \in DOMAIN tensors : data[i] = None
           \/ ~AlignFits(cursors[Len(tensors)], ALIGNMENT)
        THEN None
        ELSE [kind |-> segment.kind, size |-> cursors[Len(tensors)],
              count |-> Len(tensors), index |-> IndexBytes(tensors)[Len(tensors)],
              payload |-> TensorBytes(tensors)[Len(tensors)],
              records |-> [i \in DOMAIN tensors |-> Record(i)], data |-> data]

write_metadata_segment(g, source) ==
    LET data == copy_range(source, 0, g.metadata)
    IN  IF g.metadata = 0 \/ data = None THEN None
        ELSE [kind |-> <<"metadata", -1>>, size |-> g.metadata, count |-> 0, index |-> 0,
              payload |-> 0, records |-> <<>>, data |-> <<data>>]

\* The manifest lists the files in the order they were written.
ManifestSize(files) ==
    MANIFEST_HEADER_SIZE
    + MapThenSumSet(LAMBDA i : MANIFEST_SEGMENT_SIZE + PathLength(files[i].kind), DOMAIN files)
write_manifest(g, source_size, digest, files) ==
    [size |-> ManifestSize(files), layers |-> g.layers, source_size |-> source_size,
     source_sha256 |-> digest,
     segments |-> [i \in DOMAIN files |->
        [kind |-> files[i].kind, path |-> SegmentPath(files[i].kind),
         tensor_count |-> files[i].count, tensor_bytes |-> files[i].payload,
         file_size |-> files[i].size, sha256 |-> files[i]]]]
-----------------------------------------------------------------------------
\* Reading.  A package is its manifest and its files by path; a plan is the layer
\* range of a stage and whether digests are verified.

segment_selected(segment, plan, layers) ==
    CASE segment.kind[1] = "layer" -> segment.kind[2] \in plan.start..(plan.end - 1)
      [] segment.kind[1] = "input" -> plan.start = 0
      [] segment.kind[1] = "output" -> plan.end = layers
      [] OTHER -> TRUE

\* The manifest of at most JF_MAX_LAYERS + 4 segments stays far below the reader's
\* limit on its size: it is there or not.
read_manifest(package) == package.manifest

same_path(left, right) == left.path = right.path

\* The header of the manifest and the requested range.
ManifestHeader(m, plan) ==
    /\ m.size >= MANIFEST_HEADER_SIZE
    /\ m.layers \in 1..MaxLayers
    /\ m.source_size # 0
    /\ plan.start < plan.end /\ plan.end <= m.layers
    /\ Len(m.segments) \in (m.layers + 3)..(m.layers + 4)

\* One record of the segment table.
ManifestSegment(m, s) ==
    /\ s.file_size # 0
    /\ s.kind[1] # "metadata" => s.tensor_count # 0 /\ s.tensor_bytes # 0
    /\ s.kind[1] = "metadata" => s.tensor_count = 0 /\ s.tensor_bytes = 0
    /\ IF s.kind[1] = "layer" THEN s.kind[2] \in 0..(m.layers - 1) ELSE s.kind[2] = -1

\* The whole table: it fills the manifest, holds one segment of every kind and
\* layer but the shared one, which is optional, and its totals do not overflow,
\* those of the file sizes over the selected segments.
ManifestTopology(m, selected) ==
    LET count(kind) == Quantify(DOMAIN m.segments, LAMBDA i : m.segments[i].kind = kind)
        Sum(Value(_)) == MapThenSumSet(LAMBDA i : Value(m.segments[i]), DOMAIN m.segments)
    IN  /\ m.size = MANIFEST_HEADER_SIZE
                    + Sum(LAMBDA s : MANIFEST_SEGMENT_SIZE + PathLength(s.kind))
        /\ \A kind \in {<<"metadata", -1>>, <<"input", -1>>, <<"output", -1>>}
                       \cup {<<"layer", l>> : l \in 0..(m.layers - 1)} : count(kind) = 1
        /\ count(<<"shared", -1>>) <= 1
        /\ \A i, j \in DOMAIN m.segments :
              same_path(m.segments[i], m.segments[j]) => i = j
        /\ Sum(LAMBDA s : s.tensor_count) <= MaxTensors
        /\ Sum(LAMBDA s : s.tensor_bytes) <= MaxWord
        /\ MapThenSumSet(LAMBDA i : m.segments[i].file_size, selected) <= MaxWord

\* map_package_file: the file is there, has the size of the manifest and, when
\* asked for, its digest.
map_package_file(package, s, plan) ==
    /\ s.path \in DOMAIN package.files
    /\ package.files[s.path].size = s.file_size
    /\ plan.verify => package.files[s.path] = s.sha256

\* Where the reader's cursor stands after the records of the first i tensors.
RecordCursors(records) ==
    LET cursor[i \in 0..Len(records)] ==
            IF i = 0 THEN SEGMENT_HEADER_SIZE
            ELSE align_up(cursor[i - 1] + TENSOR_RECORD_SIZE + records[i].length, 8)
    IN  cursor

ValidRecord(s, file, cursor, data_start, i) ==
    LET r == file.records[i]
        index_end == SEGMENT_HEADER_SIZE + file.index
        previous_data_end == IF i = 1 THEN data_start
                             ELSE file.records[i - 1].offset + file.records[i - 1].size
        rows == r.shape[2] * r.shape[3] * r.shape[4]
    IN  /\ range_fits(cursor[i - 1], TENSOR_RECORD_SIZE, index_end)
        /\ r.type \in DOMAIN StableTypes
        /\ r.block = jf_tensor_type_layout(r.type)
        /\ r.rank \in 1..4
        /\ r.length \in 1..1024
        /\ range_fits(cursor[i - 1] + TENSOR_RECORD_SIZE, r.length, index_end)
        /\ r.offset % ALIGNMENT = 0 /\ r.offset >= previous_data_end
        /\ range_fits(r.offset, r.size, file.size)
        /\ r.layer = s.kind[2]
        /\ \A d \in 1..4 : r.shape[d] # 0 /\ (d > r.rank => r.shape[d] = 1)
        /\ r.shape[1] % r.block.elements = 0
        /\ (r.shape[1] \div r.block.elements) * r.block.bytes * rows = r.size
        /\ AddFits(r.offset, r.size)

map_tensor_segment(package, s, plan) ==
    LET file == package.files[s.path]
        index_end == SEGMENT_HEADER_SIZE + file.index
        data_start == align_up(index_end, ALIGNMENT)
        cursor == RecordCursors(file.records)
    IN  /\ map_package_file(package, s, plan)
        /\ file.size >= SEGMENT_HEADER_SIZE
        /\ file.count = s.tensor_count /\ file.payload = s.tensor_bytes
        /\ range_fits(SEGMENT_HEADER_SIZE, file.index, file.size)
        /\ AlignFits(index_end, ALIGNMENT)
        /\ data_start <= file.size
        /\ \A i \in 1..file.count : ValidRecord(s, file, cursor, data_start, i)
        /\ cursor[file.count] = index_end
        /\ MapThenSumSet(LAMBDA i : file.records[i].size, 1..file.count) = s.tensor_bytes

\* The magic number is that of the source's first byte: every content that a source
\* may have is a GGUF here.
map_metadata_segment(package, s, plan) ==
    /\ map_package_file(package, s, plan)
    /\ package.files[s.path].size >= 4
    /\ package.files[s.path].data[1].at = 0

\* The bytes that a record of a file names.
DataAt(file, r) ==
    LET i == CHOOSE i \in DOMAIN file.records : file.records[i].offset = r.offset
    IN  file.data[i]

\* The opened model, None when opening fails: its tensors with their bytes, the
\* bytes of its metadata and the number of files it maps.
jf_model_open(package, plan) ==
    LET m == read_manifest(package)
        selected == {i \in DOMAIN m.segments : segment_selected(m.segments[i], plan, m.layers)}
        weights == {i \in selected : m.segments[i].kind[1] # "metadata"}
        File(i) == package.files[m.segments[i].path]
        Tensor(i, j) == [name |-> File(i).records[j].name, type |-> File(i).records[j].type,
                         shape |-> File(i).records[j].shape, layer |-> File(i).records[j].layer,
                         data |-> DataAt(File(i), File(i).records[j])]
        tensors == UNION {{Tensor(i, j) : j \in 1..File(i).count} : i \in weights}
    IN  IF /\ m # None
           /\ ManifestHeader(m, plan)
           /\ \A i \in DOMAIN m.segments : ManifestSegment(m, m.segments[i])
           /\ ManifestTopology(m, selected)
           /\ \A i \in weights : map_tensor_segment(package, m.segments[i], plan)
           /\ \A i \in selected \ weights : map_metadata_segment(package, m.segments[i], plan)
           /\ \A s, t \in tensors : s.name = t.name => s = t
           /\ Cardinality(tensors)
                = MapThenSumSet(LAMBDA i : m.segments[i].tensor_count, weights)
        THEN [tensors |-> tensors, mappings |-> selected, layers |-> m.layers,
              metadata |-> LET i == CHOOSE i \in selected \ weights : TRUE IN File(i).data[1]]
        ELSE None
==============================================================================
