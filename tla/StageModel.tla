------------------------------ MODULE StageModel -----------------------------
(***************************************************************************)
(* What a native engine makes of a package when it opens its stage:        *)
(* TensorStore copies the selected tensors into backend memory             *)
(* (engines/native/src/tensor_store.cpp) and the Qwen2 architecture checks *)
(* the dimensions and that every tensor of its layer range is there with   *)
(* the right shape (qwen2_metadata.cpp, qwen2_architecture.cpp).           *)
(***************************************************************************)
EXTENDS JfmFormat

\* The dimensions read from the metadata: layers, embedding, feed_forward,
\* heads, kv_heads, context.  The checks of the RoPE and RMS values, which no tensor
\* depends on and which are the same for every stage, are left out.
validate_hparams(p) ==
    /\ \A f \in {"layers", "embedding", "feed_forward", "heads", "kv_heads", "context"} : p[f] # 0
    /\ p.embedding % p.heads = 0
    /\ p.heads % p.kv_heads = 0

\* Backend tensors by name.  A tensor takes the dimensions below its rank from the
\* package, 1 for the others; copying checks that its size agrees.
create_tensors(tensors) ==
    [name \in {t.name : t \in tensors} |->
        LET t == CHOOSE t \in tensors : t.name = name
        IN  [type |-> to_ggml_type(t.type),
             shape |-> [d \in 1..4 |-> IF d <= tensor_rank(t.shape) THEN t.shape[d] ELSE 1],
             data |-> t.data]]

copy_tensors(store) ==
    \A name \in DOMAIN store : TensorSize(store[name].type, store[name].shape) = store[name].data.size

\* TensorStore, None when it throws.
TensorStore(package, start, end) ==
    LET model == jf_model_open(package, [start |-> start, end |-> end, verify |-> TRUE])
    IN  IF model = None \/ ~copy_tensors(create_tensors(model.tensors)) THEN None
        ELSE [tensors |-> create_tensors(model.tensors), metadata |-> model.metadata]

vocabulary_size(store) ==
    IF Global("token_embd.weight") \in DOMAIN store THEN store[Global("token_embd.weight")].shape[2]
    ELSE IF Global("output.weight") \in DOMAIN store THEN store[Global("output.weight")].shape[2]
    ELSE 0

\* ggml counts the dimensions up to the last one that is not 1.
require_shape(store, name, expected) ==
    /\ name \in DOMAIN store
    /\ tensor_rank(store[name].shape) = Len(expected)
    /\ \A d \in DOMAIN expected : store[name].shape[d] = expected[d]

BlockShapes(p) ==
    LET e == p.embedding
        kv == (e \div p.heads) * p.kv_heads
        f == p.feed_forward
    IN  [attn_norm |-> <<e>>, attn_q |-> <<e, e>>, attn_q_bias |-> <<e>>,
         attn_k |-> <<e, kv>>, attn_k_bias |-> <<kv>>, attn_v |-> <<e, kv>>,
         attn_v_bias |-> <<kv>>, attn_output |-> <<e, e>>, ffn_norm |-> <<e>>,
         ffn_gate |-> <<e, f>>, ffn_up |-> <<e, f>>, ffn_down |-> <<f, e>>]

validate_qwen2_tensors(store, p, start, end) ==
    LET vocabulary == vocabulary_size(store)
    IN  /\ start < end /\ end <= p.layers
        /\ start = 0 => require_shape(store, Global("token_embd.weight"), <<p.embedding, vocabulary>>)
        /\ end = p.layers =>
              /\ require_shape(store, Global("output_norm.weight"), <<p.embedding>>)
              /\ require_shape(store, Global("output.weight"), <<p.embedding, vocabulary>>)
              /\ Global("output.bias") \in DOMAIN store =>
                    require_shape(store, Global("output.bias"), <<vocabulary>>)
        /\ \A layer \in start..(end - 1), tensor \in DOMAIN BlockShapes(p) :
              require_shape(store, BlockName(layer, tensor), BlockShapes(p)[tensor])

\* Whether the native engine starts with this range of the package.  Its metadata
\* has the dimensions of the content that it was copied from (load_qwen2_hparams),
\* hparams gives those of every content.
StageStarts(package, hparams, start, end) ==
    LET store == TensorStore(package, start, end)
    IN  /\ store # None
        /\ validate_hparams(hparams[store.metadata.of])
        /\ validate_qwen2_tensors(store.tensors, hparams[store.metadata.of], start, end)
==============================================================================
