---------------------------- MODULE MCModelImport ----------------------------
(***************************************************************************)
(* ModelImport for two importers and four GGUFs: a Qwen2 model of two      *)
(* layers, one of one layer with a shared tensor, an output bias and other *)
(* quantizations, one whose long tensor names make the package overflow,   *)
(* and a shard of a split model.                                           *)
(***************************************************************************)
EXTENDS ModelImport

Dimensions(layers) ==
    [layers |-> layers, embedding |-> 32, feed_forward |-> 32, heads |-> 2, kv_heads |-> 1,
     context |-> 8]

Pad(shape) == SubSeq(shape \o <<1, 1, 1>>, 1, 4)
Tensor(name, place, layer, length, type, shape) ==
    [name |-> name, place |-> place, layer |-> layer, length |-> length, type |-> type,
     shape |-> Pad(shape)]

\* The tensors of a block, with names of this length.
All == <<"ffn_up", "attn_norm", "attn_q", "attn_q_bias", "attn_k", "attn_k_bias", "attn_v",
         "attn_v_bias", "attn_output", "ffn_norm", "ffn_gate", "ffn_down">>
Block(layer, names, length, type) ==
    LET p == Dimensions(1)
    IN  [i \in DOMAIN names |->
            Tensor(BlockName(layer, names[i]), "blk", layer, length,
                   IF Len(BlockShapes(p)[names[i]]) = 1 THEN "F32" ELSE type,
                   BlockShapes(p)[names[i]])]

\* A GGUF lays its tensors out one after the other, each at a multiple of 32.
Place(tensors, t) ==
    Append(tensors, [name |-> t.name, place |-> t.place, layer |-> t.layer, length |-> t.length,
                     type |-> t.type, shape |-> t.shape,
                     offset |-> IF tensors = <<>> THEN 0
                                ELSE LET last == Last(tensors)
                                     IN  last.offset + align_up(TensorSize(last.type, last.shape), 32)])
Gguf(id, layers, metadata, tensors) ==
    LET placed == FoldLeft(Place, <<>>, tensors)
        last == Last(placed)
    IN  [id |-> id, parses |-> TRUE, split |-> FALSE, layers |-> layers, metadata |-> metadata,
         size |-> metadata + last.offset + TensorSize(last.type, last.shape),
         hparams |-> Dimensions(layers), tensors |-> placed]

Embedding(type, words) ==
    <<Tensor(Global("token_embd.weight"), "token_embd", -1, 17, type, <<32, words>>)>>
Output(type, words) ==
    <<Tensor(Global("output_norm.weight"), "output_norm", -1, 18, "F32", <<32>>),
      Tensor(Global("output.weight"), "output", -1, 13, type, <<32, words>>)>>
Bias == <<Tensor(Global("output.bias"), "output", -1, 11, "F32", <<3>>)>>
Shared == <<Tensor(Global("rope_freqs.weight"), "other", -1, 17, "F32", <<8>>)>>

MCSources ==
    <<Gguf(1, 2, 96, Output("F16", 3) \o Block(0, All, 22, "Q4_0") \o Embedding("F16", 3)
                     \o Block(1, All, 22, "Q4_0")),
      Gguf(2, 1, 64, Embedding("Q8_0", 3) \o Block(0, All, 17, "Q4_1") \o Shared
                     \o Output("Q5_0", 3) \o Bias),
      Gguf(3, 2, 64, Embedding("F32", 2) \o Block(0, All, 400, "Q8_0") \o Block(1, All, 400, "Q8_0")
                     \o Output("F32", 2)),
      [Gguf(4, 2, 64, Embedding("F32", 2)) EXCEPT !.split = TRUE]>>

Symmetry == Permutations(Importers)
==============================================================================
