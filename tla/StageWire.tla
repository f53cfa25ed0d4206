------------------------------ MODULE StageWire -------------------------------
(***************************************************************************)
(* A stage call on the wire: what the generation runner puts in a request, *)
(* the frame it travels in (protocol/stage.cpp, protocol/stage_control.hpp)*)
(* and what the peer's worker answers (pipeline_parallel/stage_worker.cpp, *)
(* engine/runtime_service.cpp, inference/stage.cpp).                       *)
(*                                                                         *)
(* The metadata of a frame is a JSON object: a function from the names of  *)
(* the fields that are present to their values.  A field with its default  *)
(* value is left out and put back by the reader.  Bytes are 0..255; an     *)
(* identifier is any value, "" when it is empty.                           *)
(***************************************************************************)
EXTENDS ActivationCodec, FiniteSets, SequencesExt

CONSTANTS MaxMetadataBytes, MaxPayloadBytes   \* limits of a frame

ASSUME FrameAssumption == MaxMetadataBytes \in Nat /\ MaxPayloadBytes \in Nat

-----------------------------------------------------------------------------
(* protocol/utf8.cpp *)

is_continuation(byte) == byte \in 128..191

sequence_width(lead) ==
    CASE lead \in 0..127 -> 1
      [] lead \in 194..223 -> 2
      [] lead \in 224..239 -> 3
      [] lead \in 240..244 -> 4
      [] OTHER -> 0   \* malformed

validate_sequence(text, offset, width) ==
    LET lead == text[offset + 1]
        second == text[offset + 2]
    IN /\ \A i \in 2..width : is_continuation(text[offset + i])
       /\ lead = 224 => second >= 160
       /\ lead = 237 => second <= 159
       /\ lead = 240 => second >= 144
       /\ lead = 244 => second <= 143

Malformed == -1

\* The bytes of text that are complete code points.
complete_utf8_prefix(text) ==
    LET from[offset \in 0..Len(text)] ==
            IF offset = Len(text) THEN offset
            ELSE LET width == sequence_width(text[offset + 1])
                 IN IF width = 0 THEN Malformed
                    ELSE IF Len(text) - offset < width THEN offset
                    ELSE IF width > 1 /\ ~validate_sequence(text, offset, width) THEN Malformed
                    ELSE from[offset + width]
    IN from[0]

is_valid_utf8(text) == complete_utf8_prefix(text) = Len(text)

-----------------------------------------------------------------------------
(* The CRC-32 of a payload; a register is the set of its bits that are set. *)

Polynomial == {31, 30, 29, 27, 26, 24, 23, 21, 20, 19, 15, 9, 8, 5}   \* 0xedb88320

Xor(a, b) == (a \ b) \cup (b \ a)

Bits(byte) == {b \in 0..7 : (byte \div 2^b) % 2 = 1}

\* The eight turns of the inner loop, on the low byte of the register.  They are
\* linear: the other bits are only shifted.
Turns ==
    LET Turn(crc) == Xor({b - 1 : b \in crc \ {0}}, IF 0 \in crc THEN Polynomial ELSE {})
        after[k \in 0..8, low \in SUBSET (0..7)] ==
            IF k = 0 THEN low ELSE Turn(after[k - 1, low])
    IN [low \in SUBSET (0..7) |-> after[8, low]]

crc32(payload) ==
    LET register[n \in 0..Len(payload)] ==
            IF n = 0 THEN 0..31
            ELSE LET crc == Xor(register[n - 1], Bits(payload[n]))
                 IN Xor({b - 8 : b \in crc \ (0..7)}, Turns[crc \cap (0..7)])
    IN (0..31) \ register[Len(payload)]

-----------------------------------------------------------------------------
(* Payloads *)

dtype_width(dtype) ==
    CASE dtype \in {"u8", "i8"} -> 1
      [] dtype \in {"f16", "bf16"} -> 2
      [] dtype \in {"i32", "u32", "f32"} -> 4
      [] dtype \in {"i64", "u64", "f64"} -> 8
      [] OTHER -> 0

\* The elements of a tensor, 0 when a dimension is not positive or they are too
\* many.
ElementCount(shape) ==
    FoldLeft(LAMBDA count, d : IF d <= 0 THEN 0
                               ELSE IF count > MaxPayloadBytes \div d THEN 0 ELSE count * d,
             1, shape)

NoTensor(p) == p.dtype = "" /\ p.shape = <<>> /\ p.byte_order = "" /\ p.layout = ""

TensorFits(p, size) ==
    /\ p.dtype # "" /\ p.shape # <<>>
    /\ p.byte_order = "little" /\ p.layout = "row_major"
    /\ dtype_width(p.dtype) # 0 /\ ElementCount(p.shape) # 0
    /\ ElementCount(p.shape) <= MaxPayloadBytes \div dtype_width(p.dtype)
    /\ ElementCount(p.shape) * dtype_width(p.dtype) = size

TensorKinds == {"tokens", "activation", "sampled_token", "sampled_tokens"}

\* What the wire asks of a message's payload.
validate_tensor_metadata(m) ==
    \/ m.payload_kind = "text" /\ m.encoding = "utf-8" /\ NoTensor(m)
    \/ m.payload_kind \in TensorKinds /\ TensorFits(m, Len(m.payload))

\* What the worker asks of the payload it runs, and of the one it answers.
validate_payload(p) ==
    \/ p.kind = "text" /\ p.encoding = "utf-8" /\ NoTensor(p)
    \/ /\ p.kind \in TensorKinds
       /\ p.encoding = "" /\ TensorFits(p, Len(p.bytes))
       /\ p.kind = "sampled_token" => ElementCount(p.shape) = 1
       /\ p.kind = "sampled_tokens" => ElementCount(p.shape) >= 2

validate_deployment_identity(m) ==
    \/ m.deployment_id = "" /\ m.deployment_epoch = 0 /\ m.model_sha256 = ""
    \/ m.deployment_id # "" /\ m.deployment_epoch # 0 /\ m.model_sha256 = "sha256"

Operations == {"execute", "close_session", "rollback_session"}

validate_stage_operation(operation, rollback_tokens) ==
    /\ operation \in Operations
    /\ operation = "rollback_session" => rollback_tokens > 0
    /\ operation # "rollback_session" => rollback_tokens = 0

validate_max_tokens(value) == value \in 1..1024

-----------------------------------------------------------------------------
(* Frames *)

DeploymentFields == {"deployment_id", "deployment_epoch", "model_sha256"}

Always == {"session_id", "request_id", "model_id", "phase", "decode_step",
           "stage_index", "stage_count", "node_name", "layer_start", "layer_end",
           "payload_kind"}

\* The values that are left out of a frame...
OmittedPayload == [encoding |-> "", dtype |-> "", shape |-> <<>>, byte_order |-> "",
                   layout |-> ""]
OmittedTelemetry ==
    [bytes_in |-> 0, bytes_out |-> 0, prompt_tokens |-> 0, prompt_token_ids |-> <<>>,
     completion_tokens |-> 0, execution_batch_size |-> 1, verification_width |-> 1,
     latency_ms |-> 0, execution_us |-> 0, activation_decode_us |-> 0,
     activation_encode_us |-> 0, stage_total_us |-> 0, error |-> "",
     token_text_offsets |-> <<>>, token_eog |-> <<>>]

\* ... and the ones its reader puts in the place of absent fields.
FallbackIdentity(m) ==
    [session_id |-> "", request_id |-> "", model_id |-> "",
     deployment_id |-> "", deployment_epoch |-> 0, model_sha256 |-> "",
     phase |-> IF "decode_step" \notin DOMAIN m \/ m["decode_step"] = 0
               THEN "prefill" ELSE "decode",
     decode_step |-> 0, stage_index |-> 0, stage_count |-> 1, node_name |-> "",
     layer_start |-> 0, layer_end |-> 0, payload_kind |-> ""]
FallbackPayload == [encoding |-> "", dtype |-> "", shape |-> <<>>, byte_order |-> "",
                    layout |-> ""]
\* Mutant: the widths fall back to 0, as the other numbers do.
FallbackTelemetryZero ==
    [OmittedTelemetry EXCEPT !.execution_batch_size = 0, !.verification_width = 0]
FallbackTelemetry ==
    [bytes_in |-> 0, bytes_out |-> 0, prompt_tokens |-> 0, prompt_token_ids |-> <<>>,
     completion_tokens |-> 0, execution_batch_size |-> 1, verification_width |-> 1,
     latency_ms |-> 0, execution_us |-> 0, activation_decode_us |-> 0,
     activation_encode_us |-> 0, stage_total_us |-> 0, error |-> "",
     token_text_offsets |-> <<>>, token_eog |-> <<>>]

Present(m, omitted) == {f \in DOMAIN omitted : m[f] # omitted[f]}

PresentDeployment(m) == IF m.deployment_id # "" THEN DeploymentFields ELSE {}

extract(body, fallback) ==
    [f \in DOMAIN fallback |-> IF f \in DOMAIN body THEN body[f] ELSE fallback[f]]

\* The size of the JSON text, an abstract count that grows with the lists in it.
MetadataBytes(body) ==
    LET lists == {"prompt_token_ids", "message", "message_bytes", "token_text_offsets",
                  "token_eog"} \cap DOMAIN body
    IN Cardinality(DOMAIN body) + SumFunction([f \in lists |-> Len(body[f])])

\* The strings that JSON can carry: sequences of the byte patterns of Unicode's
\* table of well-formed UTF-8.
Continuation == 128..191
CodePoints ==
    LET C == Continuation
    IN {<<0..127>>, <<194..223, C>>, <<{224}, 160..191, C>>, <<225..236, C, C>>,
        <<{237}, 128..159, C>>, <<238..239, C, C>>, <<{240}, 144..191, C, C>>,
        <<241..243, C, C, C>>, <<{244}, 128..143, C, C>>}

Matches(text, offset, code, n) == \A i \in 1..n : text[offset + i] \in code[i]

WellFormed(text) ==
    LET from[offset \in 0..Len(text)] ==
            \/ offset = Len(text)
            \/ \E code \in CodePoints :
                 /\ offset + Len(code) <= Len(text)
                 /\ Matches(text, offset, code, Len(code))
                 /\ from[offset + Len(code)]
    IN from[0]

Unframed == [ok |-> FALSE]

\* encode_frame_prefix with the payload behind it.  The header states both
\* lengths; size is what arrives, without the header.
encode_frame(body, payload) ==
    LET metadata_length == MetadataBytes(body)
        text == "message" \in DOMAIN body => WellFormed(body["message"])
    IN IF ~text \/ metadata_length > MaxMetadataBytes \/ Len(payload) > MaxPayloadBytes
       THEN Unframed
       ELSE [ok |-> TRUE, metadata_length |-> metadata_length,
             payload_length |-> Len(payload), body |-> body, payload_bytes |-> Len(payload),
             payload_crc32 |-> crc32(payload), payload |-> payload,
             size |-> metadata_length + Len(payload)]

decode_frame(frame) ==
    /\ frame.metadata_length \in 1..MaxMetadataBytes
    /\ frame.payload_length <= MaxPayloadBytes
    /\ frame.size = frame.metadata_length + frame.payload_length
    /\ frame.payload_bytes = frame.payload_length
    /\ frame.payload_crc32 = crc32(frame.payload)

RequestBody(request, operation) ==
    [operation |-> operation] @@
    [f \in Always \cup PresentDeployment(request) \cup Present(request, OmittedPayload)
           \cup {"max_tokens"} \cup Present(request, [rollback_tokens |-> 0]) |-> request[f]]

encode_stage_request_frame(request, operation) ==
    IF /\ validate_stage_operation(operation, request.rollback_tokens)
       /\ validate_max_tokens(request.max_tokens)
       /\ validate_tensor_metadata(request)
       /\ validate_deployment_identity(request)
    THEN encode_frame(RequestBody(request, operation), request.payload)
    ELSE Unframed

decode_stage_operation(frame) == frame.body["operation"]

decode_stage_request(frame) ==
    LET request == extract(frame.body, FallbackIdentity(frame.body) @@ FallbackPayload @@
                                       [max_tokens |-> 128, rollback_tokens |-> 0])
                     @@ [payload |-> frame.payload]
    IN IF /\ decode_frame(frame)
          /\ validate_deployment_identity(request)
          /\ validate_max_tokens(request.max_tokens)
          /\ validate_tensor_metadata(request)
       THEN [ok |-> TRUE, value |-> request] ELSE Unframed

\* A text that is not UTF-8 travels as a list of bytes.
MessageField(message) ==
    IF message = <<>> THEN <<>>
    ELSE IF is_valid_utf8(message) THEN [message |-> message] ELSE [message_bytes |-> message]

ResponseBody(response) ==
    [f \in Always \cup {"operation"} \cup PresentDeployment(response)
           \cup Present(response, OmittedPayload) \cup Present(response, OmittedTelemetry) |->
        response[f]] @@ MessageField(response.message)

WidthsArePositive(response) ==
    response.execution_batch_size > 0 /\ response.verification_width > 0

encode_stage_response_frame(response) ==
    IF /\ response.operation \in Operations
       /\ WidthsArePositive(response)
       /\ response.error = "" => validate_tensor_metadata(response)
       /\ validate_deployment_identity(response)
    THEN encode_frame(ResponseBody(response), response.payload)
    ELSE Unframed

decode_stage_response(frame) ==
    LET body == frame.body
        text == extract(body, [message |-> <<>>, message_bytes |-> <<>>])
        response == extract(body, [operation |-> ""] @@ FallbackIdentity(body) @@
                                  FallbackPayload @@ FallbackTelemetry)
                      @@ [payload |-> frame.payload,
                          message |-> IF text.message_bytes # <<>> THEN text.message_bytes
                                      ELSE text.message]
    IN IF /\ decode_frame(frame)
          /\ response.operation \in Operations
          /\ validate_deployment_identity(response)
          /\ WidthsArePositive(response)
          /\ \A i \in DOMAIN response.token_eog : response.token_eog[i] \in 0..1
          /\ response.error = "" => validate_tensor_metadata(response)
       THEN [ok |-> TRUE, value |-> response] ELSE Unframed

-----------------------------------------------------------------------------
(* The requests of the generation runner: a generation names its session, its *)
(* model, the deployment it was routed to (or none) and its stages.           *)

StageOf(generation, stage) ==
    [session_id |-> generation.session_id, model_id |-> generation.model_id,
     deployment_id |-> generation.deployment_id, model_sha256 |-> generation.model_sha256,
     deployment_epoch |-> generation.deployment_epoch] @@ stage

U32Bytes(values) ==
    [b \in 1..(4 * Len(values)) |->
        (values[((b - 1) \div 4) + 1] \div 2^(8 * ((b - 1) % 4))) % 2^8]

Text(bytes) ==
    [payload_kind |-> "text", encoding |-> "utf-8", dtype |-> "", shape |-> <<>>,
     byte_order |-> "", layout |-> "", payload |-> bytes]

TokenVector(kind, encoding, dtype, values) ==
    [payload_kind |-> kind, encoding |-> encoding, dtype |-> dtype,
     shape |-> <<Len(values)>>, byte_order |-> "little", layout |-> "row_major",
     payload |-> U32Bytes(values)]

\* initial_request with the stage that apply_stage writes into it.
initial_request(generation, stage, phase, decode_step, tokens) ==
    StageOf(generation, stage) @@
    [request_id |-> <<generation.request_id, phase, decode_step, stage.stage_index>>,
     phase |-> phase, decode_step |-> decode_step,
     max_tokens |-> generation.max_tokens, rollback_tokens |-> 0] @@
    (IF phase = "prefill" THEN Text(generation.prompt)
     ELSE TokenVector(IF Len(tokens) = 1 THEN "sampled_token" ELSE "tokens", "", "u32", tokens))

\* The request of the next stage carries what this one answered.
apply_response(request, response, stage) ==
    [f \in DOMAIN stage |-> stage[f]] @@
    [request_id |-> [request.request_id EXCEPT ![4] = stage.stage_index],
     payload_kind |-> response.payload_kind, encoding |-> response.encoding,
     dtype |-> response.dtype, shape |-> response.shape, byte_order |-> response.byte_order,
     layout |-> response.layout, payload |-> response.payload] @@ request

close_request(generation, stage) ==
    StageOf(generation, stage) @@ Text(<<>>) @@
    [request_id |-> <<generation.request_id, "close", 0, stage.stage_index>>,
     phase |-> "prefill", decode_step |-> 0, max_tokens |-> 1, rollback_tokens |-> 0]

\* The encoding keeps its initial value, and the payload is a token that nobody
\* reads.
rollback_request(generation, stage, count) ==
    StageOf(generation, stage) @@ TokenVector("sampled_token", "utf-8", "u32", <<0>>) @@
    [request_id |-> <<generation.request_id, "rollback", 0, stage.stage_index>>,
     phase |-> "decode", decode_step |-> 1, max_tokens |-> 1, rollback_tokens |-> count]

-----------------------------------------------------------------------------
(* The worker that holds a stage: its assignment, model and activation codec. *)

Payload(request) ==
    [kind |-> request.payload_kind, encoding |-> request.encoding, dtype |-> request.dtype,
     shape |-> request.shape, byte_order |-> request.byte_order, layout |-> request.layout,
     bytes |-> request.payload]

validate_request(worker, request) ==
    /\ request.session_id # "" /\ request.request_id # ""
    /\ request.model_id = worker.model_id
    /\ \A f \in DOMAIN worker.assignment : request[f] = worker.assignment[f]
    /\ request.phase # "" /\ request.payload_kind # ""

validate_stage_input(request) ==
    /\ request.stage_index \in 0..(request.stage_count - 1)
    /\ request.layer_end > request.layer_start /\ request.max_tokens > 0
    /\ request.phase = "prefill" => request.decode_step = 0
    /\ request.phase = "decode" => request.decode_step > 0

Failure(code) == [ok |-> FALSE, code |-> code]

\* The payload that the engine is given.
to_stage_input(worker, request) ==
    LET payload == Payload(request)
        decoded == IF payload.kind = "activation" THEN decode(worker.codec, payload)
                   ELSE [ok |-> TRUE, payload |-> payload]
    IN IF ~validate_request(worker, request) THEN Failure("invalid_stage_request")
       ELSE IF ~validate_payload(payload) THEN Failure("invalid_stage_input")
       ELSE IF ~decoded.ok THEN Failure("activation_decode_failed")
       ELSE IF ~validate_stage_input(request) \/ ~validate_payload(decoded.payload)
       THEN Failure("invalid_stage_input")
       ELSE decoded

\* The payload that leaves the worker.
to_stage_output(worker, output) ==
    LET encoded == IF output.payload.kind = "activation" THEN encode(worker.codec, output.payload)
                   ELSE [ok |-> TRUE, payload |-> output.payload]
    IN IF ~validate_payload(output.payload) THEN Failure("invalid_stage_output")
       ELSE IF ~encoded.ok THEN Failure("activation_encode_failed")
       ELSE IF ~validate_payload(encoded.payload) THEN Failure("invalid_stage_output")
       ELSE encoded

\* The identity of the call, with initial values in the other fields.
base_response(request, operation) ==
    [f \in Always \cup DeploymentFields |-> request[f]] @@ OmittedTelemetry @@
    [operation |-> operation, message |-> <<>>]

\* The request's description of its payload comes back without the payload.
stage_error_response(request, operation, code, message) ==
    [error |-> code, message |-> message, bytes_in |-> Len(request.payload)] @@
    base_response(request, operation) @@
    [f \in DOMAIN OmittedPayload |-> request[f]] @@ [payload |-> <<>>]

elapsed_ms(us) == us \div 1000

to_stage_response(request, output, payload, timings) ==
    timings @@
    [latency_ms |-> elapsed_ms(timings.execution_us), bytes_in |-> Len(request.payload), bytes_out |-> Len(payload.bytes),
     prompt_tokens |-> Len(output.prompt_token_ids),
     prompt_token_ids |-> output.prompt_token_ids,
     completion_tokens |-> output.completion_tokens,
     execution_batch_size |-> output.execution_batch_size,
     verification_width |-> output.verification_width,
     message |-> output.token_text, token_text_offsets |-> output.token_text_offsets,
     token_eog |-> output.token_eog,
     payload_kind |-> payload.kind, encoding |-> payload.encoding, dtype |-> payload.dtype,
     shape |-> payload.shape, byte_order |-> payload.byte_order, layout |-> payload.layout,
     payload |-> payload.bytes] @@ base_response(request, "execute")

close_response(request, operation, duration_us) ==
    Text(<<>>) @@ [bytes_in |-> Len(request.payload), latency_ms |-> elapsed_ms(duration_us),
                   stage_total_us |-> duration_us] @@
    base_response(request, operation)

\* What the clock showed.  The times are any; these are all different, so that none
\* is taken for another.
StageTimings(input, output) ==
    LET Activation(payload, us) == IF payload.kind = "activation" THEN us ELSE 0
    IN [execution_us |-> 4000, activation_decode_us |-> Activation(input, 2),
        activation_encode_us |-> Activation(output, 3), stage_total_us |-> 4009]

\* The answer of the worker; execution is what the engine makes of the input.
run_stage(worker, operation, request, execution) ==
    LET input == to_stage_input(worker, request)
        output == to_stage_output(worker, execution.output)
        Error(code) == stage_error_response(request, operation, code, <<>>)
    IN IF operation # "execute"
       THEN IF ~validate_request(worker, request) THEN Error("invalid_stage_request")
            ELSE IF ~execution.ok THEN Error(execution.code)
            ELSE close_response(request, operation, 1500)
       ELSE IF ~input.ok THEN Error(input.code)
       ELSE IF ~execution.ok
       THEN stage_error_response(request, operation, execution.code, execution.message)
       ELSE IF ~output.ok THEN Error(output.code)
       ELSE to_stage_response(request, execution.output, output.payload,
                              StageTimings(input.payload, output.payload))

-----------------------------------------------------------------------------
(* What an engine makes of its input. *)

Produced(payload, prompt, completed, batch, width, text, offsets, eog) ==
    [payload |-> payload, prompt_token_ids |-> prompt, completion_tokens |-> completed,
     execution_batch_size |-> batch, verification_width |-> width, token_text |-> text,
     token_text_offsets |-> offsets, token_eog |-> eog]

\* One row of floats for every token of the input.
ActivationOutput(rows, floats, prompt, batch) ==
    Produced([kind |-> "activation", encoding |-> "", dtype |-> "f32",
              shape |-> <<rows, Len(floats) \div rows>>, byte_order |-> "little", layout |-> "row_major",
              bytes |-> FloatBytes(floats)], prompt, 0, batch, 1, <<>>, <<>>, <<>>)

SampledPayload(kind, rows) ==
    Payload(TokenVector(kind, "", "i32", [i \in DOMAIN rows |-> rows[i].token]))

PieceOf(row) == IF row.eog THEN <<>> ELSE row.text

output_for_row(row, prompt, batch) ==
    Produced(SampledPayload("sampled_token", <<row>>), prompt, IF row.eog THEN 0 ELSE 1,
             batch, 1, PieceOf(row), <<>>, <<>>)

\* The texts of the rows in one message, with the offset where each one ends.
output_for_rows(rows) ==
    LET Upto(n) == FlattenSeq([i \in 1..n |-> PieceOf(rows[i])])
    IN Produced(SampledPayload("sampled_tokens", rows), <<>>,
                Len(SelectSeq(rows, LAMBDA r : ~r.eog)), 1, Len(rows), Upto(Len(rows)),
                [i \in DOMAIN rows |-> Len(Upto(i))],
                [i \in DOMAIN rows |-> IF rows[i].eog THEN 1 ELSE 0])

-----------------------------------------------------------------------------
(* What the runner reads from the answers. *)

validate_response_identity(request, response) ==
    \A f \in (Always \ {"payload_kind"}) \cup DeploymentFields : response[f] = request[f]

validate_response(request, response) ==
    /\ validate_response_identity(request, response)
    /\ LET last == request.stage_index = request.stage_count - 1
       IN \/ response.payload_kind = IF last THEN "sampled_token" ELSE "activation"
          \/ /\ request.phase = "decode" /\ last
             /\ request.shape # <<>> /\ request.shape[1] > 1
             /\ response.payload_kind = "sampled_tokens"

read_u32_le(payload, i) ==
    payload[4 * i - 3] + payload[4 * i - 2] * 2^8 + payload[4 * i - 1] * 2^16
        + payload[4 * i] * 2^24

\* The sampled rows: tokens, texts and whether they end the generation.
read_sampled_batch(response) ==
    LET count == Len(response.payload) \div 4
        offsets == <<0>> \o response.token_text_offsets
        Row(i) == [token |-> read_u32_le(response.payload, i),
                   text |-> SubSeq(response.message, offsets[i] + 1, offsets[i + 1]),
                   eog |-> response.token_eog[i] # 0]
    IN IF response.payload_kind = "sampled_token"
       THEN IF Len(response.payload) # 4 THEN Failure("invalid_sampled_token")
            ELSE [ok |-> TRUE, rows |->
                    << [token |-> read_u32_le(response.payload, 1), text |-> response.message,
                        eog |-> response.completion_tokens = 0] >>]
       ELSE IF \/ response.payload_kind # "sampled_tokens"
               \/ Len(response.payload) < 8 \/ Len(response.payload) % 4 # 0
               \/ Len(offsets) # count + 1 \/ Len(response.token_eog) # count
               \/ \E i \in 1..count : offsets[i + 1] \notin offsets[i]..Len(response.message)
               \/ offsets[count + 1] # Len(response.message)
       THEN Failure("invalid_sampled_token")
       ELSE [ok |-> TRUE, rows |-> [i \in 1..count |-> Row(i)]]
=============================================================================
