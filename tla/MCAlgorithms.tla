----------------------------- MODULE MCAlgorithms -----------------------------
(***************************************************************************)
(* The pure algorithms of the system, each evaluated on a bounded set of   *)
(* inputs.  A behaviour picks an input in one or two steps and stops.      *)
(***************************************************************************)
EXTENDS ClusterPlan, DnsPacket, StageWire

VARIABLE case

Idle == [kind |-> "none"]

-----------------------------------------------------------------------------
(* Planning: a membership snapshot, then a policy and a model. *)

\* A fresh, idle runtime on host h; idle runtimes advertise no stage.
Healthy(n, h) ==
    [node |-> n, name |-> n, hostname |-> h, urlHost |-> n, valid |-> TRUE,
     fresh |-> TRUE, memory |-> 2, computes |-> {CPU, CUDA},
     assigned |-> FALSE, index |-> 0, count |-> 0, start |-> 0, end |-> 0,
     facts |-> 1, engine |-> LlamaCPP, llamaRev |-> TRUE, direct |-> TRUE,
     endpoint |-> TRUE, pipeline |-> TRUE, idle |-> TRUE, backend |-> CUDA,
     cuda |-> TRUE]

\* A runtime started with a stage of its own.
Serving(n, i, k, a, b) ==
    [Healthy(n, n) EXCEPT !.idle = FALSE, !.assigned = TRUE, !.index = i,
                          !.count = k, !.start = a, !.end = b]

MemberCases(n) ==
    {Healthy(n, n), Healthy(n, 1), Healthy(n, 0),
     [Healthy(n, n) EXCEPT !.fresh = FALSE],
     [Healthy(n, n) EXCEPT !.memory = 1],
     [Healthy(n, n) EXCEPT !.facts = 2],
     [Healthy(n, n) EXCEPT !.facts = 2, !.memory = 1],
     [Healthy(n, n) EXCEPT !.backend = CPU, !.cuda = FALSE],
     [Healthy(n, n) EXCEPT !.endpoint = FALSE],
     Serving(n, 0, 2, 0, 1), Serving(n, 1, 2, 1, 3), Serving(n, 0, 1, 0, 3),
     Serving(n, 1, 3, 1, 2)}

Snapshots == {<<a, b, c>> : a \in MemberCases(1), b \in MemberCases(2), c \in MemberCases(3)}

Policies == [colocated : BOOLEAN, stageCount : {0, 1, 2, 3},
             counts : {<<>>, <<2, 1>>, <<1, 2>>, <<1, 1, 1>>}]

Models == {[layers |-> l, memory |-> 2, compute |-> c, pipeline |-> TRUE,
            engines |-> {LlamaCPP, Native}, artifact |-> TRUE] :
              l \in {2, 3}, c \in {NilCompute, CUDA}}

TakeSnapshot ==
    /\ case = Idle
    /\ \E s \in Snapshots : case' = [kind |-> "snapshot", members |-> s]

PlanSnapshot ==
    /\ case.kind = "snapshot"
    /\ \E p \in Policies, m \in Models :
       \E preview \in {Preview(m, case.members, p)}, group \in {DeploymentGroup(m, case.members, p)} :
       \E narrowed \in {Preview(m, group, p)} :
         case' = [kind |-> "plan", members |-> case.members, policy |-> p, model |-> m,
                  preview |-> PreviewPipeline(m, preview),
                  plan |-> BuildDeploymentPlan(m, group, PreviewPipeline(m, narrowed))]

-----------------------------------------------------------------------------
(* mDNS: arbitrary short packets, and our packets cut at any byte. *)

Bytes == {0, 1, 2, 64, 65, 192}

Packets == UNION {[1..n -> Bytes] : n \in 0..5}

Texts == {<<>>, <<7>>, <<7, 8>>, <<8, 7, 7>>}   \* the last longer than MaxText

Services == {<< <<97>> >>, << <<97>>, <<98, 99>> >>, << <<98, 99, 99>>, <<>>, <<97>> >>}

ReadName ==
    /\ case = Idle
    /\ \E p \in Packets : \E o \in 0..Len(p) :
         case' = [kind |-> "name", packet |-> p, offset |-> o, result |-> readName(p, o)]

SendPacket ==
    /\ case = Idle
    /\ \E s \in Services, a, b, c \in Texts :
         case' = [kind |-> "mdns", service |-> s, records |-> <<a, b, c>>,
                  query |-> buildDNSQuery(s),
                  response |-> buildDNSResponse(s, s, << <<97>> >>, 80, <<a, b, c>>)]

-----------------------------------------------------------------------------
(* Stage calls: what a runner sends to the stages of a pass, one after another, *)
(* with any outcome of their engines.                                           *)

Generations ==
    {[session_id |-> "s", request_id |-> "r", model_id |-> "m", prompt |-> g.prompt,
      max_tokens |-> g.tokens, deployment_id |-> d.id, deployment_epoch |-> d.epoch,
      model_sha256 |-> d.sha] :
        g \in {[prompt |-> <<>>, tokens |-> 1], [prompt |-> <<65, 195, 169>>, tokens |-> 1024],
               [prompt |-> [i \in 1..9 |-> 65], tokens |-> 128]},
        d \in {[id |-> "", epoch |-> 0, sha |-> ""], [id |-> "d", epoch |-> 7, sha |-> "sha256"]}}

StageAt(i, count) ==
    [stage_index |-> i, stage_count |-> count, node_name |-> IF i = 0 THEN "a" ELSE "b",
     layer_start |-> 2 * i, layer_end |-> 2 * i + 2]

WorkerOf(stage, codec) == [assignment |-> stage, model_id |-> "m", codec |-> codec]

FloatOf(s, e, m) == [sign |-> s, exponent |-> e, mantissa |-> m]

SomeFloats == {FloatOf(0, 127, 0), FloatOf(1, 125, 2796203), FloatOf(0, 142, 8384512),
               FloatOf(1, 113, 8388607), FloatOf(0, 102, 1), FloatOf(0, 255, 0)}

Pieces == {<<>>, <<65>>, <<195>>, <<226, 130>>, <<195, 169, 65>>, <<237, 160, 128>>}

Rows == [token : {300}, text : Pieces, eog : {FALSE}] \cup
        {[token |-> 2, text |-> <<>>, eog |-> TRUE]}

Done(output) == [ok |-> TRUE, output |-> output]

\* What the engine of a stage may make of a request.
Executions(request, operation) ==
    LET last == request.stage_index = request.stage_count - 1
        first == request.stage_index = 0 /\ request.phase = "prefill"
        rows == IF request.shape = <<>> THEN 1 ELSE request.shape[1]
        prompts == IF first THEN {<<4>>, [i \in 1..30 |-> 4]} ELSE {<<>>}
    IN {[ok |-> FALSE, code |-> "engine_failed", message |-> m] : m \in {<<65>>, <<255>>}} \cup
       CASE operation # "execute" -> {[ok |-> TRUE]}
         [] operation = "execute" /\ ~last ->
              {Done(ActivationOutput(rows, <<f, FloatOf(1, 125, 2796203)>>, p, 2)) :
                  f \in SomeFloats, p \in prompts}
         [] operation = "execute" /\ last /\ rows > 1 ->
              {Done(output_for_rows(<<q, r>>)) : q, r \in Rows}
         [] operation = "execute" /\ last /\ rows = 1 ->
              {Done(output_for_row(r, p, b)) : r \in Rows, p \in prompts, b \in {1, 2}}

\* One call over the wire, from the request to the answer that the runner reads.
Called(generation, worker, operation, request) ==
    \E execution \in Executions(request, operation),
       frame \in {encode_stage_request_frame(request, operation)} :
    \E received \in {IF frame.ok THEN decode_stage_request(frame) ELSE Unframed} :
    \E response \in {IF received.ok
                      THEN run_stage(worker, operation, received.value, execution) ELSE <<>>} :
    \E reply \in {IF received.ok THEN encode_stage_response_frame(response) ELSE Unframed} :
    \E answer \in {IF reply.ok THEN decode_stage_response(reply) ELSE Unframed} :
      case' = [kind |-> "call", generation |-> generation, worker |-> worker,
               operation |-> operation, request |-> request, execution |-> execution,
               frame |-> frame, received |-> received, response |-> response,
               reply |-> reply, answer |-> answer]

CallStage ==
    /\ case = Idle
    /\ \E g \in Generations, count \in 1..2, codec \in {"f32", "f16"} :
       \E stage \in {StageAt(0, count)} :
       \E r \in {initial_request(g, stage, "prefill", 0, <<>>),
                 initial_request(g, stage, "decode", 1, <<300>>),
                 initial_request(g, stage, "decode", 3, <<300, 2>>)} :
         Called(g, WorkerOf(stage, codec), "execute", r)

\* The activations of this stage are the input of the next.
CallNextStage ==
    /\ case.kind = "call" /\ case.answer.ok
    /\ case.operation = "execute" /\ case.answer.value.error = ""
    /\ case.request.stage_index < case.request.stage_count - 1
    /\ \E stage \in {StageAt(case.request.stage_index + 1, case.request.stage_count)} :
         Called(case.generation, WorkerOf(stage, case.worker.codec), "execute",
                apply_response(case.request, case.answer.value, stage))

EndSession ==
    /\ case = Idle
    /\ \E g \in Generations, i \in 0..1 :
       \E stage \in {StageAt(i, 2)} :
         \/ Called(g, WorkerOf(stage, "f32"), "close_session", close_request(g, stage))
         \/ Called(g, WorkerOf(stage, "f32"), "rollback_session", rollback_request(g, stage, 2))

-----------------------------------------------------------------------------
(* Token texts and activations, at the edges of their formats. *)

Edges == {65, 128, 143, 144, 159, 160, 193, 194, 224, 237, 239, 240, 244, 245}

ReadText ==
    /\ case = Idle
    /\ \E n \in 0..4 : \E t \in [1..n -> Edges] :
         case' = [kind |-> "text", text |-> t, complete |-> complete_utf8_prefix(t)]

Mantissas == {m * 2^12 + d : m \in {0, 1, 2, 3, 4, 1022, 1023, 1024, 1025, 2044, 2045, 2046, 2047},
                             d \in {0, 1, 4095}}

ConvertFloat ==
    /\ case = Idle
    /\ \E s \in 0..1, e \in (0..1) \cup (100..114) \cup (126..128) \cup (140..144) \cup (254..255),
         m \in Mantissas :
         case' = [kind |-> "float", float |-> FloatOf(s, e, m),
                  half |-> float_to_half(FloatOf(s, e, m))]

ConvertHalf ==
    /\ case = Idle
    /\ \E s \in 0..1, e \in 0..31, m \in (0..17) \cup (500..520) \cup (1010..1023) :
       \E h \in {s * 2^15 + e * 2^10 + m} :
         case' = [kind |-> "half", half |-> h, float |-> half_to_float(h)]

-----------------------------------------------------------------------------
Init == case = Idle

Next == \/ TakeSnapshot \/ PlanSnapshot \/ ReadName \/ SendPacket
        \/ CallStage \/ CallNextStage \/ EndSession
        \/ ReadText \/ ConvertFloat \/ ConvertHalf

Spec == Init /\ [][Next]_case

-----------------------------------------------------------------------------
(* Planning *)

Planned == case.kind = "plan"

Stages == case.plan.stages

MemberOf(stage) == case.members[stage.node]

\* The fresh members that memberDeploymentCompatibility accepts.
Able == {m \in ToSet(case.members) :
           m.valid /\ m.fresh /\ memberDeploymentCompatibility(case.model, LlamaCPP, m)}

\* Those that agree with m, and the ones among them with enough memory.
Agreeing(m) == {o \in Able : compatibilityKey(case.model, o) = compatibilityKey(case.model, m)}
Fitting(m)  == {o \in Agreeing(m) : o.memory >= case.model.memory}

HostsOf(members) == {PhysicalHostID(m) : m \in members}

\* Every layer is held by exactly one stage of a valid route, in stage order,
\* and the planner never builds a route that its own validator refuses for its
\* ranges (buildStages against validateStagePlan).
LayersCoveredOnce ==
    /\ case.preview.reason \notin {"invalid_stage_indices", "invalid_layer_ranges"}
    /\ LET route == case.preview.stages IN
         case.preview.valid =>
           /\ \A l \in 0..(case.model.layers - 1) :
                Cardinality({i \in DOMAIN route : route[i].start <= l /\ l < route[i].end}) = 1
           /\ \A i, j \in DOMAIN route : i < j => route[i].end <= route[j].start

\* The preview of compatible members and NewDeploymentPlan agree on what is
\* valid: BuildDeploymentPlan is never refused after a valid preview.
ValidPreviewDeploys == case.plan.error \notin {"mode", "invalid plan"}

\* All stages of a plan run on fresh, idle runtimes that share the facts a
\* pipeline depends on, and the preferred compute backend when there is one.
PlanNodesAgree ==
    \A i \in DOMAIN Stages :
       LET m == MemberOf(Stages[i]) IN
       /\ m.fresh /\ m.idle /\ m.endpoint
       /\ m.facts = MemberOf(Stages[1]).facts
       /\ m.memory >= case.model.memory
       /\ Prefers(case.model) => m.backend = case.model.compute /\ m.cuda

\* Without a stage count there is a largest group of agreeing runtimes, whatever
\* their memory, such that the plan has one stage for each of its nodes with
\* enough memory, up to one per layer; there is no plan exactly when nobody is
\* able, nobody of that group has the memory, or the group has too few hosts and
\* colocation is not allowed.  An explicit count is the width of the plan, unless
\* a single node of the group has the memory.
Width ==
    LET count == policyStageCount(case.policy)
        Wanted(m) == IF Cardinality(Fitting(m)) < case.model.layers
                     THEN Cardinality(Fitting(m)) ELSE case.model.layers
        Enough(m) == Cardinality(HostsOf(Fitting(m))) >= Wanted(m)
    IN /\ Able = {} => Stages = <<>>
       /\ count > 0 =>
            \/ Len(Stages) \in {0, count}
            \/ Len(Stages) = 1 /\ Cardinality(Fitting(MemberOf(Stages[1]))) = 1
       /\ count = 0 /\ Able # {} =>
            \E m \in Able :
              /\ \A o \in Able : Cardinality(Agreeing(o)) <= Cardinality(Agreeing(m))
              /\ Len(Stages) = IF case.policy.colocated \/ Enough(m) THEN Wanted(m) ELSE 0
              /\ \A i \in DOMAIN Stages : MemberOf(Stages[i]) \in Fitting(m)

\* Two stages share a physical host only when the policy allows it, and then
\* only when the eligible hosts are too few (selectDistinctPhysicalHosts).
SpreadOverHosts ==
    Len(Stages) > 1 =>
      \/ \A i, j \in DOMAIN Stages : i # j => Stages[i].host # Stages[j].host
      \/ /\ case.policy.colocated
         /\ Cardinality(HostsOf(Fitting(MemberOf(Stages[1])))) < Len(Stages)

\* A plan covers every layer once with stages that can work together, is never
\* refused after a valid preview, is spread over as many hosts as it can be, and
\* has exactly the width that its group of agreeing runtimes allows.  That group
\* is chosen before anyone's memory is looked at, so the width may be less than
\* the memory-eligible nodes of another group would give, or none
\* (buildStages, validateStagePlan, NewDeploymentPlan, compatibleDeploymentMembers,
\* pipelinePreview).
PlanSound == Planned =>
    LayersCoveredOnce /\ ValidPreviewDeploys /\ PlanNodesAgree /\ Width /\ SpreadOverHosts

-----------------------------------------------------------------------------
(* mDNS *)

\* Reading a name ends on every packet, compression loops included, and what
\* it consumed lies inside the packet.
NameReadEnds ==
    /\ case.result.done
    /\ case.result.ok => /\ case.offset < case.result.next
                         /\ case.result.next <= Len(case.packet)

\* A peer reads from a response exactly the TXT strings that were put in, empty
\* ones dropped and long ones cut; a datagram cut short yields all of them or
\* none; queries and responses are never taken for each other; and no packet
\* keeps the reader of a name busy (parseTXTAnswers, packetAsksForService,
\* readName).
MembersSurviveTheWire ==
    /\ case.kind = "name" => NameReadEnds
    /\ case.kind = "mdns" =>
       LET sent == SelectSeq(case.records, LAMBDA r : r # <<>>)
           read == << [i \in DOMAIN sent |-> Cut(sent[i], MaxText)] >>
           plain == [i \in DOMAIN case.service |-> Cut(case.service[i], MaxLabel)] = case.service
       IN /\ parseTXTAnswers(case.response) = read
          /\ \A n \in 0..(Len(case.response) - 1) :
               parseTXTAnswers(SubSeq(case.response, 1, n)) = <<>>
          /\ ~packetAsksForService(case.response, case.service)
          /\ parseTXTAnswers(case.query) = <<>>
          /\ plain => packetAsksForService(case.query,
                                           SelectSeq(case.service, LAMBDA l : l # <<>>))

-----------------------------------------------------------------------------
(* Stage calls *)

\* The size of a half without its sign, in units of the last bit of a float with
\* exponent e; infinity counts as the power of two after the largest half.
SizeOfHalf(half, e) ==
    LET exponent == half \div 2^10
        m == half % 2^10
    IN IF exponent = 0 THEN m * 2^(126 - e) ELSE (2^10 + m) * 2^(exponent + 125 - e)

Distance(a, b) == IF a > b THEN a - b ELSE b - a

\* IEEE rounding: no other half is nearer, and of two at the same distance it is
\* the even one; a NaN stays one.
Nearest(float, half) ==
    LET e == float.exponent
        size == half % 2^15
        Off(h) == Distance(SizeOfHalf(h, e), float.mantissa + 2^23)
    IN /\ half \div 2^15 = float.sign
       /\ IF IsNaN(float) THEN size > Infinity
          ELSE IF e < 102 THEN size = 0
          ELSE IF e > 142 THEN size = Infinity
          ELSE /\ size <= Infinity
               /\ \A h \in {size - 1, size + 1} \cap (0..Infinity) :
                    Off(size) < Off(h) \/ (Off(size) = Off(h) /\ size % 2 = 0)

\* Every half has a float, and the float gives it back; a NaN comes back quiet.
HalfReturns ==
    float_to_half(case.float) =
        IF case.half % 2^15 > Infinity /\ case.half % 2^10 < 2^9
        THEN case.half + 2^9 ELSE case.half

\* Complete code points are told from the beginning of one that is still to
\* come, and what is refused can be completed by nothing.
TextCutAtCodePoint ==
    LET text == case.text
        cut == case.complete
        Rest(n) == SubSeq(text, n + 1, Len(text))
        Begun(rest) == \E code \in CodePoints :
                          Len(rest) < Len(code) /\ Matches(rest, 0, code, Len(rest))
    IN IF cut = Malformed
       THEN \A n \in 0..Len(text) : ~(WellFormed(SubSeq(text, 1, n)) /\ Begun(Rest(n)))
       ELSE /\ WellFormed(SubSeq(text, 1, cut))
            /\ Len(text) - cut < 4
            /\ \A n \in (cut + 1)..Len(text) : ~WellFormed(SubSeq(text, 1, n))

\* A changed byte of the payload, or a frame cut short, is never accepted.
DamageIsSeen(frame) ==
    /\ ~decode_frame([frame EXCEPT !.size = @ - 1])
    /\ \A i \in DOMAIN frame.payload :
         \A byte \in {(frame.payload[i] + d) % 256 : d \in {1, 77, 128}} :
           ~decode_frame([frame EXCEPT !.payload = [@ EXCEPT ![i] = byte]])

\* The worker of the stage gets the request that the runner made and does not
\* refuse it.
RequestArrives ==
    /\ case.frame.ok <=> Len(case.request.payload) <= MaxPayloadBytes
    /\ case.frame.ok =>
         /\ case.received = [ok |-> TRUE, value |-> case.request]
         /\ decode_stage_operation(case.frame) = case.operation
         /\ DamageIsSeen(case.frame)
         /\ case.response.error = IF case.execution.ok THEN "" ELSE case.execution.code

\* The rows that the last stage sampled.
RowsRead ==
    LET sent == case.execution.output
        got == read_sampled_batch(case.answer.value)
    IN /\ got.ok
       /\ FlattenSeq([i \in DOMAIN got.rows |-> got.rows[i].text]) = sent.token_text
       /\ U32Bytes([i \in DOMAIN got.rows |-> got.rows[i].token]) = sent.payload.bytes
       /\ sent.token_eog # <<>> =>
            /\ [i \in DOMAIN got.rows |-> got.rows[i].eog] =
                    [i \in DOMAIN sent.token_eog |-> sent.token_eog[i] = 1]
            /\ \A i \in DOMAIN got.rows : got.rows[i].eog => got.rows[i].text = <<>>

\* What the engine of the next stage is given for the activations of this one.
ActivationArrives ==
    LET next == StageAt(case.request.stage_index + 1, case.request.stage_count)
        input == to_stage_input(WorkerOf(next, case.worker.codec),
                                apply_response(case.request, case.answer.value, next))
        sent == Floats(case.execution.output.payload.bytes)
    IN /\ input.ok
       /\ input.payload.shape = case.execution.output.payload.shape
       /\ LET got == Floats(input.payload.bytes)
          IN IF case.worker.codec = "f32" THEN got = sent
             ELSE /\ Len(got) = Len(sent)
                  /\ \A i \in DOMAIN sent : Nearest(sent[i], float_to_half(got[i]))

\* The runner gets the answer of the worker, errors included; only an answer
\* with more metadata than fits a frame is lost.
AnswerArrives ==
    /\ case.reply.ok <=> MetadataBytes(ResponseBody(case.response)) <= MaxMetadataBytes
    /\ case.reply.ok =>
         /\ case.answer = [ok |-> TRUE, value |-> case.response]
         /\ case.response.operation = case.operation
         /\ validate_response_identity(case.request, case.answer.value)
         /\ DamageIsSeen(case.reply)
         /\ case.operation = "execute" /\ case.execution.ok =>
              /\ validate_response(case.request, case.answer.value)
              /\ IF case.request.stage_index = case.request.stage_count - 1
                 THEN RowsRead ELSE ActivationArrives

\* What a stage computed is what the runner and the next stage work with: a
\* request reaches the engine as it was made, and the answer comes back as it
\* was given, with defaults left out of the frames, texts that are not UTF-8 and
\* activations rounded to the nearest half (encode_stage_request_frame,
\* decode_stage_response, complete_utf8_prefix, F16ActivationCodec).
AnswersSurviveTheWire ==
    /\ case.kind = "call" => RequestArrives /\ (case.received.ok => AnswerArrives)
    /\ case.kind = "text" => TextCutAtCodePoint
    /\ case.kind = "float" => Nearest(case.float, case.half)
    /\ case.kind = "half" => HalfReturns
=============================================================================
