----------------------------- MODULE NativeStage -----------------------------
(***************************************************************************)
(* One stage of the native engine: the sessions of                         *)
(* adapters/native_stage_executor.cpp and, under each of them, the         *)
(* key-value cache of a Qwen2Session                                       *)
(* (engines/native/src/qwen2_architecture.cpp).  Every entry point holds   *)
(* the executor's mutex, so one call is one step.                          *)
(*                                                                         *)
(* A cache has physical rows, as many as the session may ever need, or     *)
(* more where flash attention wants an aligned number.  The keys of a      *)
(* position are one row of the key tensor; its values lie in KvLength      *)
(* cells of the value tensor, which is stored transposed.  Nothing is ever *)
(* erased: a rollback moves the position back over rows that stay, and a   *)
(* failed computation leaves whatever it wrote.  What a pass reads is      *)
(* decided by the attention mask alone.                                    *)
(*                                                                         *)
(* A row stands for the token it was computed from; a row of another       *)
(* history is Garbage and a cleared one Blank.  An activation is a record  *)
(* [tokens, basis] as in StageSession, which states what a session of any  *)
(* engine promises.                                                        *)
(***************************************************************************)
EXTENDS Integers, Sequences

CONSTANTS
    SessionIds,  \* session identifiers of the generations
    Vocab,       \* the tokens of the model
    MaxTokens,   \* max_tokens of the requests
    CtxSize,     \* context size the stage was configured with
    Context,     \* context_length of the model
    Alignment,   \* kFlashAttentionKvAlignment
    KvLength     \* cells of one position in the value tensor

ASSUME NativeAssumption ==
    /\ {MaxTokens, CtxSize, Context, Alignment, KvLength} \subseteq Nat \ {0}
    /\ CtxSize <= Context   \* checked by the constructor of the executor

VARIABLES
    config,    \* the assignment, the attention kernel, and who drives the engine
    sessions,  \* session of every identifier, Closed without one
    direct     \* the generation of NativeEngine::generate

vars == <<config, sessions, direct>>

\* What a session of a stage engine promises.
Session == INSTANCE StageSession WITH
    EOG <- "eog", Prompt <- <<CHOOSE t \in Vocab : TRUE>>, Stages <- 2, MaxDraft <- 0

Garbage == Session!Garbage
Blank == "blank"

Closed == [capacity |-> 0, rows |-> 0, position |-> 0, prefilled |-> 0, step |-> 0,
           key |-> <<>>, value |-> <<>>]
IsOpen(s) == s.step > 0

NoPayload == [tokens |-> <<>>, basis |-> <<>>]

Init ==
    /\ config \in [first : BOOLEAN, flash : BOOLEAN, serving : BOOLEAN]
    /\ ~config.serving => config.first   \* generate needs the full model
    /\ sessions = [x \in SessionIds |-> Closed]
    /\ direct = [session |-> Closed, tokens |-> <<>>, left |-> 0]

-----------------------------------------------------------------------------
\* The cache.

physical_cache_capacity(capacity) ==
    LET aligned == ((capacity + Alignment - 1) \div Alignment) * Alignment
    IN  IF ~config.flash THEN capacity
        ELSE IF aligned < Context THEN aligned ELSE Context

allocate_cache(rows) ==
    [key |-> [p \in 0..(rows - 1) |-> Blank],
     value |-> [c \in 0..(rows * KvLength - 1) |-> Blank]]

\* The session of create_session: an empty, cleared cache.
create_session(capacity) ==
    LET rows == physical_cache_capacity(capacity)
        cache == allocate_cache(rows)
    IN  [Closed EXCEPT !.capacity = capacity, !.rows = rows,
                       !.key = cache.key, !.value = cache.value]

\* Element e of position p in the value tensor.
\* Mutant: the logical capacity as the stride.
logical_cache_indices(s, p, e) == p + s.capacity * e
build_value_cache_indices(s, p, e) == p + s.rows * e

\* The cells that hold the values of the n positions from p on.
ValueCells(s, p, n) ==
    {build_value_cache_indices(s, q, e) : q \in p..(p + n - 1), e \in 0..(KvLength - 1)}

\* The row that a reader of position p finds.
RowAt(s, p) ==
    IF \A e \in 0..(KvLength - 1) : s.value[p + s.rows * e] = s.key[p]
    THEN s.key[p] ELSE Garbage

\* Both tensors after the rows of a pass from position p on were stored.
SetRows(s, p, rows) ==
    [s EXCEPT
        !.key = [q \in DOMAIN s.key |->
            IF q \in p..(p + Len(rows) - 1) THEN rows[q - p + 1] ELSE s.key[q]],
        !.value = [c \in DOMAIN s.value |->
            IF c \in ValueCells(s, p, Len(rows))
            THEN rows[CHOOSE i \in DOMAIN rows : c \in ValueCells(s, p + i - 1, 1)]
            ELSE s.value[c]]]

\* The keys that a query attends to, of a graph over length keys.
build_attention_mask(position, query, length) ==
    {key \in 0..(length - 1) : ~(key > position + query)}

\* The earlier rows that a pass from p on reads.
Attended(s, p, length) ==
    [i \in {key + 1 : key \in build_attention_mask(p, 0, length) \ {p}} |-> RowAt(s, i - 1)]

\* What a session holds.
Held(s) == [i \in 1..s.position |-> RowAt(s, i - 1)]

-----------------------------------------------------------------------------
\* A forward pass.  Results are records [session, ok, out].

Refused(s) == [session |-> s, ok |-> FALSE, out |-> NoPayload]
Done(s, out) == [session |-> s, ok |-> TRUE, out |-> out]

\* An activation of another history yields rows of none.
Continues(s, payload, p, length) == config.first \/ payload.basis = Attended(s, p, length)

\* The rows of a graph end within its keys.
set_inputs(count, p, length) == p + count <= length

\* ForwardGraph::compute over a graph of length keys.
compute(s, payload, p, length) ==
    LET goes == Continues(s, payload, p, length)
    IN  IF ~set_inputs(Len(payload.tokens), p, length) THEN Refused(s) ELSE
        Done(SetRows(s, p, [i \in DOMAIN payload.tokens |->
                                IF goes THEN payload.tokens[i] ELSE Garbage]),
             [tokens |-> payload.tokens,
              basis |-> IF goes THEN Attended(s, p, length) ELSE <<Garbage>>])

\* A computation that fails may have stored any part of its row: its key, or not,
\* and some cells of its values.
Spoilt(s, k, cells) ==
    [s EXCEPT
        !.key = [q \in DOMAIN s.key |-> IF k /\ q = s.position THEN Garbage ELSE s.key[q]],
        !.value = [c \in DOMAIN s.value |-> IF c \in cells THEN Garbage ELSE s.value[c]]]
FailedDecodes(s) ==
    {Refused(Spoilt(s, k, cells)) :
        k \in BOOLEAN, cells \in SUBSET ValueCells(s, s.position, 1)}

\* The position moves once the rows are computed.
run_stage_prefill(s, payload) ==
    LET n == Len(payload.tokens)
        r == compute(s, payload, 0, n)
    IN  IF r.ok THEN Done([r.session EXCEPT !.position = n, !.prefilled = n], r.out) ELSE r

\* The decode graph covers all the physical rows.
run_stage_decode(s, payload) ==
    LET r == compute(s, payload, s.position, s.rows)
    IN  IF r.ok THEN Done([r.session EXCEPT !.position = s.position + 1], r.out) ELSE r

validate_prefill_count(s, count) == s.position = 0 /\ count \in 1..s.capacity
validate_decode(s) == s.position > 0 /\ s.position < s.capacity

prefill_stage(s, payload) ==
    IF validate_prefill_count(s, Len(payload.tokens))
    THEN run_stage_prefill(s, payload) ELSE Refused(s)

decode_stage(s, payload) ==
    IF Len(payload.tokens) = 1 /\ validate_decode(s)
    THEN run_stage_decode(s, payload) ELSE Refused(s)

\* Qwen2Session::rollback: the position moves back, the rows stay.
rollback(s, count) ==
    IF count = 0 \/ count > s.position - s.prefilled THEN Refused(s)
    ELSE Done([s EXCEPT !.position = s.position - count], NoPayload)

-----------------------------------------------------------------------------
\* The executor.

session_capacity(count) == count + MaxTokens - 1

\* NativeEngine::create_session
ValidCapacity(capacity) == capacity \in 1..Context

\* A session is kept only when its prefill succeeded and its output was usable.
prefill(s, payload) ==
    LET capacity == session_capacity(Len(payload.tokens))
        done == prefill_stage(create_session(capacity), payload)
    IN  IF IsOpen(s) \/ capacity > CtxSize \/ ~ValidCapacity(capacity) \/ ~done.ok
        THEN {Refused(s)}
        ELSE {Refused(s), Done([done.session EXCEPT !.step = 1], done.out)}

\* The step moves with the position, before the output is made.
\* Mutant: the step moves after the output was made.
decodeStepLast(s, payload, step) ==
    LET done == decode_stage(s, payload)
    IN  IF ~IsOpen(s) \/ step # s.step \/ ~done.ok THEN {Refused(s)}
        ELSE {Done([done.session EXCEPT !.step = step + 1], done.out), Refused(done.session)}
             \cup FailedDecodes(s)
decode(s, payload, step) ==
    LET done == decode_stage(s, payload)
        moved == [done.session EXCEPT !.step = step + 1]
    IN  IF ~IsOpen(s) \/ step # s.step \/ ~done.ok THEN {Refused(s)}
        ELSE {Done(moved, done.out), Refused(moved)} \cup FailedDecodes(s)

\* A call that does not fit the stage is refused before anything else.
execute(s, results) == {Refused(s)} \cup results

rollback_result(s, count) ==
    LET back == rollback(s, count)
    IN  IF ~IsOpen(s) \/ count >= s.step \/ ~back.ok THEN Refused(s)
        ELSE Done([back.session EXCEPT !.step = s.step - count], NoPayload)

close(s) == Done(Closed, NoPayload)

-----------------------------------------------------------------------------
\* Actions: the entry points.

\* Up to one token more than fits.
Prompts == UNION {[1..n -> Vocab] : n \in 0..(CtxSize - MaxTokens + 2)}

\* A payload of a later stage comes with the rows it continues, those of this
\* stage or others.
Prefills == [tokens : Prompts, basis : {<<>>, <<Garbage>>}]
Decodes(s) == [tokens : {<<t>> : t \in Vocab} \cup {<<t, t>> : t \in Vocab},
               basis : {Held(s), <<Garbage>>}]

\* The step that is due, or the one before (a call that arrives twice).
Steps(s) == {s.step - 1, s.step}

Becomes(x, results) ==
    /\ \E r \in results : sessions' = [sessions EXCEPT ![x] = r.session]
    /\ UNCHANGED <<config, direct>>

execute_prefill(x) ==
    \E payload \in Prefills : Becomes(x, execute(sessions[x], prefill(sessions[x], payload)))

execute_decode(x) ==
    \E payload \in Decodes(sessions[x]), step \in Steps(sessions[x]) :
        Becomes(x, execute(sessions[x], decode(sessions[x], payload, step)))

rollback_session(x) ==
    \E count \in 0..MaxTokens : Becomes(x, {rollback_result(sessions[x], count)})

close_session(x) == Becomes(x, {close(sessions[x])})

-----------------------------------------------------------------------------
\* NativeEngine::generate, which the benchmarks call instead of the executor.
\* The engine keeps its session from one generation to the next when the
\* capacity is the same.

reset(s) == [s EXCEPT !.position = 0, !.prefilled = 0]

reset_session(required) ==
    reset(IF direct.session.capacity = required THEN direct.session
          ELSE create_session(required))

\* The sampled token is any.  A computation that fails ends the generation; one
\* over the prompt leaves nothing or spoils its rows.
prefill_greedy(prompt, required) ==
    LET s == reset_session(required)
        n == s.position + Len(prompt)
        r == compute(s, [tokens |-> prompt, basis |-> <<>>], 0, Len(prompt))
        spoilt == SetRows(s, 0, [i \in DOMAIN prompt |-> Garbage])
    IN  {[session |-> f, tokens |-> <<>>, left |-> 0] : f \in {s, spoilt}}
        \cup {[session |-> [r.session EXCEPT !.position = n, !.prefilled = n],
              tokens |-> Append(prompt, t), left |-> required - Len(prompt)] :
              t \in {t \in Vocab : r.ok /\ validate_prefill_count(s, Len(prompt))}}

\* Mutant: the first token is the input of every pass.
decode_greedyFront ==
    LET s == direct.session
        r == compute(s, [tokens |-> <<Head(direct.tokens)>>, basis |-> <<>>],
                     s.position, s.rows)
    IN  {[session |-> f.session, tokens |-> <<>>, left |-> 0] : f \in FailedDecodes(s)}
        \cup {[session |-> [r.session EXCEPT !.position = s.position + 1],
              tokens |-> Append(direct.tokens, t), left |-> direct.left - 1] :
              t \in {t \in Vocab : r.ok /\ validate_decode(s)}}
decode_greedy ==
    LET s == direct.session
        r == compute(s, [tokens |-> <<direct.tokens[Len(direct.tokens)]>>, basis |-> <<>>],
                     s.position, s.rows)
    IN  {[session |-> f.session, tokens |-> <<>>, left |-> 0] : f \in FailedDecodes(s)}
        \cup {[session |-> [r.session EXCEPT !.position = s.position + 1],
              tokens |-> Append(direct.tokens, t), left |-> direct.left - 1] :
              t \in {t \in Vocab : r.ok /\ validate_decode(s)}}

generate ==
    /\ direct.left = 0
    /\ \E prompt \in Prompts \ {<<>>}, max_tokens \in 1..MaxTokens :
        /\ Len(prompt) + max_tokens - 1 <= Context
        /\ direct' \in prefill_greedy(prompt, Len(prompt) + max_tokens - 1)
    /\ UNCHANGED <<config, sessions>>

generate_next ==
    /\ direct.left > 0
    /\ direct' \in decode_greedy
    /\ UNCHANGED <<config, sessions>>

release_session ==
    /\ direct.left = 0
    /\ direct' = [direct EXCEPT !.session = Closed]
    /\ UNCHANGED <<config, sessions>>

Serve(x) ==
    \/ execute_prefill(x) \/ execute_decode(x)
    \/ rollback_session(x) \/ close_session(x)

Next ==
    \/ config.serving /\ \E x \in SessionIds : Serve(x)
    \/ ~config.serving /\ (generate \/ generate_next \/ release_session)

Spec == Init /\ [][Next]_vars

-----------------------------------------------------------------------------
\* The session that StageSession speaks of: the rows that a pass would read.
Abstract(s) == [cache |-> Held(s), step |-> s.step]
Promised(results, allowed) ==
    \A r \in results : [session |-> Abstract(r.session), ok |-> r.ok, out |-> r.out] \in allowed

\* The native engine keeps the promise of every stage engine: whatever was rolled
\* back over, left by a failed computation or never written, a call reads and
\* leaves the rows of the session's own history and nothing else, and ends as
\* StageSession allows (build_attention_mask, build_value_cache_indices,
\* Qwen2Session::rollback, NativeStageExecutor::decode).
ImplementsSession ==
    \A x \in SessionIds :
        LET s == sessions[x]
            at == IF config.first THEN 1 ELSE 2
        IN  /\ \A payload \in Prefills :
                  Promised(execute(s, prefill(s, payload)),
                           Session!StageWorkerRun(Abstract(s),
                               Session!prefill(at, Abstract(s), payload)))
            /\ \A payload \in Decodes(s), step \in Steps(s) :
                  Promised(execute(s, decode(s, payload, step)),
                           Session!StageWorkerRun(Abstract(s),
                               Session!decode(at, Abstract(s), payload, step)))
            /\ \A count \in 0..MaxTokens :
                  Promised({rollback_result(s, count)}, Session!rollback_session(Abstract(s), count))
            /\ Abstract(close(s).session) = Session!close_session(Abstract(s)).session

\* The step that a session expects counts the rows it decoded, through failed
\* outputs, failed computations and rollbacks, so the positions that its prefill
\* reserved suffice for all the tokens that were asked for, and the cache has a
\* row for each (session_capacity, physical_cache_capacity, decode).
StepsFit ==
    \A x \in SessionIds : LET s == sessions[x] IN IsOpen(s) =>
        /\ s.position - s.prefilled = s.step - 1
        /\ s.step < MaxTokens => s.position < s.capacity
        /\ s.capacity <= s.rows

\* A session that is used again for the next generation has kept the rows of the
\* last one, and those of computations that failed, and the next pass attends to
\* none of them: it reads the prompt and the tokens sampled since, all but the
\* last, which is its input (reset_session, build_attention_mask, generate).
DirectReadsOwnTokens ==
    direct.left > 0 =>
        LET s == direct.session
        IN  Attended(s, s.position, s.rows) = SubSeq(direct.tokens, 1, Len(direct.tokens) - 1)
=============================================================================
