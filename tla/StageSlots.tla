------------------------------ MODULE StageSlots ------------------------------
(***************************************************************************)
(* The shared sessions of adapters/llama_cpp_stage_adapter.cpp: with a     *)
(* decode batch size above one, all the sessions of a stage live in one    *)
(* llama.cpp context, each in a sequence slot of its own.  Every entry     *)
(* point holds the adapter's mutex, so one call is one step.               *)
(*                                                                         *)
(* A row of the key-value cache is the session that wrote it and its       *)
(* position.  What a session computes is left to StageSession.             *)
(***************************************************************************)
EXTENDS Integers, Sequences, FiniteSets, FiniteSetsExt, SequencesExt

CONSTANTS
    Sessions,      \* session identifiers of the generations
    MaxParallel,   \* max_parallel_sessions: sequence slots
    BatchSize,     \* decode_batch_size
    Lengths,       \* prompt lengths, zero for an empty prompt
    MaxTokens,     \* max_tokens of the requests
    Chunk,         \* llama_n_batch: tokens of one prefill chunk
    CtxSize,       \* context size of one session
    MaxInputs,     \* inputs of one execute_batch call
    MaxFaults      \* bound on calls in which something fails

SlotsConfig ==
    /\ {MaxParallel, BatchSize, MaxTokens, Chunk, CtxSize, MaxInputs} \subseteq Nat \ {0}
    /\ Lengths \subseteq Nat /\ MaxFaults \in Nat

VARIABLES
    stage,   \* the adapter: open sessions, slots in use, cache rows, context
    idle,    \* sessions unused for session_idle_ttl
    faults   \* calls that met a fault so far

vars == <<stage, idle, faults>>

Slots == 1..MaxParallel
Closed == [slot |-> 0, step |-> 0, next |-> 0]

IsOpen(st, x) == st.session[x] # Closed
OpenSessions(st) == {x \in Sessions : IsOpen(st, x)}

Init ==
    /\ stage = [session |-> [x \in Sessions |-> Closed],
                used |-> {}, rows |-> [q \in Slots |-> <<>>], context |-> FALSE]
    /\ idle = {}
    /\ faults = 0

-------------------------------------------------------------------------------
\* Slots.  Releasing one also removes its rows from the cache.

allocate_sequence(st) == IF Slots \subseteq st.used THEN 0 ELSE Min(Slots \ st.used)

\* Mutant: the rows stay in the cache.
release_sequenceKeepsRows(st, q) == [st EXCEPT !.used = @ \ {q}]
release_sequence(st, q) == [st EXCEPT !.used = @ \ {q}, !.rows[q] = <<>>]

close_session_locked(st, x) ==
    IF IsOpen(st, x)
    THEN [release_sequence(st, st.session[x].slot) EXCEPT !.session[x] = Closed]
    ELSE st

prune_expired_sessions_locked(st, gone) ==
    FoldSet(LAMBDA x, acc : close_session_locked(acc, x), st, gone)

WriteRows(st, q, x, first, count) ==
    [st EXCEPT !.rows[q] = @ \o [i \in 1..count |-> [by |-> x, pos |-> first + i - 1]]]

-------------------------------------------------------------------------------
\* Prefill.  An outcome is the stage it leaves and how the call ended: "ok",
\* "refused", "failed", or "thrown" when an exception left the function.

Outcome(st, end) == [stage |-> st, end |-> end]

\* Tokens decoded when chunk number k + 1 fails or the last one is done.
AfterChunks(length) == {Min({k * Chunk, length}) : k \in 0..length}

\* create_shared_context may throw before the first row, and a missing activation
\* row after any chunk.
run_shared_prefill(st, q, x, length) ==
    LET ready == [st EXCEPT !.context = TRUE]
    IN  IF length = 0 \/ length + MaxTokens - 1 > CtxSize THEN {Outcome(st, "refused")}
        ELSE {Outcome(WriteRows(ready, q, x, 0, length), "ok")}
             \cup {Outcome(WriteRows(ready, q, x, 0, n), "failed") : n \in AfterChunks(length)}
             \cup {Outcome(WriteRows(ready, q, x, 0, n), "thrown") : n \in AfterChunks(length) \ {0}}
             \cup IF st.context THEN {} ELSE {Outcome(st, "thrown")}

\* Tokenizing the prompt or reading the activation may throw as well.
execute_shared_prefill_locked(st, in) ==
    LET q == allocate_sequence(st)
        taken == [st EXCEPT !.used = @ \cup {q}]
        Ended(r) ==
            CASE r.end = "ok" ->
                   Outcome([r.stage EXCEPT !.session[in.session] =
                       [slot |-> q, step |-> 1, next |-> in.length]], "ok")
              [] r.end \in {"refused", "failed"} -> Outcome(release_sequence(r.stage, q), r.end)
              [] r.end = "thrown" -> r
    IN  IF IsOpen(st, in.session) \/ q = 0 THEN {Outcome(st, "refused")}
        ELSE {Ended(r) : r \in run_shared_prefill(taken, q, in.session, in.length)
                               \cup {Outcome(taken, "thrown")}}

-------------------------------------------------------------------------------
\* Decode: one row for every input that names an open session at its step, the
\* first one only when a batch names a session twice.

Current(st, in) ==
    /\ IsOpen(st, in.session)
    /\ in.step = st.session[in.session].step
    /\ st.session[in.session].next + 1 <= CtxSize

\* Mutant: a session named twice gets two rows.
ValidTwice(st, inputs) == {i \in DOMAIN inputs : Current(st, inputs[i])}
Valid(st, inputs) ==
    {i \in DOMAIN inputs :
        /\ Current(st, inputs[i])
        /\ \A j \in 1..(i - 1) : inputs[j].session = inputs[i].session => ~Current(st, inputs[j])}

Advance(st, x) ==
    [st EXCEPT !.session[x].next = @ + 1, !.session[x].step = @ + 1]

\* llama_decode writes all the rows or none; a row whose output is missing stays,
\* and its session does not move on.
decode_shared_rows(st, inputs, valid) ==
    LET Row(acc, i) ==
            LET s == st.session[inputs[i].session]
            IN  WriteRows(acc, s.slot, inputs[i].session, s.next, 1)
        written == FoldSet(LAMBDA i, acc : Row(acc, i), st, valid)
    IN  {Outcome(FoldSet(LAMBDA i, acc : Advance(acc, inputs[i].session), written, good),
                 IF good = valid THEN "ok" ELSE "failed") : good \in SUBSET valid}
        \cup {Outcome(st, "failed")}

execute_shared_decode_locked(st, inputs) ==
    LET valid == Valid(st, inputs)
    IN  IF valid = {} \/ Cardinality(valid) > BatchSize THEN {Outcome(st, "refused")}
        ELSE decode_shared_rows(st, inputs, valid)

\* A batch with a prefill in it runs input by input; an exception ends it and
\* what the inputs before it did stays.
RECURSIVE EachInput(_, _)
EachInput(st, inputs) ==
    IF inputs = <<>> THEN {Outcome(st, "ok")}
    ELSE UNION {IF r.end = "thrown" THEN {r}
                ELSE {IF r.end = "failed" THEN [rest EXCEPT !.end = "failed"] ELSE rest :
                         rest \in EachInput(r.stage, Tail(inputs))} :
                r \in IF Head(inputs).prefill
                      THEN execute_shared_prefill_locked(st, Head(inputs))
                      ELSE execute_shared_decode_locked(st, <<Head(inputs)>>)}

execute_shared_locked(st, inputs) ==
    IF \A i \in DOMAIN inputs : ~inputs[i].prefill
    THEN execute_shared_decode_locked(st, inputs)
    ELSE EachInput(st, inputs)

-------------------------------------------------------------------------------
\* Actions: the entry points of the adapter and its reaper thread.

\* A prefill of any length, or a decode at the session's step or the one before
\* (a call that arrives twice).
Inputs ==
    [prefill : {TRUE}, session : Sessions, length : Lengths, step : {0}]
    \cup {[prefill |-> FALSE, session |-> x, length |-> 1, step |-> stage.session[x].step - late] :
             x \in Sessions, late \in {0, 1}}

execute_batch(inputs) ==
    LET pruned == prune_expired_sessions_locked(stage, idle)
    IN  \E r \in execute_shared_locked(pruned, inputs) :
            /\ stage' = r.stage
            /\ idle' = {}
            /\ \/ r.end \in {"ok", "refused"} /\ faults' = faults
               \/ r.end \in {"failed", "thrown"} /\ faults < MaxFaults /\ faults' = faults + 1

close_session(x) ==
    /\ stage' = close_session_locked(stage, x)
    /\ idle' = idle \ {x}
    /\ UNCHANGED faults

rollback_session(x, count) ==
    LET s == stage.session[x]
    IN  /\ count < s.step /\ count <= s.next
        /\ stage' = [stage EXCEPT
               !.session[x].next = s.next - count,
               !.session[x].step = s.step - count,
               !.rows[s.slot] = SelectSeq(@, LAMBDA row : row.pos < s.next - count)]
        /\ idle' = idle \ {x}
        /\ UNCHANGED faults

\* session_idle_ttl passes without a call for the session.
Age(x) ==
    /\ IsOpen(stage, x) /\ x \notin idle
    /\ idle' = idle \cup {x}
    /\ UNCHANGED <<stage, faults>>

reap_sessions ==
    /\ idle # {}
    /\ stage' = prune_expired_sessions_locked(stage, idle)
    /\ idle' = {}
    /\ UNCHANGED faults

Next ==
    \/ \E n \in 1..MaxInputs : \E inputs \in [1..n -> Inputs] : execute_batch(inputs)
    \/ \E x \in Sessions : close_session(x)
    \/ \E x \in Sessions : \E count \in 1..CtxSize : rollback_session(x, count)
    \/ \E x \in Sessions : Age(x)
    \/ reap_sessions

Spec == Init /\ [][Next]_vars

-------------------------------------------------------------------------------
\* No generation attends to another one's rows: the slot of an open session is
\* its own, is in use and holds only rows that this session wrote, and a free
\* slot holds none, whatever failed before.  A slot in use without a session was
\* lost to a prefill that threw, one slot for each (release_sequence,
\* close_session_locked, prune_expired_sessions_locked,
\* execute_shared_prefill_locked).
SlotHoldsOwnRows ==
    /\ \A x \in OpenSessions(stage) :
          LET q == stage.session[x].slot
          IN  /\ q \in stage.used
              /\ \A i \in DOMAIN stage.rows[q] : stage.rows[q][i].by = x
    /\ \A x, y \in OpenSessions(stage) :
          x # y => stage.session[x].slot # stage.session[y].slot
    /\ \A q \in Slots \ stage.used : stage.rows[q] = <<>>
    /\ Cardinality(stage.used) <= Cardinality(OpenSessions(stage)) + faults

\* What a session counts is what its slot holds: every position below
\* next_position has a row, even when a batch names the session twice or the
\* output of a row was missing, and next_position is the prompt's length plus the
\* decode steps since, through failed rows and rollbacks
\* (execute_shared_decode_locked, decode_shared_rows, rollback_session_locked).
SessionMatchesCache ==
    \A x \in OpenSessions(stage) :
        LET s == stage.session[x]
        IN  /\ \A p \in 0..(s.next - 1) :
                  \E i \in DOMAIN stage.rows[s.slot] : stage.rows[s.slot][i].pos = p
            /\ s.next - (s.step - 1) \in Lengths \ {0}
===============================================================================
