----------------------------- MODULE StageSession -----------------------------
(***************************************************************************)
(* The session that one stage engine keeps for one generation, and what an *)
(* execute, a rollback or a close does to it: the serial sessions of       *)
(* adapters/llama_cpp_stage_adapter.cpp and the stage worker in front of   *)
(* them.  An engine runs one call at a time (its mutex).                   *)
(*                                                                         *)
(* A session is its key-value cache and the decode step it expects.  The   *)
(* cache is the sequence of tokens whose rows were computed; a row that    *)
(* was computed from an activation of another history is Garbage.  An      *)
(* activation is a record [tokens, basis]: the rows, and the cache of the  *)
(* first stage that they continue.                                         *)
(***************************************************************************)
EXTENDS Integers, Sequences

CONSTANTS
    Vocab,      \* the tokens of the model
    EOG,        \* the end-of-generation token
    Prompt,     \* the tokens of the prompt
    MaxTokens,  \* max_tokens of the request
    CtxSize,    \* context size of the engines
    Stages,     \* number of stages
    MaxDraft    \* speculative_max_tokens; 0 without a draft strategy

ASSUME SessionAssumption ==
    /\ EOG \notin Vocab
    /\ Prompt \in Seq(Vocab) /\ Prompt # <<>>
    /\ {MaxTokens, CtxSize, Stages} \subseteq Nat \ {0}
    /\ MaxDraft \in Nat

Garbage == "garbage"
NoSession == [cache |-> <<>>, step |-> 0]
Open(session) == session.step > 0

\* A payload that continues what this stage has cached yields rows of the same
\* history, any other payload rows of none.
Continues(s, session, payload) == s = 1 \/ payload.basis = session.cache

Cached(s, session, payload) ==
    session.cache \o [i \in DOMAIN payload.tokens |->
        IF Continues(s, session, payload) THEN payload.tokens[i] ELSE Garbage]

Activation(s, session, payload) ==
    [tokens |-> payload.tokens,
     basis  |-> IF Continues(s, session, payload) THEN session.cache ELSE <<Garbage>>]

\* Prefill reserves the positions of all the tokens that may be requested.
context_exhausted(session, count, reserved) ==
    Len(session.cache) + count + reserved > CtxSize

Refused(session) == [session |-> session, ok |-> FALSE, out |-> [tokens |-> <<>>, basis |-> <<>>]]

\* run_serial: the engine computes the rows, or it fails without
\* a trace, or after it moved on (llama.cpp computed the rows and does not
\* expose them).  Only a success moves the expected step.
Computed(s, session, payload) ==
    [session |-> [cache |-> Cached(s, session, payload),
                  step  |-> IF Open(session) THEN session.step + Len(payload.tokens) ELSE 1],
     ok |-> TRUE, out |-> Activation(s, session, payload)]

FailsAfter(s, session, payload) ==
    Refused([session EXCEPT !.cache = Cached(s, session, payload)])

\* Results of a prefill: a failed one leaves no session.
prefill(s, session, payload) ==
    IF Open(session) \/ context_exhausted(session, Len(payload.tokens), MaxTokens - 1)
    THEN {Refused(session)}
    ELSE {Computed(s, session, payload), Refused(session)}

\* Results of a decode pass over one or more rows.  A stage that receives
\* activations limits their number, the first one takes any number of tokens.
decode(s, session, payload, step) ==
    IF \/ ~Open(session)
       \/ session.step # step
       \/ s # 1 /\ Len(payload.tokens) > MaxDraft + 1
       \/ context_exhausted(session, Len(payload.tokens), 0)
    THEN {Refused(session)}
    ELSE {Computed(s, session, payload), Refused(session), FailsAfter(s, session, payload)}

\* Only decoded rows can be dropped; llama.cpp may reject the removal.
rollback_session(session, count) ==
    IF ~Open(session) \/ count > Len(session.cache) \/ count >= session.step
    THEN {Refused(session)}
    ELSE {[session |-> [cache |-> SubSeq(session.cache, 1, Len(session.cache) - count),
                        step  |-> session.step - count],
           ok |-> TRUE, out |-> [tokens |-> <<>>, basis |-> <<>>]],
          Refused(session)}

\* Closing a session that is not there succeeds.
close_session(session) ==
    [session |-> NoSession, ok |-> TRUE, out |-> [tokens |-> <<>>, basis |-> <<>>]]

\* What came out of the engine may still be refused as an output, or not be
\* encoded, and its session has moved on.
OrUnusable(results) == results \cup {Refused(r.session) : r \in results}

\* StageWorker: a request that does not fit the stage's deployment and
\* assignment is refused before it reaches the engine.
validate_request(session) == {Refused(session)}

StageWorkerRun(session, results) == validate_request(session) \cup OrUnusable(results)
StageWorkerClose(session) == validate_request(session) \cup {close_session(session)}
StageWorkerRollback(session, count) ==
    validate_request(session) \cup rollback_session(session, count)

\* GenerationService::invoke_stage: the operations by name.
Results(s, session, call) ==
    CASE call.op = "prefill"  -> StageWorkerRun(session, prefill(s, session, call.payload))
      [] call.op = "decode"   ->
            StageWorkerRun(session, decode(s, session, call.payload, call.step))
      [] call.op = "rollback" -> StageWorkerRollback(session, call.count)
      [] call.op = "close"    -> StageWorkerClose(session)
=============================================================================
