--------------------------- MODULE GenerationRunner ---------------------------
(***************************************************************************)
(* A generation over a pipeline of stages                                  *)
(* (pipeline_parallel/generation_runner.cpp, engine/generation_service.cpp *)
(* and the calls of transport/http_stage_transport.cpp): a prefill pass,   *)
(* decode passes that may verify a speculative draft, rollbacks of the     *)
(* rejected part, and the close of every session.                          *)
(*                                                                         *)
(* Stage 1 is called in the process of the runner, the others over HTTP,   *)
(* where the call can be lost before or after it took effect, or can take  *)
(* effect after the runner has given it up.  The draft strategy may        *)
(* propose anything.  The model is any function from token sequences to    *)
(* tokens: truth are its choices along the prompt's greedy completion.     *)
(***************************************************************************)
EXTENDS StageSession

CONSTANT MaxFaults   \* bound on failed and lost calls

ASSUME FaultsAssumption == MaxFaults \in Nat

VARIABLES
    truth,
    sess,     \* session of every stage
    late,     \* calls given up by the runner that have yet to take effect
    faults,   \* failed and lost calls so far
    pc,       \* where the runner is
    stage,    \* the stage of the running loop over stages
    call,     \* the operation of that loop, its payload that of the next stage
    draft,    \* the draft under verification
    tokens,   \* sampled tokens that are still to be emitted
    out,      \* emitted tokens
    step,     \* decode_step
    recover,  \* recover_after_rejection
    unclosed, \* stages whose close, or whose call before, was not answered
    reason,   \* what the runner returns once the sessions are closed
    outcome   \* what it returned

engineVars == <<sess, late, faults>>
runnerVars == <<pc, stage, call, draft, tokens, out, step, recover, unclosed, reason, outcome>>
vars == <<truth, engineVars, runnerVars>>

NoPayload == [tokens |-> <<>>, basis |-> <<>>]
Call(op, payload, atStep, count) ==
    [op |-> op, payload |-> payload, step |-> atStep, count |-> count]

Pcs == {"new", "pass", "verify", "rollback", "emit", "close", "done"}

\* The choices of the model after a sequence of tokens.
Sampled(prefix) ==
    LET n == Len(prefix) - Len(Prompt)
        greedy == Prompt \o SubSeq(truth, 1, n)
    IN IF n >= 0 /\ n < MaxTokens /\ prefix = greedy /\ (\A i \in 1..n : truth[i] # EOG)
       THEN {truth[n + 1]} ELSE Vocab \cup {EOG}

\* The rows of the last stage that are sampled: the last one of a prefill.
SampledRows(payload, all) ==
    LET count == Len(payload.tokens)
        rows == IF all THEN count ELSE 1
        Prefix(i) == payload.basis \o SubSeq(payload.tokens, 1, count - rows + i)
    IN {t \in [1..rows -> Vocab \cup {EOG}] : \A i \in 1..rows : t[i] \in Sampled(Prefix(i))}

Init ==
    /\ truth \in [1..MaxTokens -> Vocab \cup {EOG}]
    /\ sess = [s \in 1..Stages |-> NoSession]
    /\ late = {} /\ faults = 0
    /\ pc = "new" /\ stage = 1 /\ call = Call("prefill", NoPayload, 0, 0)
    /\ draft = <<>> /\ tokens = <<>> /\ out = <<>> /\ step = 1
    /\ recover = FALSE /\ unclosed = {} /\ reason = "" /\ outcome = ""

-----------------------------------------------------------------------------
(* Loops over the stages *)

\* A refusal counts as a fault unless the stage cannot do anything else.
Charge(r) ==
    LET forced == \A o \in Results(stage, sess[stage], call) : ~o.ok
    IN /\ faults' = faults + (IF r.ok \/ forced THEN 0 ELSE 1)
       /\ faults' <= MaxFaults

Begin(where, c) == pc' = where /\ stage' = 1 /\ call' = c

CloseAll(why) ==
    /\ Begin("close", Call("close", NoPayload, 0, 0))
    /\ reason' = why

\* GenerationService::generate: validate_request refuses the request, or the
\* runner starts with the prefill.
Generate ==
    /\ pc = "new"
    /\ \/ /\ pc' = "done" /\ outcome' = "failed"
          /\ UNCHANGED <<stage, call>>
       \/ /\ Begin("pass", Call("prefill", [tokens |-> Prompt, basis |-> <<>>], 0, 0))
          /\ UNCHANGED outcome
    /\ UNCHANGED <<truth, engineVars, draft, tokens, out, step, recover, unclosed, reason>>

\* An answer of another call is an error, and so is one of a kind that this stage
\* does not give; the stage has done its work all the same.
validate_response_identity(results) == OrUnusable(results)
validate_response(results) == OrUnusable(validate_response_identity(results))

\* run_pass: the answer of a stage is the input of the next.
PassAnswered ==
    /\ pc = "pass"
    /\ \E r \in validate_response(Results(stage, sess[stage], call)) :
         /\ sess' = [sess EXCEPT ![stage] = r.session]
         /\ Charge(r)
         /\ IF r.ok
            THEN /\ UNCHANGED reason
                 /\ IF stage < Stages
                    THEN /\ stage' = stage + 1
                         /\ call' = [call EXCEPT !.payload = r.out]
                         /\ UNCHANGED <<pc, tokens>>
                    ELSE /\ pc' = "verify"
                         /\ tokens' \in SampledRows(r.out, call.op = "decode")
                         /\ UNCHANGED <<stage, call>>
            ELSE /\ CloseAll("failed")
                 /\ UNCHANGED tokens
    /\ UNCHANGED <<truth, late, draft, out, step, recover, unclosed, outcome>>

\* A remote call whose answer does not come: it had no effect, or had it, or
\* will have it later.
Unanswered ==
    /\ stage > 1
    /\ faults < MaxFaults /\ faults' = faults + 1
    /\ \/ UNCHANGED <<sess, late>>
       \/ /\ \E r \in Results(stage, sess[stage], call) : sess' = [sess EXCEPT ![stage] = r.session]
          /\ UNCHANGED late
       \/ late' = late \cup {[stage |-> stage, call |-> call]} /\ UNCHANGED sess

PassUnanswered ==
    /\ pc = "pass"
    /\ Unanswered
    /\ unclosed' = unclosed \cup {stage}
    /\ CloseAll("failed")
    /\ UNCHANGED <<truth, draft, tokens, out, step, recover, outcome>>

\* A call that was given up takes effect, and its answer is dropped.
LateCall ==
    /\ \E l \in late :
         /\ late' = late \ {l}
         /\ \E r \in Results(l.stage, sess[l.stage], l.call) :
              sess' = [sess EXCEPT ![l.stage] = r.session]
    /\ UNCHANGED <<truth, faults, runnerVars>>

-----------------------------------------------------------------------------
(* Verification, rollback and output *)

\* Mutant: the draft is taken for confirmed.
AcceptedBlindly(target) == Len(draft)

\* How many draft tokens the target confirms.
Accepted(target) ==
    LET agrees(i) == target[i] # EOG /\ target[i] = draft[i]
    IN CHOOSE a \in 0..Len(draft) :
         /\ \A i \in 1..a : agrees(i)
         /\ a < Len(draft) => ~agrees(a + 1)

\* Mutant: a rejected draft is not rolled back.
VerifyOnly ==
    /\ pc = "verify"
    /\ pc' = "emit" /\ draft' = <<>>
    /\ tokens' = SubSeq(tokens, 1, Accepted(tokens) + 1)
    /\ step' = step + (IF call.op = "decode" THEN Len(tokens) ELSE 0)
    /\ UNCHANGED <<truth, engineVars, stage, call, out, recover, unclosed, reason, outcome>>

Verify ==
    /\ pc = "verify"
    /\ LET rejected == Len(draft) - Accepted(tokens)
       IN /\ tokens' = SubSeq(tokens, 1, Accepted(tokens) + 1)
          /\ step' = step + (IF call.op = "decode" THEN Len(tokens) - rejected ELSE 0)
          /\ IF rejected > 0
             THEN Begin("rollback", Call("rollback", NoPayload, 0, rejected))
             ELSE pc' = "emit" /\ UNCHANGED <<stage, call>>
    /\ draft' = <<>>
    /\ UNCHANGED <<truth, engineVars, out, recover, unclosed, reason, outcome>>

\* rollback_sessions goes through all the stages; reason keeps the first error.
RollbackNext(failed) ==
    /\ IF stage < Stages
       THEN /\ stage' = stage + 1
            /\ reason' = IF failed THEN "failed" ELSE reason
            /\ UNCHANGED <<pc, call, recover>>
       ELSE IF failed \/ reason = "failed"
       THEN CloseAll("failed") /\ UNCHANGED recover
       ELSE pc' = "emit" /\ recover' = TRUE /\ UNCHANGED <<stage, call, reason>>
    /\ UNCHANGED <<truth, draft, tokens, out, step, outcome>>

RollbackAnswered ==
    /\ pc = "rollback"
    /\ \E r \in validate_response_identity(Results(stage, sess[stage], call)) :
         /\ sess' = [sess EXCEPT ![stage] = r.session]
         /\ Charge(r)
         /\ RollbackNext(~r.ok)
    /\ UNCHANGED <<late, unclosed>>

RollbackUnanswered ==
    /\ pc = "rollback"
    /\ Unanswered
    /\ unclosed' = unclosed \cup {stage}
    /\ RollbackNext(TRUE)

\* A sampled token goes to the client, who may be gone, unless its text is not
\* UTF-8.
Emit ==
    /\ pc = "emit" /\ tokens # <<>> /\ Len(out) < MaxTokens
    /\ Head(tokens) # EOG
    /\ tokens' = Tail(tokens)
    /\ UNCHANGED <<truth, engineVars, draft, step, recover, unclosed, outcome>>
    /\ \/ out' = Append(out, Head(tokens)) /\ UNCHANGED <<pc, stage, call, reason>>
       \/ out' \in {out, Append(out, Head(tokens))} /\ CloseAll("failed")

\* Mutant: a draft as long as the tokens that remain.
DraftsUpToRemaining ==
    LET remaining == MaxTokens - Len(out)
        limit == IF recover THEN 0 ELSE IF MaxDraft < remaining THEN MaxDraft ELSE remaining
    IN UNION {[1..n -> Vocab] : n \in 0..limit}

\* propose: at most one token less than remain, and none after a rejection.
Drafts ==
    LET remaining == MaxTokens - Len(out)
        limit == IF recover THEN 0 ELSE IF MaxDraft < remaining - 1 THEN MaxDraft ELSE remaining - 1
    IN UNION {[1..n -> Vocab] : n \in 0..limit}

\* The next pass verifies the last token and the draft after it.
NextPass ==
    /\ pc = "emit" /\ tokens = <<>> /\ Len(out) < MaxTokens
    /\ \E d \in Drafts :
         /\ draft' = d
         /\ Begin("pass", Call("decode", [tokens |-> <<out[Len(out)]>> \o d, basis |-> <<>>], step, 0))
    /\ recover' = FALSE
    /\ UNCHANGED <<truth, engineVars, tokens, out, step, unclosed, reason, outcome>>

Finish ==
    /\ pc = "emit"
    /\ IF tokens # <<>> /\ Head(tokens) = EOG /\ Len(out) < MaxTokens
       THEN CloseAll("stop") ELSE Len(out) = MaxTokens /\ CloseAll("length")
    /\ UNCHANGED <<truth, engineVars, draft, tokens, out, step, recover, unclosed, outcome>>

-----------------------------------------------------------------------------
(* close_sessions *)

\* Mutant: the first failed close ends the loop.
CloseNextGivesUp(failed) ==
    /\ reason' = IF failed THEN "failed" ELSE reason
    /\ IF stage < Stages /\ ~failed
       THEN stage' = stage + 1 /\ UNCHANGED <<pc, outcome>>
       ELSE pc' = "done" /\ outcome' = reason' /\ UNCHANGED stage
    /\ UNCHANGED <<truth, call, draft, tokens, out, step, recover>>

\* A failed close fails the generation, at whatever stage, and the others are
\* still closed.
CloseNext(failed) ==
    /\ reason' = IF failed THEN "failed" ELSE reason
    /\ IF stage < Stages
       THEN stage' = stage + 1 /\ UNCHANGED <<pc, outcome>>
       ELSE pc' = "done" /\ outcome' = reason' /\ UNCHANGED stage
    /\ UNCHANGED <<truth, call, draft, tokens, out, step, recover>>

CloseAnswered ==
    /\ pc = "close"
    /\ \E r \in validate_response_identity(Results(stage, sess[stage], call)) :
         /\ sess' = [sess EXCEPT ![stage] = r.session]
         /\ Charge(r)
         /\ unclosed' = IF r.ok THEN unclosed ELSE unclosed \cup {stage}
         /\ CloseNext(~r.ok)
    /\ UNCHANGED late

CloseUnanswered ==
    /\ pc = "close"
    /\ Unanswered
    /\ unclosed' = unclosed \cup {stage}
    /\ CloseNext(TRUE)

\* Mutant: only the first stage reaps.
ExpireFirst(s) ==
    /\ s = 1
    /\ Open(sess[s])
    /\ sess' = [sess EXCEPT ![s] = NoSession]
    /\ UNCHANGED <<truth, late, faults, runnerVars>>

\* prune_expired_sessions_locked: a llama.cpp session idle for session_idle_ttl,
\* which a slow pass or client can make it in the middle of a generation.
Expire(s) ==
    /\ Open(sess[s])
    /\ sess' = [sess EXCEPT ![s] = NoSession]
    /\ UNCHANGED <<truth, late, faults, runnerVars>>

-----------------------------------------------------------------------------
Runner ==
    \/ Generate \/ PassAnswered \/ PassUnanswered \/ Verify
    \/ RollbackAnswered \/ RollbackUnanswered \/ Emit \/ NextPass \/ Finish
    \/ CloseAnswered \/ CloseUnanswered

Next == Runner \/ LateCall \/ \E s \in 1..Stages : Expire(s)

Spec == Init /\ [][Next]_vars

\* The runner's thread runs, and a call on the wire takes effect at last.  The
\* reaper thread prunes what stays idle.
FairSpec ==
    /\ Spec
    /\ WF_vars(Runner) /\ WF_vars(LateCall)
    /\ \A s \in 1..Stages : WF_vars(Expire(s))

-----------------------------------------------------------------------------
\* The client gets the greedy completion of the whole model, whatever is
\* drafted, rejected, lost or expired on the way: the runner with its stages
\* implements GreedyDecoder.
Promise == INSTANCE GreedyDecoder

GreedyOutput == Promise!Spec

\* When a decode pass starts, every session that is still there holds exactly
\* the prompt and the emitted tokens but the last, and expects the runner's
\* step: the rejected part of a draft was rolled back everywhere.
StagesAgree ==
    (pc = "pass" /\ stage = 1 /\ call.op = "decode") =>
        \A s \in 1..Stages : Open(sess[s]) =>
            /\ sess[s].cache = Prompt \o SubSeq(out, 1, Len(out) - 1)
            /\ sess[s].step = step

\* A generation whose prefill was accepted is never refused for its context
\* (context_exhausted): verification rows included,
\* no session needs more positions than prefill reserved.
ReservedPositionsSuffice ==
    \A s \in 1..Stages : Open(sess[s]) =>
        Len(sess[s].cache) <= Len(Prompt) + MaxTokens - 1

\* Sessions outlive the generation only on stages that did not answer, and
\* none outlives a successful one.
OnlyUnansweredStayOpen ==
    pc = "done" =>
        /\ \A s \in 1..Stages : Open(sess[s]) => s \in unclosed
        /\ outcome # "failed" => unclosed = {} /\ late = {}

\* docs/architecture.md: the runner returns, and the sessions are closed, or
\* reaped after an idle timeout when the close does not reach them.
GenerationEnds == <>[](pc = "done" /\ \A s \in 1..Stages : ~Open(sess[s]))
=============================================================================
