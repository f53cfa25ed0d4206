----------------------------- MODULE GreedyDecoder -----------------------------
(***************************************************************************)
(* What a generation promises its client: the tokens that one engine with  *)
(* the whole model would choose greedily, one by one, until the end token  *)
(* or max_tokens; an early end is reported as a failure.                   *)
(***************************************************************************)
EXTENDS Integers, Sequences

CONSTANTS Vocab, MaxTokens, EOG

VARIABLES
    truth,   \* the greedy choices of the model, the end token included
    out,     \* the tokens given to the client
    outcome  \* "" while running, then "stop", "length" or "failed"

Init ==
    /\ out = <<>>
    /\ outcome = ""
    /\ truth \in [1..MaxTokens -> Vocab \cup {EOG}]

\* One more token.
Token ==
    /\ outcome = ""
    /\ Len(out) < MaxTokens
    /\ truth[Len(out) + 1] # EOG
    /\ out' = Append(out, truth[Len(out) + 1])
    /\ UNCHANGED <<truth, outcome>>

\* The end; only a failure may come early.
Finish ==
    /\ outcome = ""
    /\ \/ outcome' = "failed"
       \/ outcome' = "length" /\ Len(out) = MaxTokens
       \/ outcome' = "stop" /\ Len(out) < MaxTokens /\ truth[Len(out) + 1] = EOG
    /\ UNCHANGED <<truth, out>>

Next == Token \/ Finish

Spec == Init /\ [][Next]_<<truth, out, outcome>>
=============================================================================
