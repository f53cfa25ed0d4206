--------------------------- MODULE GenerationProofs ---------------------------
(***************************************************************************)
(* Proofs about GenerationRunner: whatever is drafted, rejected, refused,  *)
(* lost, late or expired, the stages agree when a decode pass starts, no   *)
(* session outgrows what its prefill reserved, sessions outlive a          *)
(* generation only where a call was not answered, and the client gets the  *)
(* greedy completion of the whole model.                                   *)
(*                                                                         *)
(* While no call has failed, everything the runner and the stages hold     *)
(* lies on one sequence, the greedy completion: Greedy(truth, n) are the   *)
(* prompt and its first n tokens.                                          *)
(***************************************************************************)
EXTENDS GenerationRunner, SequenceTheorems, WellFoundedInduction, TLAPS

Truths == [1..MaxTokens -> Vocab \cup {EOG}]

Greedy(t, n) == Prompt \o SubSeq(t, 1, n)

\* A session that was kept is this one.
Kept(session, rows, n) == session = NoSession \/ session = [cache |-> rows, step |-> n]

\* The longest cache that the positions reserved by prefill allow.
Reserved == Len(Prompt) + MaxTokens - 1

Rows == Vocab \cup {Garbage}
Sessions == [cache : Seq(Rows), step : Nat]
Ops == {"prefill", "decode", "rollback", "close"}

\* No call of this generation has failed or got lost.
Unharmed == late = {} /\ unclosed = {} /\ reason = ""

\* The first n choices are tokens, not the end.
Goes(t, n) == \A i \in 1..n : t[i] # EOG

\* A session, or none.
Fine(session) == session \in Sessions /\ (~Open(session) => session = NoSession)

SessTypes == DOMAIN sess = 1..Stages /\ \A s \in 1..Stages : Fine(sess[s])

Types ==
    /\ truth \in Truths
    /\ SessTypes
    /\ pc \in Pcs /\ stage \in 1..Stages
    /\ reason \in {"", "stop", "length", "failed"}
    /\ unclosed \subseteq 1..Stages
    /\ pc # "done" => outcome = ""

\* What has been emitted, and what a success will be reported as.
Output ==
    /\ Len(out) \in 0..MaxTokens
    /\ out = SubSeq(truth, 1, Len(out))
    /\ Goes(truth, Len(out))
    /\ reason = "length" => Len(out) = MaxTokens
    /\ reason = "stop" => Len(out) < MaxTokens /\ truth[Len(out) + 1] = EOG

New == pc = "new" =>
    /\ Unharmed /\ out = <<>> /\ draft = <<>> /\ tokens = <<>> /\ step = 1
    /\ \A s \in 1..Stages : sess[s] = NoSession

Prefilling == (pc = "pass" /\ call.op = "prefill") =>
    /\ Unharmed /\ out = <<>> /\ draft = <<>> /\ tokens = <<>> /\ step = 1
    /\ call = Call("prefill", [tokens |-> Prompt, basis |-> <<>>], 0, 0)
    /\ \A s \in 1..Stages :
          IF s < stage THEN Kept(sess[s], Prompt, 1) ELSE sess[s] = NoSession

Prefilled == (pc = "verify" /\ call.op = "prefill") =>
    /\ Unharmed /\ out = <<>> /\ draft = <<>> /\ step = 1
    /\ tokens = <<truth[1]>>
    /\ \A s \in 1..Stages : Kept(sess[s], Prompt, 1)

\* A draft that a decode pass verifies after the emitted tokens.
Drafted ==
    /\ Unharmed
    /\ step = Len(out) /\ step > 0
    /\ draft \in Seq(Vocab) /\ step + Len(draft) < MaxTokens

Decoding == (pc = "pass" /\ call.op # "prefill") =>
    /\ Drafted
    /\ call = Call("decode", [tokens |-> <<truth[step]>> \o draft,
                              basis |-> IF stage = 1 THEN <<>> ELSE Greedy(truth, step - 1)], step, 0)
    /\ \A s \in 1..Stages :
          IF s < stage THEN Kept(sess[s], Greedy(truth, step) \o draft, step + Len(draft) + 1)
                       ELSE Kept(sess[s], Greedy(truth, step - 1), step)

Decoded == (pc = "verify" /\ call.op # "prefill") =>
    /\ Drafted /\ call.op = "decode"
    /\ \A s \in 1..Stages : Kept(sess[s], Greedy(truth, step) \o draft, step + Len(draft) + 1)
    /\ tokens \in [1..Len(draft) + 1 -> Vocab \cup {EOG}]
    /\ \A i \in 1..Len(draft) + 1 :
          (\A j \in 1..i - 1 : draft[j] = truth[step + j]) => tokens[i] = truth[step + i]

\* The tokens that the target confirmed continue the output.
Confirmed ==
    /\ draft = <<>>
    /\ tokens \in Seq(Vocab \cup {EOG})
    /\ step = Len(out) + Len(tokens) /\ step \in 1..MaxTokens
    /\ \A i \in 1..Len(tokens) : tokens[i] = truth[Len(out) + i]
    /\ Goes(truth, step - 1)

RollingBack == pc = "rollback" =>
    /\ call.op = "rollback" /\ call.count \in Nat \ {0}
    /\ reason \in {"", "failed"}
    /\ reason = "" =>
          /\ Unharmed /\ Confirmed
          /\ \A s \in 1..Stages :
                IF s < stage THEN Kept(sess[s], Greedy(truth, step - 1), step)
                ELSE Open(sess[s]) =>
                       /\ Len(sess[s].cache) = Len(Prompt) + step - 1 + call.count
                       /\ SubSeq(sess[s].cache, 1, Len(Prompt) + step - 1) = Greedy(truth, step - 1)
                       /\ sess[s].step = step + call.count

Emitting == pc = "emit" =>
    /\ Unharmed /\ Confirmed
    /\ \A s \in 1..Stages : Kept(sess[s], Greedy(truth, step - 1), step)

Closing == pc = "close" =>
    /\ call.op = "close" /\ reason # ""
    /\ \A s \in 1..Stages : s < stage /\ Open(sess[s]) => s \in unclosed

Done == pc = "done" =>
    /\ \A s \in 1..Stages : Open(sess[s]) => s \in unclosed
    /\ outcome # "failed" => unclosed = {}

\* A call that was not answered fails the generation, and a call that is still
\* to take effect went to a stage that did not answer.
Lost ==
    /\ unclosed # {} /\ pc # "done" => reason = "failed"
    /\ \A l \in late : l.stage \in unclosed

\* A call that keeps the session of its stage within what prefill reserved.
Computes(c) == c.op \in {"prefill", "decode"}

CallFits(session, c) ==
    /\ c.op \in Ops
    /\ c.op = "prefill" => c.payload.tokens = Prompt
    /\ c.op = "rollback" => c.count \in Nat
    /\ c.op = "decode" =>
          /\ c.payload.tokens \in Seq(Vocab)
          /\ Open(session) => Len(session.cache) + Len(c.payload.tokens) <= Reserved

\* No session is longer than its prefill reserved, and none will be when a late
\* call takes effect; at most one of those computes rows.
Bounded ==
    /\ \A s \in 1..Stages : Open(sess[s]) => Len(sess[s].cache) <= Reserved
    /\ \A l \in late : l.stage \in 1..Stages /\ CallFits(sess[l.stage], l.call)
    /\ \A l, m \in late : Computes(l.call) /\ Computes(m.call) => l = m

IInv ==
    /\ Types /\ Output /\ New /\ Prefilling /\ Prefilled /\ Decoding /\ Decoded
    /\ RollingBack /\ Emitting /\ Closing /\ Done /\ Lost /\ Bounded

-----------------------------------------------------------------------------
(* Sequences *)

\* A set of numbers that is not empty has a least element.
LEMMA LeastElement ==
  ASSUME NEW S, S \subseteq Nat, S # {}
  PROVE  \E m \in S : \A k \in S : m <= k
  <1> DEFINE R == OpToRel(<, Nat)
  <1>1. IsWellFoundedOn(R, Nat)
    BY Zenon, NatLessThanWellFounded
  <1>2. \A x, y \in Nat : x < y => <<x, y>> \in R
    BY Zenon DEF OpToRel
  <1> HIDE DEF R
  <1>3. PICK m \in S : \A k \in S : ~(<<k, m>> \in R)
    BY Zenon, <1>1, WFMin
  <1>4. ASSUME NEW k \in S PROVE m <= k
    <2>1. m \in Nat /\ k \in Nat
      BY Zenon
    <2>2. ~(<<k, m>> \in R)
      BY <1>3, Zenon
    <2>3. ~(k < m)
      BY <2>1, <2>2, <1>2, Zenon
    <2> QED
      BY <2>1, <2>3
  <1> QED
    BY <1>4, Zenon

\* The constants.
LEMMA Constants ==
  /\ EOG \notin Vocab
  /\ Prompt \in Seq(Vocab) /\ Len(Prompt) \in Nat \ {0}
  /\ MaxTokens \in Nat \ {0} /\ Stages \in Nat \ {0} /\ MaxDraft \in Nat /\ CtxSize \in Nat
  <1>1. Prompt \in Seq(Vocab) /\ Prompt # <<>>
    BY SessionAssumption, Zenon
  <1>2. Len(Prompt) \in Nat \ {0}
    BY <1>1, EmptySeq, Zenon
  <1> QED
    BY <1>1, <1>2, SessionAssumption, Zenon

\* The greedy completion, token by token.
LEMMA TruthSeq ==
  ASSUME NEW t \in Truths
  PROVE  /\ t \in Seq(Vocab \cup {EOG}) /\ Len(t) = MaxTokens
         /\ \A i \in 1..MaxTokens : t[i] \in Vocab \cup {EOG}
  <1>1. MaxTokens \in Nat /\ t \in [1..MaxTokens -> Vocab \cup {EOG}]
    BY Constants, Zenon DEF Truths
  <1>2. t \in Seq(Vocab \cup {EOG})
    BY <1>1, SeqDef, Zenon
  <1>3. Len(t) \in Nat /\ DOMAIN t = 1..Len(t) /\ DOMAIN t = 1..MaxTokens
    BY <1>1, <1>2, LenProperties, Zenon
  <1>4. Len(t) = MaxTokens
    BY <1>1, <1>3
  <1> QED
    BY <1>1, <1>2, <1>4, Zenon

\* A prefix of the greedy choices; it has no end token while the completion goes on.
LEMMA GreedySeq ==
  ASSUME NEW t \in Truths, NEW n \in 0..MaxTokens
  PROVE  /\ SubSeq(t, 1, n) \in Seq(Vocab \cup {EOG})
         /\ Len(SubSeq(t, 1, n)) = n
         /\ \A i \in 1..n : SubSeq(t, 1, n)[i] = t[i]
         /\ Goes(t, n) => SubSeq(t, 1, n) \in Seq(Vocab)
  <1>1. \A i \in 1..n : t[i] \in Vocab \cup {EOG}
    BY Constants, TruthSeq
  <1>2. n \in Int /\ 1 \in Int
    BY Constants
  <1>3. /\ SubSeq(t, 1, n) \in Seq(Vocab \cup {EOG})
        /\ Len(SubSeq(t, 1, n)) = (IF 1 <= n THEN n - 1 + 1 ELSE 0)
        /\ \A i \in 1 .. n - 1 + 1 : SubSeq(t, 1, n)[i] = t[1 + i - 1]
    BY <1>1, <1>2, SubSeqProperties
  <1>4. ASSUME Goes(t, n) PROVE SubSeq(t, 1, n) \in Seq(Vocab)
    <2>1. \A i \in 1..n : t[i] \in Vocab
      BY <1>1, <1>4, Zenon DEF Goes
    <2> QED
      BY <2>1, <1>2, SubSeqProperties, Zenon
  <1> QED
    BY <1>3, <1>4

\* The prompt followed by the first n greedy choices.
LEMMA GreedyProperties ==
  ASSUME NEW t \in Truths, NEW n \in 0..MaxTokens
  PROVE  /\ Greedy(t, n) \in Seq(Vocab \cup {EOG})
         /\ Len(Greedy(t, n)) = Len(Prompt) + n
         /\ \A i \in 1..Len(Prompt) + n :
              Greedy(t, n)[i] = IF i <= Len(Prompt) THEN Prompt[i] ELSE t[i - Len(Prompt)]
         /\ Goes(t, n) => Greedy(t, n) \in Seq(Vocab)
  <1> DEFINE u == SubSeq(t, 1, n)
  <1>1. /\ u \in Seq(Vocab \cup {EOG}) /\ Len(u) = n /\ \A i \in 1..n : u[i] = t[i]
        /\ Goes(t, n) => u \in Seq(Vocab)
    BY GreedySeq, Zenon
  <1>2. Greedy(t, n) = Prompt \o u
    BY Zenon DEF Greedy
  <1>3. Prompt \in Seq(Vocab \cup {EOG}) /\ Prompt \in Seq(Vocab) /\ Len(Prompt) \in Nat
    BY Constants, SeqMonotonic, Zenon
  <1> HIDE DEF u
  <1>4. /\ Prompt \o u \in Seq(Vocab \cup {EOG})
        /\ Len(Prompt \o u) = Len(Prompt) + Len(u)
        /\ \A i \in 1 .. Len(Prompt) + Len(u) : (Prompt \o u)[i] =
              IF i <= Len(Prompt) THEN Prompt[i] ELSE u[i - Len(Prompt)]
    BY Zenon, <1>1, <1>3, ConcatProperties
  <1>5. Goes(t, n) => Prompt \o u \in Seq(Vocab)
    BY <1>1, <1>3, ConcatProperties, Zenon
  <1>6. ASSUME NEW i \in 1..Len(Prompt) + n
        PROVE  Greedy(t, n)[i] = IF i <= Len(Prompt) THEN Prompt[i] ELSE t[i - Len(Prompt)]
    <2>1. Len(Prompt) < i => i - Len(Prompt) \in 1..n
      BY <1>3
    <2> QED
      BY <1>1, <1>2, <1>3, <1>4, <1>6, <2>1
  <1> QED
    BY <1>1, <1>2, <1>4, <1>5, <1>6, Zenon

\* One more token of the completion, and a draft after it.
LEMMA GreedyStep ==
  ASSUME NEW t \in Truths, NEW n \in 1..MaxTokens, NEW d \in Seq(Vocab \cup {EOG})
  PROVE  Greedy(t, n - 1) \o (<<t[n]>> \o d) = Greedy(t, n) \o d
  <1> DEFINE V == Vocab \cup {EOG}
             u == SubSeq(t, 1, n - 1)
             x == <<t[n]>>
  <1>1. t[n] \in V /\ t \in Seq(V) /\ n \in 1..Len(t) /\ 1 \in 1..Len(t) /\ n - 1 \in 0..MaxTokens
    BY TruthSeq, Constants
  <1>2. SubSeq(t, 1, n) = u \o x
    BY <1>1, SubSeqRecursiveSecond, Zenon
  <1>3. Prompt \in Seq(V) /\ u \in Seq(V) /\ x \in Seq(V) /\ d \in Seq(V)
    BY <1>1, Constants, SeqMonotonic, GreedySeq
  <1> HIDE DEF V, u, x
  <1>a. \A p, q, r \in Seq(V) : (p \o q) \o r = p \o (q \o r)
    BY ConcatAssociative
  <1>4. Prompt \o (u \o x) = (Prompt \o u) \o x
    BY <1>3, <1>a, Zenon
  <1>5. Prompt \o u \in Seq(V)
    BY <1>3, ConcatProperties, Zenon
  <1>6. (Prompt \o u) \o (x \o d) = ((Prompt \o u) \o x) \o d
    BY Zenon, <1>3, <1>5, <1>a
  <1>7. Greedy(t, n - 1) = Prompt \o u /\ Greedy(t, n) = Prompt \o (u \o x)
    BY <1>2, Zenon DEF Greedy, u
  <1> QED
    BY Zenon, <1>4, <1>6, <1>7 DEF x

-----------------------------------------------------------------------------
(* What a call does to the session of its stage *)

\* What a stage may do with a prefill, a decode pass, a rollback and a close; r is
\* its answer, as the runner takes it.
PrefillResult(s, session, p, r) ==
    \/ r.session = session /\ ~r.ok
    \/ /\ ~Open(session)
       /\ r.session = [cache |-> Cached(s, session, p), step |-> 1]
       /\ r.ok => r.out = Activation(s, session, p)

DecodeResult(s, session, p, n, r) ==
    \/ r.session = session /\ ~r.ok
    \/ /\ Open(session) /\ session.step = n
       /\ r.session.cache = Cached(s, session, p)
       /\ \/ r.session = [cache |-> Cached(s, session, p), step |-> n + Len(p.tokens)]
          \/ r.session = [cache |-> Cached(s, session, p), step |-> n] /\ ~r.ok
       /\ r.ok => r.out = Activation(s, session, p)

RollbackResult(session, k, r) ==
    \/ r.session = session /\ ~r.ok
    \/ /\ Open(session) /\ k <= Len(session.cache) /\ k < session.step
       /\ r.session = [cache |-> SubSeq(session.cache, 1, Len(session.cache) - k),
                       step  |-> session.step - k]

CloseResult(session, r) == (r.session = session /\ ~r.ok) \/ r.session = NoSession

\* An answer that is taken is one that the stage gave, and one that is not leaves
\* the session as the stage left it.
LEMMA Unusable ==
  ASSUME NEW R, NEW r \in OrUnusable(R)
  PROVE  \E q \in R : r.session = q.session /\ (r = q \/ ~r.ok)
  BY DEF OrUnusable, Refused

\* What passes validate_response: an answer of the stage, or a failure in its place.
LEMMA Validated ==
  ASSUME NEW R
  PROVE  /\ R \subseteq validate_response_identity(R)
         /\ validate_response_identity(R) \subseteq validate_response(R)
         /\ \A r \in validate_response(R) : \E q \in R : r.session = q.session /\ (r = q \/ ~r.ok)
  <1>1. /\ R \subseteq validate_response_identity(R)
        /\ validate_response_identity(R) \subseteq validate_response(R)
    BY Zenon DEF validate_response, validate_response_identity, OrUnusable
  <1>2. ASSUME NEW r \in validate_response(R)
        PROVE  \E q \in R : r.session = q.session /\ (r = q \/ ~r.ok)
    <2>1. PICK p \in validate_response_identity(R) : r.session = p.session /\ (r = p \/ ~r.ok)
      BY Unusable, Zenon DEF validate_response
    <2>2. PICK q \in R : p.session = q.session /\ (p = q \/ ~p.ok)
      BY Unusable, Zenon DEF validate_response_identity
    <2> QED
      BY <2>1, <2>2, Zenon
  <1> QED
    BY <1>1, <1>2, Zenon

\* The outcomes of a prefill, with those of its validation.
LEMMA PrefillResults ==
  ASSUME NEW s, NEW session, NEW c, c.op = "prefill",
         NEW r \in validate_response(Results(s, session, c))
  PROVE  PrefillResult(s, session, c.payload, r)
  <1> DEFINE p == c.payload
  <1>1. Results(s, session, c) = {Refused(session)} \cup OrUnusable(prefill(s, session, p))
    BY Zenon DEF Results, StageWorkerRun, validate_request
  <1>2. PICK q \in Results(s, session, c) : r.session = q.session /\ (r = q \/ ~r.ok)
    BY Validated, Zenon
  <1> HIDE DEF p
  <1>3. Refused(session).session = session /\ ~Refused(session).ok
    BY Zenon DEF Refused
  <1>4. PrefillResult(s, session, p, q)
    <2>1. CASE q = Refused(session)
      BY <2>1, <1>3, Zenon DEF PrefillResult
    <2>2. CASE q \in OrUnusable(prefill(s, session, p))
      <3>1. PICK o \in prefill(s, session, p) : q.session = o.session /\ (q = o \/ ~q.ok)
        BY <2>2, Unusable, Zenon
      <3>2. CASE o = Refused(session)
        BY <3>1, <3>2, <1>3, Zenon DEF PrefillResult
      <3>3. CASE o # Refused(session)
        <4>1. o = Computed(s, session, p) /\ ~Open(session)
          BY <3>1, <3>3, Zenon DEF prefill
        <4>2. /\ o.session = [cache |-> Cached(s, session, p), step |-> 1]
              /\ o.out = Activation(s, session, p)
          BY <4>1, Zenon DEF Computed
        <4> QED
          BY <3>1, <4>1, <4>2, Zenon DEF PrefillResult
      <3> QED
        BY <3>2, <3>3, Zenon
    <2> QED
      BY <1>1, <2>1, <2>2, Zenon
  <1>5. PrefillResult(s, session, p, r)
    BY <1>2, <1>4, Zenon DEF PrefillResult
  <1> QED
    BY <1>5, Zenon DEF p

\* The outcomes of a decode, with those of its validation.
LEMMA DecodeResults ==
  ASSUME NEW s, NEW session \in Sessions, NEW c, c.op = "decode",
         NEW r \in validate_response(Results(s, session, c))
  PROVE  DecodeResult(s, session, c.payload, c.step, r)
  <1> DEFINE p == c.payload
             n == c.step
  <1>1. Results(s, session, c) = {Refused(session)} \cup OrUnusable(decode(s, session, p, n))
    BY Zenon DEF Results, StageWorkerRun, validate_request
  <1>2. PICK q \in Results(s, session, c) : r.session = q.session /\ (r = q \/ ~r.ok)
    BY Validated, Zenon
  <1> HIDE DEF p, n
  <1>3. Refused(session).session = session /\ ~Refused(session).ok
    BY Zenon DEF Refused
  <1>4. DecodeResult(s, session, p, n, q)
    <2>1. CASE q = Refused(session)
      BY <2>1, <1>3, Zenon DEF DecodeResult
    <2>2. CASE q \in OrUnusable(decode(s, session, p, n))
      <3>1. PICK o \in decode(s, session, p, n) : q.session = o.session /\ (q = o \/ ~q.ok)
        BY <2>2, Unusable, Zenon
      <3>2. CASE o = Refused(session)
        BY <3>1, <3>2, <1>3, Zenon DEF DecodeResult
      <3>3. CASE o # Refused(session)
        <4>1. /\ o \in {Computed(s, session, p), FailsAfter(s, session, p)}
              /\ Open(session) /\ session.step = n
          BY <3>1, <3>3, Zenon DEF decode
        <4>2. CASE o = Computed(s, session, p)
          <5>1. /\ o.session = [cache |-> Cached(s, session, p), step |-> n + Len(p.tokens)]
                /\ o.out = Activation(s, session, p)
            BY <4>1, <4>2, Zenon DEF Computed
          <5> QED
            BY <3>1, <4>1, <5>1 DEF DecodeResult
        <4>3. CASE o = FailsAfter(s, session, p)
          <5>1. [session EXCEPT !.cache = Cached(s, session, p)] =
                [cache |-> Cached(s, session, p), step |-> session.step]
            BY DEF Sessions
          <5>2. o.session = [cache |-> Cached(s, session, p), step |-> n] /\ ~o.ok
            BY <4>1, <4>3, <5>1, Zenon DEF FailsAfter, Refused
          <5> QED
            BY <3>1, <4>1, <5>2 DEF DecodeResult
        <4> QED
          BY <4>1, <4>2, <4>3, Zenon
      <3> QED
        BY <3>2, <3>3, Zenon
    <2> QED
      BY <1>1, <2>1, <2>2, Zenon
  <1>5. DecodeResult(s, session, p, n, r)
    BY <1>2, <1>4, Zenon DEF DecodeResult
  <1> QED
    BY <1>5, Zenon DEF p, n

\* The outcomes of a rollback, with those of its validation.
LEMMA RollbackResults ==
  ASSUME NEW s, NEW session \in Sessions, NEW c, c.op = "rollback", c.count \in Nat,
         NEW r \in validate_response(Results(s, session, c))
  PROVE  RollbackResult(session, c.count, r)
  <1> DEFINE k == c.count
  <1>1. Results(s, session, c) = {Refused(session)} \cup rollback_session(session, k)
    BY Zenon DEF Results, StageWorkerRollback, validate_request
  <1>2. PICK q \in Results(s, session, c) : r.session = q.session /\ (r = q \/ ~r.ok)
    BY Validated, Zenon
  <1>0. k \in Nat /\ session.step \in Nat /\ Len(session.cache) \in Nat
    BY LenProperties, Zenon DEF Sessions
  <1> HIDE DEF k
  <1>3. Refused(session).session = session /\ ~Refused(session).ok
    BY Zenon DEF Refused
  <1>4. RollbackResult(session, k, q)
    <2>1. CASE q = Refused(session)
      BY <2>1, <1>3, Zenon DEF RollbackResult
    <2>2. CASE q # Refused(session)
      <3>1. /\ q \in rollback_session(session, k)
            /\ ~(~Open(session) \/ k > Len(session.cache) \/ k >= session.step)
        BY <2>2, <1>1, <1>2, Zenon DEF rollback_session
      <3>2. q = [session |-> [cache |-> SubSeq(session.cache, 1, Len(session.cache) - k),
                              step  |-> session.step - k],
                 ok |-> TRUE, out |-> [tokens |-> <<>>, basis |-> <<>>]]
        BY <2>2, <3>1, Zenon DEF rollback_session
      <3>3. q.session = [cache |-> SubSeq(session.cache, 1, Len(session.cache) - k),
                         step  |-> session.step - k]
        BY <3>2, Zenon
      <3>4. Open(session) /\ k <= Len(session.cache) /\ k < session.step
        BY <3>1, <1>0
      <3> QED
        BY <3>3, <3>4, Zenon DEF RollbackResult
    <2> QED
      BY <2>1, <2>2, Zenon
  <1>5. RollbackResult(session, k, r)
    BY <1>2, <1>4, Zenon DEF RollbackResult
  <1> QED
    BY <1>5, Zenon DEF k

\* The outcomes of a close, with those of its validation.
LEMMA CloseResults ==
  ASSUME NEW s, NEW session, NEW c, c.op = "close",
         NEW r \in validate_response(Results(s, session, c))
  PROVE  CloseResult(session, r)
  <1>1. Results(s, session, c) = {Refused(session), close_session(session)}
    BY Zenon DEF Results, StageWorkerClose, validate_request
  <1>2. PICK q \in Results(s, session, c) : r.session = q.session /\ (r = q \/ ~r.ok)
    BY Validated, Zenon
  <1>3. Refused(session).session = session /\ ~Refused(session).ok
    BY Zenon DEF Refused
  <1>4. close_session(session).session = NoSession
    BY Zenon DEF close_session
  <1> QED
    BY <1>1, <1>2, <1>3, <1>4, Zenon DEF CloseResult

\* The rows that a call adds to the cache of its stage.
LEMMA CachedRows ==
  ASSUME NEW s, NEW session \in Sessions, NEW p, p.tokens \in Seq(Vocab)
  PROVE  /\ Cached(s, session, p) \in Seq(Rows)
         /\ Len(Cached(s, session, p)) = Len(session.cache) + Len(p.tokens)
         /\ Continues(s, session, p) =>
              /\ Cached(s, session, p) = session.cache \o p.tokens
              /\ Activation(s, session, p) = [tokens |-> p.tokens, basis |-> session.cache]
  <1> DEFINE t == p.tokens
             old == session.cache
             new == [i \in DOMAIN t |-> IF Continues(s, session, p) THEN t[i] ELSE Garbage]
  <1>1. /\ Len(t) \in Nat /\ DOMAIN t = 1..Len(t) /\ t \in [1..Len(t) -> Vocab]
        /\ t = [i \in 1..Len(t) |-> t[i]]
    BY LenProperties, Zenon
  <1>2. old \in Seq(Rows)
    BY Zenon DEF Sessions
  <1>3. new \in [1..Len(t) -> Rows]
    BY <1>1, Zenon DEF Rows
  <1>4. new \in Seq(Rows)
    BY <1>1, <1>3, SeqDef
  <1>5. Len(new) = Len(t)
    <2>1. DOMAIN new = 1..Len(t) /\ DOMAIN new = 1..Len(new) /\ Len(new) \in Nat
      BY <1>3, <1>4, LenProperties, Zenon
    <2> HIDE DEF new, t
    <2> QED
      BY <2>1, <1>1
  <1>6. Cached(s, session, p) = old \o new
    BY Zenon DEF Cached
  <1>7. Continues(s, session, p) => new = t
    BY <1>1, Zenon
  <1>8. Continues(s, session, p) => Activation(s, session, p) = [tokens |-> t, basis |-> old]
    BY Zenon DEF Activation
  <1> HIDE DEF new, old
  <1>9. old \o new \in Seq(Rows) /\ Len(old \o new) = Len(old) + Len(new)
    BY <1>2, <1>4, ConcatProperties, Zenon
  <1> QED
    BY Zenon, <1>5, <1>6, <1>7, <1>8, <1>9 DEF old

-----------------------------------------------------------------------------
(* Sampling and verification *)

\* What precedes a position of the second of two sequences.
LEMMA ConcatPrefix ==
  ASSUME NEW S, NEW p \in Seq(S), NEW q \in Seq(S), NEW i \in 0..Len(q)
  PROVE  p \o SubSeq(q, 1, i) = SubSeq(p \o q, 1, Len(p) + i)
  <1> DEFINE u == SubSeq(q, 1, i)
             c == p \o q
             k == Len(p) + i
             w == SubSeq(c, 1, k)
  <1>1. Len(p) \in Nat /\ Len(q) \in Nat /\ i \in Nat /\ i <= Len(q)
    BY LenProperties
  <1>2. /\ c \in Seq(S) /\ Len(c) = Len(p) + Len(q)
        /\ \A j \in 1..Len(p) + Len(q) : c[j] = IF j <= Len(p) THEN p[j] ELSE q[j - Len(p)]
    BY ConcatProperties, Zenon
  <1>3. u \in Seq(S) /\ Len(u) = i /\ \A j \in 1..i : u[j] = q[j]
    <2>1. \A j \in 1..i : q[j] \in S
      BY <1>1, ElementOfSeq
    <2> QED
      BY <2>1, <1>1, SubSeqProperties
  <1> HIDE DEF c
  <1>4. w \in Seq(S) /\ Len(w) = k /\ \A j \in 1..k : w[j] = c[j]
    <2>1. \A j \in 1..k : c[j] \in S
      BY <1>1, <1>2, ElementOfSeq
    <2> QED
      BY <2>1, <1>1, SubSeqProperties
  <1> HIDE DEF u, w
  <1>5. /\ p \o u \in Seq(S) /\ Len(p \o u) = Len(p) + Len(u)
        /\ \A j \in 1..Len(p) + Len(u) : (p \o u)[j] = IF j <= Len(p) THEN p[j] ELSE u[j - Len(p)]
    BY Zenon, <1>3, ConcatProperties
  <1>6. ASSUME NEW j \in 1..k PROVE (p \o u)[j] = w[j]
    <2>1. (p \o u)[j] = IF j <= Len(p) THEN p[j] ELSE u[j - Len(p)]
      BY <1>3, <1>5, Zenon
    <2>2. w[j] = IF j <= Len(p) THEN p[j] ELSE q[j - Len(p)]
      BY <1>1, <1>2, <1>4
    <2>3. Len(p) < j => j - Len(p) \in 1..i
      BY <1>1
    <2> QED
      BY <2>1, <2>2, <2>3, <1>1, <1>3
  <1>7. p \o u = w
    BY Zenon, <1>3, <1>4, <1>5, <1>6, SeqEqual
  <1> QED
    BY <1>7, Zenon DEF u, w, c

\* As far as a draft agrees with the model's choices, it is the completion.
LEMMA DraftOnGreedy ==
  ASSUME NEW t \in Truths, NEW n \in 0..MaxTokens, NEW d \in Seq(Vocab),
         NEW a \in 0..Len(d), n + a <= MaxTokens,
         \A j \in 1..a : d[j] = t[n + j]
  PROVE  SubSeq(Greedy(t, n) \o d, 1, Len(Prompt) + n + a) = Greedy(t, n + a)
  <1> DEFINE V == Vocab \cup {EOG}
             g == Greedy(t, n)
             h == Greedy(t, n + a)
             c == g \o d
             k == Len(Prompt) + n + a
             w == SubSeq(c, 1, k)
  <1>1. /\ Len(Prompt) \in Nat /\ Len(d) \in Nat /\ n \in Nat /\ a \in Nat /\ a <= Len(d)
        /\ n + a \in 0..MaxTokens
    BY Constants, LenProperties
  <1>2. /\ g \in Seq(V) /\ Len(g) = Len(Prompt) + n
        /\ \A i \in 1..Len(Prompt) + n : g[i] = IF i <= Len(Prompt) THEN Prompt[i] ELSE t[i - Len(Prompt)]
    BY GreedyProperties, Zenon
  <1>3. /\ h \in Seq(V) /\ Len(h) = k
        /\ \A i \in 1..k : h[i] = IF i <= Len(Prompt) THEN Prompt[i] ELSE t[i - Len(Prompt)]
    <2> HIDE DEF V
    <2>1. /\ h \in Seq(Vocab \cup {EOG}) /\ Len(h) = Len(Prompt) + (n + a)
          /\ \A i \in 1..Len(Prompt) + (n + a) :
               h[i] = IF i <= Len(Prompt) THEN Prompt[i] ELSE t[i - Len(Prompt)]
      BY Zenon, <1>1, GreedyProperties
    <2>2. Len(Prompt) + (n + a) = k
      BY <1>1
    <2> QED
      BY <2>1, <2>2, Zenon DEF V
  <1>4. d \in Seq(V)
    BY SeqMonotonic, Zenon
  <1> HIDE DEF g, h, V
  <1>5. /\ c \in Seq(V) /\ Len(c) = Len(g) + Len(d)
        /\ \A i \in 1..Len(g) + Len(d) : c[i] = IF i <= Len(g) THEN g[i] ELSE d[i - Len(g)]
    BY Zenon, <1>2, <1>4, ConcatProperties
  <1> HIDE DEF c
  <1>6. w \in Seq(V) /\ Len(w) = k /\ \A i \in 1..k : w[i] = c[i]
    <2>1. \A i \in 1..k : c[i] \in V
      BY <1>1, <1>2, <1>5, ElementOfSeq
    <2> QED
      BY <2>1, <1>1, SubSeqProperties
  <1> HIDE DEF w
  <1>7. ASSUME NEW i \in 1..k PROVE w[i] = h[i]
    <2>1. w[i] = IF i <= Len(g) THEN g[i] ELSE d[i - Len(g)]
      BY <1>1, <1>2, <1>5, <1>6
    <2>2. CASE i <= Len(g)
      <3>1. i \in 1..Len(Prompt) + n /\ i \in 1..k
        BY <2>2, <1>1, <1>2
      <3>2. w[i] = g[i]
        BY <2>1, <2>2, Zenon
      <3>3. g[i] = IF i <= Len(Prompt) THEN Prompt[i] ELSE t[i - Len(Prompt)]
        BY Zenon, <3>1, <1>2
      <3>4. h[i] = IF i <= Len(Prompt) THEN Prompt[i] ELSE t[i - Len(Prompt)]
        BY <3>1, <1>3, Zenon
      <3> QED
        BY <3>2, <3>3, <3>4, Zenon
    <2>3. CASE i > Len(g)
      <3> DEFINE j == i - Len(g)
      <3>1. j \in 1..a /\ n + j = i - Len(Prompt) /\ ~(i <= Len(g)) /\ ~(i <= Len(Prompt))
        BY <2>3, <1>1, <1>2
      <3>2. d[j] = t[n + j]
        BY <3>1, Zenon
      <3> QED
        BY Zenon, <2>1, <3>1, <3>2, <1>3
    <2> QED
      BY <2>2, <2>3, <1>1, <1>2
  <1>8. w = h
    BY <1>3, <1>6, <1>7, SeqEqual, Zenon
  <1> QED
    BY Zenon, <1>8 DEF w, c, g, h

\* After a prefix of the completion the model chooses its next token.
LEMMA SampledGreedy ==
  ASSUME truth \in Truths, NEW m \in 0..MaxTokens - 1, Goes(truth, m)
  PROVE  Sampled(Greedy(truth, m)) = {truth[m + 1]}
  <1>1. m \in 0..MaxTokens /\ Len(Prompt) \in Nat /\ m \in Nat /\ m < MaxTokens
    BY Constants
  <1>2. Len(Greedy(truth, m)) - Len(Prompt) = m
    <2>1. Len(Greedy(truth, m)) = Len(Prompt) + m
      BY <1>1, GreedyProperties, Zenon
    <2> QED
      BY <1>1, <2>1
  <1>3. Prompt \o SubSeq(truth, 1, m) = Greedy(truth, m)
    BY Zenon DEF Greedy
  <1> QED
    <2> DEFINE g == Greedy(truth, m)
    <2> HIDE DEF g
    <2>1. Sampled(g) =
            IF /\ m >= 0 /\ m < MaxTokens /\ g = Prompt \o SubSeq(truth, 1, m)
               /\ \A i \in 1..m : truth[i] # EOG
            THEN {truth[m + 1]} ELSE Vocab \cup {EOG}
      <3>1. Len(g) - Len(Prompt) = m
        BY <1>2, Zenon DEF g
      <3> QED
        BY <3>1, Zenon DEF Sampled
    <2>2. m >= 0 /\ m < MaxTokens /\ \A i \in 1..m : truth[i] # EOG
      BY <1>1 DEF Goes
    <2> QED
      BY <1>3, <2>1, <2>2, Zenon DEF g

\* The row of a pass after a prefix of its draft that the model confirms.
LEMMA SampledDraft ==
  ASSUME truth \in Truths, NEW n \in 1..MaxTokens, Goes(truth, n),
         NEW d \in Seq(Vocab), n + Len(d) < MaxTokens,
         NEW i \in 1..Len(d) + 1, \A j \in 1..i - 1 : d[j] = truth[n + j]
  PROVE  Sampled(Greedy(truth, n - 1) \o SubSeq(<<truth[n]>> \o d, 1, i)) = {truth[n + i]}
  <1> DEFINE V == Vocab \cup {EOG}
             g == Greedy(truth, n - 1)
             q == <<truth[n]>> \o d
             m == n + (i - 1)
  <1>1. /\ n \in Nat /\ i \in Nat /\ Len(d) \in Nat /\ Len(Prompt) \in Nat /\ MaxTokens \in Nat
        /\ n - 1 \in 0..MaxTokens /\ n \in 0..MaxTokens
        /\ i - 1 \in 0..Len(d) /\ m \in 0..MaxTokens - 1 /\ m <= MaxTokens
    BY Constants, LenProperties
  <1>2. d \in Seq(V) /\ truth[n] \in V
    BY SeqMonotonic, TruthSeq, Zenon
  <1>3. q \in Seq(V) /\ Len(q) = Len(d) + 1
    <2>1. <<truth[n]>> \in Seq(V) /\ Len(<<truth[n]>>) = 1
      BY <1>2
    <2> QED
      BY <2>1, <1>1, <1>2, ConcatProperties
  <1>4. g \in Seq(V) /\ Len(g) = Len(Prompt) + (n - 1)
    BY Zenon, <1>1, GreedyProperties
  <1>5. g \o q = Greedy(truth, n) \o d
    BY Zenon, <1>2, GreedyStep
  <1>6. SubSeq(Greedy(truth, n) \o d, 1, Len(Prompt) + n + (i - 1)) = Greedy(truth, m)
    BY Zenon, <1>1, DraftOnGreedy
  <1> HIDE DEF g, q, V
  <1>7. i \in 0..Len(q) /\ Len(g) + i = Len(Prompt) + n + (i - 1)
    BY <1>1, <1>3, <1>4
  <1>8. g \o SubSeq(q, 1, i) = SubSeq(g \o q, 1, Len(g) + i)
    BY Zenon, <1>3, <1>4, <1>7, ConcatPrefix
  <1>9. g \o SubSeq(q, 1, i) = Greedy(truth, m)
    BY Zenon, <1>5, <1>6, <1>7, <1>8
  <1>10. Goes(truth, m)
    <2>1. ASSUME NEW k \in 1..m PROVE truth[k] # EOG
      <3>1. CASE k <= n
        BY <3>1, <1>1 DEF Goes
      <3>2. CASE k > n
        <4>1. k - n \in 1..i - 1 /\ k - n \in 1..Len(d) /\ n + (k - n) = k
          BY <3>2, <1>1
        <4>2. d[k - n] = truth[k] /\ d[k - n] \in Vocab
          BY <4>1, ElementOfSeq, Zenon
        <4> QED
          BY <4>2, Constants, Zenon
      <3> QED
        BY <3>1, <3>2, <1>1
    <2> QED
      BY <2>1, Zenon DEF Goes
  <1>11. Sampled(Greedy(truth, m)) = {truth[m + 1]} /\ m + 1 = n + i
    BY <1>1, <1>10, SampledGreedy
  <1> QED
    BY Zenon, <1>9, <1>11 DEF g, q

\* The accepted part of a draft, and the first token that is not in it.
LEMMA AcceptedDraft ==
  ASSUME Len(draft) \in Nat, NEW target
  PROVE  /\ Accepted(target) \in 0..Len(draft)
         /\ \A i \in 1..Accepted(target) : target[i] # EOG /\ target[i] = draft[i]
  <1> DEFINE agrees(i) == target[i] # EOG /\ target[i] = draft[i]
             L == Len(draft)
             S == {k \in 0..L : k < L => ~agrees(k + 1)}
             P(a) == (\A i \in 1..a : agrees(i)) /\ (a < L => ~agrees(a + 1))
  <1>1. L \in S /\ S \subseteq Nat
    OBVIOUS
  <1>2. PICK a \in S : \A k \in S : a <= k
    <2> HIDE DEF S
    <2> QED
      BY Zenon, <1>1, LeastElement
  <1>3. a \in 0..L /\ (a < L => ~agrees(a + 1))
    BY Zenon
  <1>4. ASSUME NEW i \in 1..a PROVE agrees(i)
    <2>1. i - 1 \in 0..L /\ i - 1 < a /\ i - 1 < L /\ (i - 1) + 1 = i
      BY <1>3
    <2>2. ~(i - 1 \in S)
      BY <1>2, <1>3, <2>1
    <2> HIDE DEF agrees
    <2>3. agrees((i - 1) + 1)
      BY <2>1, <2>2, Zenon
    <2> QED
      BY <2>1, <2>3, Zenon
  <1>5. \E b \in 0..L : P(b)
    <2> HIDE DEF agrees
    <2> QED
      BY <1>3, <1>4, Zenon
  <1>6. Accepted(target) = CHOOSE b \in 0..L : P(b)
    BY Zenon DEF Accepted
  <1>7. Accepted(target) \in 0..L /\ P(Accepted(target))
    <2> HIDE DEF P, L
    <2> QED
      BY <1>5, <1>6, Zenon
  <1> QED
    BY <1>7, Zenon

\* What a verified pass confirms: the model's choices, up to the first that the
\* draft missed.
LEMMA ConfirmedTokens ==
  ASSUME step \in Nat, Len(draft) \in Nat,
         \A i \in 1..Len(draft) + 1 :
            (\A j \in 1..i - 1 : draft[j] = truth[step + j]) => tokens[i] = truth[step + i]
  PROVE  \A i \in 1..Accepted(tokens) + 1 : tokens[i] = truth[step + i]
  <1> DEFINE a == Accepted(tokens)
             B == {i \in 1..a + 1 : tokens[i] # truth[step + i]}
  <1>1. a \in 0..Len(draft) /\ \A i \in 1..a : tokens[i] = draft[i]
    BY AcceptedDraft, Zenon
  <1> HIDE DEF a
  <1>2. SUFFICES ASSUME B # {} PROVE FALSE
    BY Zenon DEF a
  <1>3. B \subseteq Nat
    OBVIOUS
  <1>4. PICK m \in B : \A k \in B : m <= k
    <2> HIDE DEF B
    <2> QED
      BY Zenon, <1>2, <1>3, LeastElement
  <1>5. m \in 1..a + 1 /\ m \in 1..Len(draft) + 1 /\ tokens[m] # truth[step + m]
    BY <1>1
  <1>6. ASSUME NEW j \in 1..m - 1 PROVE draft[j] = truth[step + j]
    <2>1. j \in 1..a /\ j \in 1..a + 1 /\ ~(m <= j)
      BY <1>1, <1>5
    <2>2. tokens[j] = truth[step + j]
      BY <1>4, <2>1, Zenon
    <2> QED
      BY <1>1, <2>1, <2>2, Zenon
  <1> QED
    BY <1>5, <1>6, Zenon

-----------------------------------------------------------------------------
(* Sessions stay bounded *)

\* The absent session is well formed.
LEMMA NoSessionFine == Fine(NoSession) /\ ~Open(NoSession)
  <1>1. <<>> \in Seq(Rows)
    BY EmptySeq, Zenon
  <1> QED
    BY <1>1 DEF Fine, NoSession, Sessions, Open

\* The parts of a well-formed session.
LEMMA FineSession ==
  ASSUME NEW session, Fine(session)
  PROVE  /\ session \in Sessions /\ session.cache \in Seq(Rows)
         /\ Len(session.cache) \in Nat /\ session.step \in Nat
         /\ ~Open(session) => session.cache = <<>>
  <1>1. session \in Sessions /\ session.cache \in Seq(Rows) /\ session.step \in Nat
    BY Zenon DEF Fine, Sessions
  <1>2. ~Open(session) => session.cache = <<>>
    BY DEF Fine, NoSession
  <1> QED
    BY <1>1, <1>2, LenProperties, Zenon

\* A call leaves a session as it was, makes it shorter, or adds its rows to it.
Moved(old, new, c) ==
    Open(new) =>
        \/ Open(old) /\ Len(new.cache) <= Len(old.cache)
        \/ /\ c.op = (IF Open(old) THEN "decode" ELSE "prefill")
           /\ Len(new.cache) = Len(old.cache) + Len(c.payload.tokens)

\* A call leaves a well-formed session, moved as its kind allows.
LEMMA ResultFits ==
  ASSUME NEW s, NEW session, Fine(session), NEW c, CallFits(session, c),
         NEW r \in validate_response(Results(s, session, c))
  PROVE  Fine(r.session) /\ Moved(session, r.session, c)
  <1> DEFINE p == c.payload
             new == r.session
  <1>1. /\ session \in Sessions /\ session.cache \in Seq(Rows)
        /\ Len(session.cache) \in Nat /\ session.step \in Nat
        /\ ~Open(session) => session.cache = <<>>
    BY FineSession, Zenon
  <1>2. CASE new = session
    <2>1. Fine(new) /\ Len(new.cache) = Len(session.cache) /\ (Open(new) => Open(session))
      BY <1>2, Zenon
    <2>2. Open(new) => Open(session) /\ Len(new.cache) <= Len(session.cache)
      <3> HIDE DEF new
      <3> QED
        BY <1>1, <2>1
    <2> QED
      BY Zenon, <2>1, <2>2 DEF Moved
  <1>3. CASE c.op = "prefill" /\ new # session
    <2>1. p.tokens \in Seq(Vocab)
      BY <1>3, Constants, Zenon DEF CallFits
    <2>2. /\ ~Open(session)
          /\ new = [cache |-> Cached(s, session, p), step |-> 1]
      BY <1>3, PrefillResults, Zenon DEF PrefillResult
    <2>3. /\ Cached(s, session, p) \in Seq(Rows)
          /\ Len(Cached(s, session, p)) = Len(session.cache) + Len(p.tokens)
      BY Zenon, <1>1, <2>1, CachedRows
    <2>4. new.cache = Cached(s, session, p) /\ new.step = 1 /\ new \in Sessions
      BY <2>2, <2>3 DEF Sessions
    <2>5. Fine(new)
      BY <2>4 DEF Fine, Open
    <2> QED
      BY Zenon, <1>3, <2>2, <2>3, <2>4, <2>5 DEF Moved
  <1>4. CASE c.op = "decode" /\ new # session
    <2>1. p.tokens \in Seq(Vocab) /\ Len(p.tokens) \in Nat
      BY <1>4, LenProperties, Zenon DEF CallFits
    <2>2. /\ Open(session) /\ session.step = c.step
          /\ \/ new = [cache |-> Cached(s, session, p), step |-> c.step + Len(p.tokens)]
             \/ new = [cache |-> Cached(s, session, p), step |-> c.step]
      BY <1>1, <1>4, DecodeResults DEF DecodeResult
    <2>3. /\ Cached(s, session, p) \in Seq(Rows)
          /\ Len(Cached(s, session, p)) = Len(session.cache) + Len(p.tokens)
      BY Zenon, <1>1, <2>1, CachedRows
    <2>4. c.step \in Nat /\ c.step > 0
      BY <1>1, <2>2, Zenon DEF Open
    <2>5. new.cache = Cached(s, session, p) /\ new.step > 0 /\ new \in Sessions
      BY <2>1, <2>2, <2>3, <2>4 DEF Sessions
    <2>6. Fine(new)
      BY <2>5, Zenon DEF Fine, Open
    <2> QED
      BY Zenon, <1>4, <2>2, <2>3, <2>5, <2>6 DEF Moved
  <1>5. CASE c.op = "rollback" /\ new # session
    <2>1. c.count \in Nat
      BY <1>5, Zenon DEF CallFits
    <2> DEFINE k == c.count
               n == Len(session.cache) - k
               cut == SubSeq(session.cache, 1, n)
    <2>2. /\ Open(session) /\ k <= Len(session.cache) /\ k < session.step
          /\ new = [cache |-> cut, step |-> session.step - k]
      BY <1>1, <1>5, <2>1, RollbackResults, Zenon DEF RollbackResult
    <2>3. n \in Nat /\ n <= Len(session.cache)
      BY <1>1, <2>1, <2>2
    <2> HIDE DEF n
    <2>4. cut \in Seq(Rows) /\ Len(cut) = n
      <3>1. \A i \in 1..n : session.cache[i] \in Rows
        BY <1>1, <2>3, ElementOfSeq
      <3> QED
        BY <3>1, <2>3, SubSeqProperties
    <2> HIDE DEF cut
    <2>5. new.cache = cut /\ new.step > 0 /\ new.step \in Nat /\ new \in Sessions
      BY <1>1, <2>1, <2>2, <2>4 DEF Sessions
    <2>6. Fine(new)
      BY <2>5, Zenon DEF Fine, Open
    <2> QED
      BY Zenon, <2>2, <2>3, <2>4, <2>5, <2>6 DEF Moved
  <1>6. CASE c.op = "close" /\ new # session
    <2>1. new = NoSession
      BY <1>6, CloseResults, Zenon DEF CloseResult
    <2> QED
      BY Zenon, <2>1, NoSessionFine DEF Moved
  <1> QED
    BY <1>2, <1>3, <1>4, <1>5, <1>6, Zenon DEF CallFits, Ops

\* Stages other than the called one keep their session.
LEMMA SessUpdated ==
  ASSUME SessTypes, NEW i \in 1..Stages, NEW x, sess' = [sess EXCEPT ![i] = x]
  PROVE  /\ sess'[i] = x /\ DOMAIN sess' = 1..Stages
         /\ \A s \in 1..Stages : s # i => sess'[s] = sess[s]
  BY Zenon DEF SessTypes

\* The sessions stay well formed when one stage takes a well-formed one.
LEMMA SessTyped ==
  ASSUME SessTypes, NEW i \in 1..Stages, NEW x, Fine(x), sess' = [sess EXCEPT ![i] = x]
  PROVE  SessTypes'
  <1>1. /\ sess'[i] = x /\ DOMAIN sess' = 1..Stages
        /\ \A s \in 1..Stages : s # i => sess'[s] = sess[s]
    BY Zenon, SessUpdated
  <1>2. ASSUME NEW s \in 1..Stages PROVE Fine(sess'[s])
    <2>1. CASE s = i
      BY <1>1, <2>1, Zenon
    <2>2. CASE s # i
      <3>1. sess'[s] = sess[s] /\ Fine(sess[s])
        BY <1>1, <2>2, Zenon DEF SessTypes
      <3> QED
        BY <3>1, Zenon
    <2> QED
      BY <2>1, <2>2, Zenon
  <1> QED
    BY <1>1, <1>2, Zenon DEF SessTypes

\* The reserved positions hold the prompt.
LEMMA ReservedPrompt == Reserved \in Nat /\ Len(Prompt) <= Reserved
  BY Constants DEF Reserved

\* A stage executes a call: no other call that is still to come would compute rows
\* on top of it.
LEMMA CallBounded ==
  ASSUME SessTypes, Bounded, NEW i \in 1..Stages, NEW c, CallFits(sess[i], c),
         NEW r \in validate_response(Results(i, sess[i], c)),
         sess' = [sess EXCEPT ![i] = r.session], late' \subseteq late,
         Computes(c) => \A l \in late' : ~Computes(l.call)
  PROVE  SessTypes' /\ Bounded'
  <1> DEFINE old == sess[i]
             new == r.session
  <1>1. Fine(old)
    BY Zenon DEF SessTypes
  <1>2. Fine(new) /\ Moved(old, new, c)
    BY <1>1, ResultFits, Zenon
  <1>3. SessTypes'
    BY Zenon, <1>2, SessTyped
  <1>4. sess'[i] = new /\ \A s \in 1..Stages : s # i => sess'[s] = sess[s]
    BY Zenon, SessUpdated
  <1>5. /\ Len(new.cache) \in Nat /\ Len(old.cache) \in Nat
        /\ ~Open(old) => old.cache = <<>>
    BY <1>1, <1>2, FineSession, Zenon
  <1>6. Open(old) => Len(old.cache) <= Reserved
    BY Zenon DEF Bounded
  <1> HIDE DEF old, new
  <1>7. Open(new) => Len(new.cache) <= Reserved
    <2>1. CASE Open(old) /\ Len(new.cache) <= Len(old.cache)
      BY <2>1, <1>5, <1>6, ReservedPrompt
    <2>2. CASE Open(old) /\ c.op = "decode" /\ Len(new.cache) = Len(old.cache) + Len(c.payload.tokens)
      BY Zenon, <2>2 DEF CallFits, old
    <2>3. CASE ~Open(old) /\ c.op = "prefill" /\ Len(new.cache) = Len(old.cache) + Len(c.payload.tokens)
      <3>1. c.payload.tokens = Prompt /\ Len(old.cache) = 0
        BY <2>3, <1>5, EmptySeq, Zenon DEF CallFits
      <3> QED
        BY <2>3, <3>1, ReservedPrompt, Constants
    <2> QED
      BY Zenon, <1>2, <2>1, <2>2, <2>3 DEF Moved
  <1>8. \A s \in 1..Stages : Open(sess'[s]) => Len(sess'[s].cache) <= Reserved
    <2>1. ASSUME NEW s \in 1..Stages, s # i, Open(sess'[s]) PROVE Len(sess'[s].cache) <= Reserved
      <3>1. sess'[s] = sess[s]
        BY <2>1, <1>4, Zenon
      <3> QED
        BY <2>1, <3>1, Zenon DEF Bounded
    <2> QED
      BY <1>4, <1>7, <2>1, Zenon
  <1>9. ASSUME NEW l \in late' PROVE l.stage \in 1..Stages /\ CallFits(sess'[l.stage], l.call)
    <2>1. l.stage \in 1..Stages /\ CallFits(sess[l.stage], l.call)
      BY Zenon DEF Bounded
    <2>2. CASE l.stage # i
      BY <2>1, <2>2, <1>4, Zenon
    <2>3. CASE l.stage = i
      <3>1. CallFits(old, l.call)
        BY <2>1, <2>3, Zenon DEF old
      <3>2. ASSUME l.call.op = "decode", Open(new)
            PROVE  Len(new.cache) + Len(l.call.payload.tokens) <= Reserved
        <4>1. ~Computes(c)
          BY <3>2, Zenon DEF Computes
        <4>2. Open(old) /\ Len(new.cache) <= Len(old.cache)
          BY Zenon, <1>2, <3>2, <4>1 DEF Computes, Moved
        <4>3. /\ Len(old.cache) + Len(l.call.payload.tokens) <= Reserved
              /\ l.call.payload.tokens \in Seq(Vocab)
          BY Zenon, <3>1, <3>2, <4>2 DEF CallFits
        <4>4. Len(l.call.payload.tokens) \in Nat
          BY <4>3, LenProperties, Zenon
        <4> DEFINE a == Len(new.cache)
                   b == Len(old.cache)
                   k == Len(l.call.payload.tokens)
        <4>5. a \in Nat /\ b \in Nat /\ k \in Nat /\ Reserved \in Nat /\ a <= b /\ b + k <= Reserved
          BY Zenon, <1>5, <4>2, <4>3, <4>4, ReservedPrompt
        <4> HIDE DEF a, b, k
        <4>6. a + k <= Reserved
          BY <4>5
        <4> QED
          BY Zenon, <4>6 DEF a, k
      <3>3. CallFits(new, l.call)
        BY Zenon, <3>1, <3>2 DEF CallFits
      <3> QED
        BY <2>1, <2>3, <3>3, <1>4, Zenon
    <2> QED
      BY <2>2, <2>3, Zenon
  <1>10. \A l, m \in late' : Computes(l.call) /\ Computes(m.call) => l = m
    BY Zenon DEF Bounded
  <1> QED
    BY <1>3, <1>8, <1>9, <1>10, Zenon DEF Bounded, Computes

\* A call that is not answered.
LEMMA UnansweredBounded ==
  ASSUME SessTypes, Bounded, stage \in 1..Stages, Unanswered,
         CallFits(sess[stage], call), Computes(call) => late = {}
  PROVE  /\ SessTypes' /\ Bounded'
         /\ late' \subseteq late \cup {[stage |-> stage, call |-> call]}
         /\ \A s \in 1..Stages : s # stage => sess'[s] = sess[s]
  <1> DEFINE R == Results(stage, sess[stage], call)
             here == [stage |-> stage, call |-> call]
  <1>1. CASE UNCHANGED <<sess, late>>
    <2>1. SessTypes' /\ Bounded'
      BY <1>1, Zenon DEF SessTypes, Bounded
    <2> QED
      BY <1>1, <2>1, Zenon
  <1>2. CASE (\E r \in R : sess' = [sess EXCEPT ![stage] = r.session]) /\ UNCHANGED late
    <2>1. PICK r \in R : sess' = [sess EXCEPT ![stage] = r.session]
      BY Zenon, <1>2
    <2>2. r \in validate_response(R)
      BY Validated, Zenon
    <2>3. Computes(call) => \A l \in late' : ~Computes(l.call)
      BY <1>2, Zenon
    <2> HIDE DEF R
    <2>4. SessTypes' /\ Bounded'
      BY Zenon, <1>2, <2>1, <2>2, <2>3, CallBounded DEF R
    <2>5. \A s \in 1..Stages : s # stage => sess'[s] = sess[s]
      BY <2>1, SessUpdated, Zenon
    <2> QED
      BY <1>2, <2>4, <2>5, Zenon
  <1>3. CASE late' = late \cup {here} /\ UNCHANGED sess
    <2>1. SessTypes'
      BY <1>3, Zenon DEF SessTypes
    <2>2. here.stage = stage /\ here.call = call
      BY Zenon
    <2> HIDE DEF here
    <2>3. \A l \in late' : l.stage \in 1..Stages /\ CallFits(sess'[l.stage], l.call)
      <3>1. \A l \in late' : l.stage \in 1..Stages /\ CallFits(sess[l.stage], l.call)
        BY <1>3, <2>2, Zenon DEF Bounded
      <3> QED
        BY <1>3, <3>1, Zenon
    <2>4. ASSUME NEW l \in late', NEW m \in late', Computes(l.call), Computes(m.call) PROVE l = m
      <3>1. CASE Computes(call)
        BY <1>3, <3>1, Zenon
      <3>2. CASE ~Computes(call)
        BY <1>3, <2>2, <2>4, <3>2, Zenon DEF Bounded
      <3> QED
        BY <3>1, <3>2, Zenon
    <2>5. \A s \in 1..Stages : Open(sess'[s]) => Len(sess'[s].cache) <= Reserved
      BY <1>3, Zenon DEF Bounded
    <2>6. Bounded'
      BY <2>3, <2>4, <2>5, Zenon DEF Bounded
    <2> QED
      BY <1>3, <2>1, <2>6, Zenon DEF here
  <1> QED
    BY <1>1, <1>2, <1>3, Zenon DEF Unanswered

-----------------------------------------------------------------------------
(* Steps of the runner *)

\* What is said of another place than the one the runner goes to holds.
LEMMA Vacuous ==
  /\ pc' # "new" => New'
  /\ pc' # "pass" => Prefilling' /\ Decoding'
  /\ pc' # "verify" => Prefilled' /\ Decoded'
  /\ pc' # "rollback" => RollingBack'
  /\ pc' # "emit" => Emitting'
  /\ pc' # "close" => Closing'
  /\ pc' # "done" => Done'
  BY Zenon DEF New, Prefilling, Decoding, Prefilled, Decoded, RollingBack, Emitting, Closing, Done

\* The runner goes on to close the sessions.
LEMMA ToClose ==
  ASSUME NEW why \in {"stop", "length", "failed"}, CloseAll(why)
  PROVE  /\ pc' = "close" /\ stage' = 1 /\ reason' = why
         /\ New' /\ Prefilling' /\ Prefilled' /\ Decoding' /\ Decoded' /\ RollingBack'
         /\ Emitting' /\ Closing' /\ Done'
  <1>1. pc' = "close" /\ stage' = 1 /\ reason' = why /\ call' = Call("close", NoPayload, 0, 0)
    BY Zenon DEF CloseAll, Begin
  <1>2. call'.op = "close"
    BY <1>1, Zenon DEF Call
  <1>3. \A s \in 1..Stages : ~(s < stage')
    BY <1>1, Constants
  <1>4. Closing'
    BY Zenon, <1>1, <1>2, <1>3 DEF Closing
  <1> QED
    BY <1>1, <1>4, Vacuous, Zenon

\* There is a first stage.
LEMMA StageOne == 1 \in 1..Stages
  BY Constants

\* The loops over the stages.
LEMMA StageOrder ==
  ASSUME NEW k \in 1..Stages
  PROVE  /\ ~(k < k) /\ k + 1 # 1
         /\ k < Stages => k + 1 \in 1..Stages
         /\ \A s \in 1..Stages : (s < k + 1) = (s < k \/ s = k)
         /\ ~(k < Stages) => k = Stages /\ \A s \in 1..Stages : s # k => s < k
  BY Constants

\* The invariant holds before the generation starts.
LEMMA InitInv == ASSUME Init PROVE IInv
  <1>1. sess = [s \in 1..Stages |-> NoSession] /\ DOMAIN sess = 1..Stages
    BY Zenon DEF Init
  <1>2. \A s \in 1..Stages : sess[s] = NoSession
    BY <1>1, Zenon
  <1>3. SessTypes
    BY <1>1, <1>2, NoSessionFine, Zenon DEF SessTypes
  <1>4. Types
    BY Zenon, <1>3, StageOne DEF Init, Types, Truths, Pcs
  <1>5. Output
    <2>1. truth \in Truths /\ out = <<>> /\ reason = ""
      BY Zenon DEF Init, Truths
    <2>2. Len(out) = 0 /\ 0 \in 0..MaxTokens
      <3>1. 0 \in 0..MaxTokens
        BY Constants
      <3> QED
        BY Zenon, <2>1, <3>1, EmptySeq
    <2>3. out = SubSeq(truth, 1, 0)
      <3>1. 0 \in Int /\ 1 \in Int /\ 0 < 1
        OBVIOUS
      <3>2. SubSeq(truth, 1, 0) = <<>>
        BY <3>1, SubSeqEmpty, Zenon
      <3> QED
        BY Zenon, <2>1, <3>2
    <2>4. Goes(truth, 0)
      BY DEF Goes
    <2> QED
      BY Zenon, <2>1, <2>2, <2>3, <2>4 DEF Output
  <1>6. New
    BY Zenon, <1>2 DEF Init, New, Unharmed
  <1>7. Lost /\ Bounded
    BY Zenon, <1>2, NoSessionFine DEF Init, Lost, Bounded
  <1>8. Prefilling /\ Prefilled /\ Decoding /\ Decoded /\ RollingBack /\ Emitting /\ Closing /\ Done
    BY Zenon
       DEF Init, Prefilling, Decoding, Prefilled, Decoded, RollingBack, Emitting, Closing, Done
  <1> QED
    BY <1>4, <1>5, <1>6, <1>7, <1>8, Zenon DEF IInv

\* The start of the generation, and its refusal for the context.
LEMMA GenerateInv == ASSUME IInv, Generate PROVE IInv'
  <1> USE DEF engineVars
  <1>1. /\ pc = "new" /\ UNCHANGED <<truth, sess, late, faults, draft, tokens, out, step, unclosed, reason>>
        /\ Types /\ Output /\ Lost /\ Bounded /\ New
    BY Zenon DEF Generate, IInv
  <1>2. /\ Unharmed /\ out = <<>> /\ draft = <<>> /\ tokens = <<>> /\ step = 1
        /\ \A s \in 1..Stages : sess[s] = NoSession
    BY <1>1, Zenon DEF New
  <1>3. SessTypes' /\ Output' /\ Bounded' /\ Unharmed'
    BY Zenon, <1>1, <1>2 DEF Types, SessTypes, Output, Bounded, Unharmed
  <1>4. CASE pc' = "done" /\ outcome' = "failed" /\ UNCHANGED <<stage, call>>
    <2>1. Types'
      BY Zenon, <1>1, <1>3, <1>4 DEF Types, Pcs
    <2>2. Done'
      BY <1>1, <1>2, <1>4, NoSessionFine, Zenon DEF Done
    <2>3. Lost'
      BY <1>1, <1>4, Zenon DEF Lost
    <2> QED
      BY <1>3, <1>4, <2>1, <2>2, <2>3, Vacuous, Zenon DEF IInv
  <1>5. CASE /\ Begin("pass", Call("prefill", [tokens |-> Prompt, basis |-> <<>>], 0, 0))
             /\ UNCHANGED outcome
    <2>1. /\ pc' = "pass" /\ stage' = 1 /\ outcome' = outcome
          /\ call' = Call("prefill", [tokens |-> Prompt, basis |-> <<>>], 0, 0)
      BY <1>5, Zenon DEF Begin
    <2>2. call'.op = "prefill"
      BY <2>1, Zenon DEF Call
    <2>3. Types'
      BY Zenon, <1>1, <1>3, <2>1, StageOne DEF Types, Pcs
    <2>4. \A s \in 1..Stages : ~(s < stage') /\ sess'[s] = NoSession
      BY <1>1, <1>2, <2>1, Constants
    <2>5. Prefilling'
      BY <1>1, <1>2, <1>3, <2>1, <2>4, Zenon DEF Prefilling
    <2>6. Decoding'
      BY <2>2, Zenon DEF Decoding
    <2>7. Lost'
      BY <1>1, <2>1, Zenon DEF Lost
    <2> QED
      BY <1>3, <2>1, <2>3, <2>5, <2>6, <2>7, Vacuous DEF IInv
  <1> QED
    BY <1>4, <1>5, Zenon DEF Generate

\* A session that is still there is the one that was kept.
LEMMA KeptOpen ==
  ASSUME NEW session, NEW rows, NEW n, Kept(session, rows, n), Open(session)
  PROVE  session = [cache |-> rows, step |-> n] /\ session.cache = rows /\ session.step = n
  <1>1. session = [cache |-> rows, step |-> n]
    BY NoSessionFine, Zenon DEF Kept
  <1> QED
    BY <1>1, Zenon

\* What a decode pass sends: the last emitted token and the draft, within max_tokens.
LEMMA DraftedFacts ==
  ASSUME Types, Output, Drafted
  PROVE  /\ truth \in Truths /\ step \in 1..MaxTokens /\ step - 1 \in 0..MaxTokens
         /\ Goes(truth, step) /\ truth[step] \in Vocab
         /\ draft \in Seq(Vocab) /\ Len(draft) \in Nat /\ step + Len(draft) < MaxTokens
         /\ <<truth[step]>> \o draft \in Seq(Vocab)
         /\ Len(<<truth[step]>> \o draft) = Len(draft) + 1
  <1>1. truth \in Truths /\ Goes(truth, Len(out)) /\ Len(out) \in 0..MaxTokens
    BY Zenon DEF Types, Output
  <1>2. step = Len(out) /\ step > 0 /\ draft \in Seq(Vocab) /\ step + Len(draft) < MaxTokens
    BY Zenon DEF Drafted
  <1>3. step \in 1..MaxTokens /\ step - 1 \in 0..MaxTokens /\ Goes(truth, step)
    BY <1>1, <1>2, Constants
  <1>4. truth[step] \in Vocab
    <2>1. truth[step] \in Vocab \cup {EOG}
      BY <1>1, <1>3, TruthSeq, Zenon
    <2>2. truth[step] # EOG
      BY <1>3 DEF Goes
    <2> QED
      BY <2>1, <2>2, Zenon
  <1>5. Len(draft) \in Nat
    BY <1>2, LenProperties, Zenon
  <1>6. <<truth[step]>> \in Seq(Vocab) /\ Len(<<truth[step]>>) = 1
    BY <1>4
  <1>7. /\ <<truth[step]>> \o draft \in Seq(Vocab)
        /\ Len(<<truth[step]>> \o draft) = 1 + Len(draft)
    BY <1>2, <1>6, ConcatProperties, Zenon
  <1> QED
    BY <1>1, <1>2, <1>3, <1>4, <1>5, <1>7

\* A pass that runs, and the call it makes.
LEMMA PassFacts ==
  ASSUME IInv, pc = "pass"
  PROVE  /\ Unharmed /\ CallFits(sess[stage], call) /\ Fine(sess[stage])
         /\ call.op = "prefill" \/ call.op = "decode"
  <1>1. /\ Types /\ Output /\ Prefilling /\ Decoding
        /\ stage \in 1..Stages /\ Fine(sess[stage])
    BY Zenon DEF IInv, Types, SessTypes
  <1>2. CASE call.op = "prefill"
    <2>1. Unharmed /\ call = Call("prefill", [tokens |-> Prompt, basis |-> <<>>], 0, 0)
      BY <1>1, <1>2, Zenon DEF Prefilling
    <2>2. call.payload.tokens = Prompt
      BY <2>1, Zenon DEF Call
    <2> QED
      BY <1>1, <1>2, <2>1, <2>2, Zenon DEF CallFits, Ops
  <1>3. CASE call.op # "prefill"
    <2> DEFINE x == <<truth[step]>> \o draft
               g == Greedy(truth, step - 1)
               b == IF stage = 1 THEN <<>> ELSE g
    <2>1. /\ Drafted /\ call = Call("decode", [tokens |-> x, basis |-> b], step, 0)
          /\ Kept(sess[stage], g, step)
      <3>1. ~(stage < stage)
        BY <1>1
      <3> QED
        BY <1>1, <1>3, <3>1, Zenon DEF Decoding
    <2> HIDE DEF b
    <2>2. call.op = "decode" /\ call.payload.tokens = x
      BY <2>1, Zenon DEF Call
    <2>3. /\ truth \in Truths /\ step \in 1..MaxTokens /\ step - 1 \in 0..MaxTokens
          /\ Len(draft) \in Nat /\ step + Len(draft) < MaxTokens
          /\ x \in Seq(Vocab) /\ Len(x) = Len(draft) + 1
      BY <1>1, <2>1, DraftedFacts, Zenon
    <2>4. Len(g) = Len(Prompt) + (step - 1)
      BY <2>3, GreedyProperties, Zenon
    <2> HIDE DEF g, x
    <2>5. ASSUME Open(sess[stage]) PROVE Len(sess[stage].cache) + Len(x) <= Reserved
      <3>1. sess[stage].cache = g
        BY <2>1, <2>5, KeptOpen, Zenon
      <3> QED
        BY <2>3, <2>4, <3>1, Constants DEF Reserved
    <2>6. CallFits(sess[stage], call)
      BY Zenon, <2>2, <2>3, <2>5 DEF CallFits, Ops
    <2> QED
      BY <1>1, <2>1, <2>2, <2>6, Zenon DEF Drafted
  <1> QED
    BY <1>2, <1>3, Zenon

\* A prefill pass leaves the prompt in the cache of the stage.
LEMMA PrefillAnswer ==
  ASSUME IInv, pc = "pass", call.op = "prefill",
         NEW r \in validate_response(Results(stage, sess[stage], call)), r.ok
  PROVE  /\ r.session = [cache |-> Prompt, step |-> 1]
         /\ r.out = [tokens |-> Prompt, basis |-> <<>>]
  <1> DEFINE p == call.payload
  <1>1. /\ stage \in 1..Stages /\ sess[stage] = NoSession
        /\ call = Call("prefill", [tokens |-> Prompt, basis |-> <<>>], 0, 0)
    <2>0. stage \in 1..Stages
      BY Zenon DEF IInv, Types
    <2>1. stage \in 1..Stages /\ ~(stage < stage)
      BY <2>0, Constants
    <2> QED
      BY <2>1, Zenon DEF IInv, Prefilling
  <1>2. p.tokens = Prompt /\ p.basis = <<>>
    BY <1>1, Zenon DEF Call
  <1>3. NoSession.cache = <<>> /\ NoSession \in Sessions
    BY NoSessionFine, Zenon DEF Fine, NoSession
  <1>4. /\ r.session = [cache |-> Cached(stage, NoSession, p), step |-> 1]
        /\ r.out = Activation(stage, NoSession, p)
    BY Zenon, <1>1, PrefillResults DEF PrefillResult
  <1>5. Continues(stage, NoSession, p)
    BY <1>2, <1>3, Zenon DEF Continues
  <1>6. p.tokens \in Seq(Vocab)
    BY <1>2, Constants, Zenon
  <1> HIDE DEF p
  <1>7. /\ Cached(stage, NoSession, p) = NoSession.cache \o p.tokens
        /\ Activation(stage, NoSession, p) = [tokens |-> p.tokens, basis |-> NoSession.cache]
    BY Zenon, <1>3, <1>5, <1>6, CachedRows
  <1>8. <<>> \o Prompt = Prompt
    BY Constants, ConcatEmptySeq, Zenon
  <1> QED
    BY <1>2, <1>3, <1>4, <1>7, <1>8, Zenon

\* A decode pass adds the last token and the draft to the completion.
LEMMA DecodeAnswer ==
  ASSUME IInv, pc = "pass", call.op = "decode",
         NEW r \in validate_response(Results(stage, sess[stage], call)), r.ok
  PROVE  /\ r.session = [cache |-> Greedy(truth, step) \o draft, step |-> step + Len(draft) + 1]
         /\ r.out = [tokens |-> <<truth[step]>> \o draft, basis |-> Greedy(truth, step - 1)]
  <1> DEFINE x == <<truth[step]>> \o draft
             g == Greedy(truth, step - 1)
             p == call.payload
             old == sess[stage]
  <1>1. /\ Types /\ Output /\ Drafted /\ old \in Sessions
        /\ call = Call("decode", [tokens |-> x, basis |-> IF stage = 1 THEN <<>> ELSE g], step, 0)
        /\ Kept(old, g, step)
    <2>0. stage \in 1..Stages
      BY Zenon DEF IInv, Types
    <2>1. stage \in 1..Stages /\ ~(stage < stage)
      BY <2>0, Constants
    <2>2. Types /\ Output /\ Decoding /\ Fine(old)
      BY Zenon, <2>1 DEF IInv, Types, SessTypes
    <2> QED
      BY Zenon, <2>1, <2>2 DEF Decoding, Fine
  <1>2. p.tokens = x /\ (stage # 1 => p.basis = g) /\ call.step = step
    BY <1>1, Zenon DEF Call
  <1>3. /\ truth \in Truths /\ step \in 1..MaxTokens
        /\ Len(draft) \in Nat /\ draft \in Seq(Vocab)
        /\ x \in Seq(Vocab) /\ Len(x) = Len(draft) + 1
    BY <1>1, DraftedFacts, Zenon
  <1>4. g \o x = Greedy(truth, step) \o draft
    <2>1. draft \in Seq(Vocab \cup {EOG})
      BY <1>3, SeqMonotonic, Zenon
    <2> QED
      BY <1>3, <2>1, GreedyStep, Zenon
  <1> HIDE DEF x, g, p, old
  <1>5. DecodeResult(stage, old, p, step, r)
    BY <1>1, <1>2, DecodeResults DEF p, old
  <1>6. /\ Open(old) /\ r.out = Activation(stage, old, p)
        /\ r.session = [cache |-> Cached(stage, old, p), step |-> step + Len(p.tokens)]
    BY <1>5, Zenon DEF DecodeResult
  <1>7. old.cache = g
    BY <1>1, <1>6, KeptOpen, Zenon
  <1>8. Continues(stage, old, p)
    BY <1>2, <1>7, Zenon DEF Continues
  <1>9. /\ Cached(stage, old, p) = g \o x
        /\ Activation(stage, old, p) = [tokens |-> x, basis |-> g]
    BY Zenon, <1>1, <1>2, <1>3, <1>7, <1>8, CachedRows
  <1>10. step + Len(x) = step + Len(draft) + 1
    BY <1>3
  <1> QED
    BY Zenon, <1>2, <1>4, <1>6, <1>9, <1>10 DEF x, g

\* No choices: the prompt alone.
LEMMA GreedyPrompt == ASSUME NEW t PROVE Greedy(t, 0) = Prompt
  <1>1. SubSeq(t, 1, 0) = <<>>
    <2>1. 0 \in Int /\ 1 \in Int /\ 0 < 1
      OBVIOUS
    <2> QED
      BY <2>1, SubSeqEmpty, Zenon
  <1>2. Prompt \o <<>> = Prompt
    BY Constants, ConcatEmptySeq, Zenon
  <1> QED
    BY Zenon, <1>1, <1>2 DEF Greedy

\* What the last stage samples after a prefill, and after a decode pass.
LEMMA PrefillSampled ==
  ASSUME truth \in Truths, NEW all, ~all,
         NEW t \in SampledRows([tokens |-> Prompt, basis |-> <<>>], all)
  PROVE  t = <<truth[1]>>
  <1> DEFINE n == Len(Prompt)
             prefix == <<>> \o SubSeq(Prompt, 1, n - 1 + 1)
  <1>1. t \in [1..1 -> Vocab \cup {EOG}] /\ t[1] \in Sampled(prefix)
    BY DEF SampledRows
  <1>2. prefix = Prompt
    <2>1. n - 1 + 1 = n /\ SubSeq(Prompt, 1, n) = Prompt /\ <<>> \o Prompt = Prompt
      BY Constants, SubSeqFull, ConcatEmptySeq
    <2> HIDE DEF n
    <2> QED
      BY <2>1, Zenon
  <1> HIDE DEF prefix
  <1>3. Sampled(Prompt) = {truth[1]}
    <2>1. 0 \in 0..MaxTokens - 1 /\ Goes(truth, 0)
      BY Constants DEF Goes
    <2>2. Sampled(Greedy(truth, 0)) = {truth[0 + 1]}
      BY <2>1, SampledGreedy, Zenon
    <2> QED
      BY <2>2, GreedyPrompt
  <1>4. t[1] = truth[1]
    BY <1>1, <1>2, <1>3, Zenon
  <1> QED
    BY <1>1, <1>4

\* As far as the draft agrees with the greedy completion, so do the sampled tokens.
LEMMA DecodeSampled ==
  ASSUME Types, Output, Drafted, NEW all, all,
         NEW t \in SampledRows([tokens |-> <<truth[step]>> \o draft,
                                basis  |-> Greedy(truth, step - 1)], all)
  PROVE  /\ t \in [1..Len(draft) + 1 -> Vocab \cup {EOG}]
         /\ \A i \in 1..Len(draft) + 1 :
              (\A j \in 1..i - 1 : draft[j] = truth[step + j]) => t[i] = truth[step + i]
  <1> DEFINE x == <<truth[step]>> \o draft
             g == Greedy(truth, step - 1)
             n == Len(x)
             p == [tokens |-> x, basis |-> g]
  <1>1. /\ truth \in Truths /\ step \in 1..MaxTokens /\ Goes(truth, step)
        /\ draft \in Seq(Vocab) /\ Len(draft) \in Nat /\ step + Len(draft) < MaxTokens
        /\ n = Len(draft) + 1
    BY DraftedFacts, Zenon
  <1>2. p.tokens = x /\ p.basis = g /\ t \in SampledRows(p, all)
    BY Zenon
  <1> HIDE DEF x, g, p
  <1>3. /\ t \in [1..n -> Vocab \cup {EOG}]
        /\ \A i \in 1..n : t[i] \in Sampled(g \o SubSeq(x, 1, n - n + i))
    BY <1>2, Zenon DEF SampledRows
  <1>4. ASSUME NEW i \in 1..Len(draft) + 1, \A j \in 1..i - 1 : draft[j] = truth[step + j]
        PROVE  t[i] = truth[step + i]
    <2>1. n - n + i = i /\ i \in 1..n
      BY <1>1
    <2>2. t[i] \in Sampled(g \o SubSeq(x, 1, i))
      BY <1>3, <2>1, Zenon
    <2>3. Sampled(g \o SubSeq(x, 1, i)) = {truth[step + i]}
      BY Zenon, <1>1, <1>4, SampledDraft DEF x, g
    <2> QED
      BY <2>2, <2>3, Zenon
  <1> QED
    BY Zenon, <1>1, <1>3, <1>4

\* The answer of a stage during a prefill or decode pass.
LEMMA PassAnsweredInv == ASSUME IInv, PassAnswered PROVE IInv'
  <1>1. /\ pc = "pass" /\ UNCHANGED <<truth, late, draft, out, step, recover, unclosed, outcome>>
    BY Zenon DEF PassAnswered
  <1>2. PICK r \in validate_response(Results(stage, sess[stage], call)) :
         /\ sess' = [sess EXCEPT ![stage] = r.session]
         /\ IF r.ok
            THEN /\ UNCHANGED reason
                 /\ IF stage < Stages
                    THEN /\ stage' = stage + 1
                         /\ call' = [call EXCEPT !.payload = r.out]
                         /\ UNCHANGED <<pc, tokens>>
                    ELSE /\ pc' = "verify"
                         /\ tokens' \in SampledRows(r.out, call.op = "decode")
                         /\ UNCHANGED <<stage, call>>
            ELSE /\ CloseAll("failed")
                 /\ UNCHANGED tokens
    BY Zenon DEF PassAnswered
  <1>3. /\ Types /\ Output /\ Prefilling /\ Decoding /\ Lost /\ Bounded
        /\ SessTypes /\ stage \in 1..Stages
    BY Zenon DEF IInv, Types
  <1>4. /\ Unharmed /\ CallFits(sess[stage], call) /\ Fine(sess[stage])
        /\ call.op = "prefill" \/ call.op = "decode"
    BY <1>1, PassFacts, Zenon
  <1>5. SessTypes' /\ Bounded'
    <2>1. late' \subseteq late /\ \A l \in late' : ~Computes(l.call)
      BY Zenon, <1>1, <1>4 DEF Unharmed
    <2> QED
      BY Zenon, <1>2, <1>3, <1>4, <2>1, CallBounded
  <1>6. sess'[stage] = r.session /\ \A s \in 1..Stages : s # stage => sess'[s] = sess[s]
    BY Zenon, <1>2, <1>3, SessUpdated
  <1>7. CASE ~r.ok
    <2>1. CloseAll("failed")
      BY <1>2, <1>7, Zenon
    <2>2. /\ pc' = "close" /\ stage' = 1 /\ reason' = "failed"
          /\ New' /\ Prefilling' /\ Prefilled' /\ Decoding' /\ Decoded' /\ RollingBack'
          /\ Emitting' /\ Closing' /\ Done'
      BY <2>1, ToClose, Zenon
    <2>3. Types'
      BY Zenon, <1>1, <1>3, <1>5, <2>2, StageOne DEF Types, Pcs
    <2>4. Output' /\ Lost'
      BY <1>1, <1>3, <2>2, Zenon DEF Output, Lost
    <2> QED
      BY <1>5, <2>2, <2>3, <2>4 DEF IInv
  <1>8. ASSUME r.ok PROVE Output' /\ Lost' /\ Unharmed' /\ pc' \in {"pass", "verify"}
    <2>1. UNCHANGED reason /\ pc' \in {"pass", "verify"}
      BY <1>1, <1>2, <1>8, Zenon
    <2> QED
      BY Zenon, <1>1, <1>3, <1>4, <2>1 DEF Output, Lost, Unharmed
  <1>9. CASE r.ok /\ stage < Stages
    <2>1. /\ stage' = stage + 1 /\ pc' = "pass" /\ UNCHANGED <<tokens, reason>>
          /\ call' = [call EXCEPT !.payload = r.out]
      BY <1>1, <1>2, <1>9, Zenon
    <2>2. Types'
      <3>1. stage' \in 1..Stages
        BY <1>3, <1>9, <2>1, Constants
      <3> QED
        BY Zenon, <1>1, <1>3, <1>5, <2>1, <3>1 DEF Types, Pcs
    <2>3. \A s \in 1..Stages : (s < stage + 1) = (s < stage \/ s = stage)
      BY <1>3, Constants
    <2>4. CASE call.op = "prefill"
      <3>1. /\ r.session = [cache |-> Prompt, step |-> 1]
            /\ r.out = [tokens |-> Prompt, basis |-> <<>>]
        BY <1>1, <1>9, <2>4, PrefillAnswer
      <3>2. /\ out = <<>> /\ draft = <<>> /\ tokens = <<>> /\ step = 1
            /\ call = Call("prefill", [tokens |-> Prompt, basis |-> <<>>], 0, 0)
            /\ \A s \in 1..Stages :
                  IF s < stage THEN Kept(sess[s], Prompt, 1) ELSE sess[s] = NoSession
        BY <1>1, <1>3, <2>4 DEF Prefilling
      <3>3. call' = Call("prefill", [tokens |-> Prompt, basis |-> <<>>], 0, 0)
        BY <2>1, <3>1, <3>2 DEF Call
      <3>4. call'.op = "prefill"
        BY <3>3, Zenon DEF Call
      <3>5. ASSUME NEW s \in 1..Stages
            PROVE  IF s < stage + 1 THEN Kept(sess'[s], Prompt, 1) ELSE sess'[s] = NoSession
        <4>1. CASE s = stage
          BY <4>1, <1>6, <2>3, <3>1, Zenon DEF Kept
        <4>2. CASE s # stage
          BY <4>2, <1>6, <2>3, <3>2, Zenon
        <4> QED
          BY <4>1, <4>2, Zenon
      <3>6. Prefilling'
        BY <1>1, <1>8, <1>9, <2>1, <3>2, <3>3, <3>5, Zenon DEF Prefilling
      <3>7. Decoding'
        BY <3>4, Zenon DEF Decoding
      <3> QED
        BY <1>5, <1>8, <1>9, <2>1, <2>2, <3>6, <3>7, Vacuous DEF IInv
    <2>5. CASE call.op = "decode"
      <3> DEFINE x == <<truth[step]>> \o draft
                 g == Greedy(truth, step - 1)
                 h == Greedy(truth, step) \o draft
                 m == step + Len(draft) + 1
      <3>1. r.session = [cache |-> h, step |-> m] /\ r.out = [tokens |-> x, basis |-> g]
        BY Zenon, <1>1, <1>9, <2>5, DecodeAnswer
      <3>2. /\ Drafted
            /\ call = Call("decode", [tokens |-> x, basis |-> IF stage = 1 THEN <<>> ELSE g], step, 0)
            /\ \A s \in 1..Stages : IF s < stage THEN Kept(sess[s], h, m) ELSE Kept(sess[s], g, step)
        BY <1>1, <1>3, <2>5, Zenon DEF Decoding
      <3>3. Drafted'
        BY <1>1, <1>8, <1>9, <3>2, Zenon DEF Drafted
      <3> HIDE DEF x, g, h, m
      <3>4. call' = Call("decode", [tokens |-> x, basis |-> g], step, 0)
        BY <2>1, <3>1, <3>2, Zenon DEF Call
      <3>5. call'.op = "decode" /\ stage' # 1
        BY <1>3, <2>1, <3>4 DEF Call
      <3>6. ASSUME NEW s \in 1..Stages
            PROVE  IF s < stage + 1 THEN Kept(sess'[s], h, m) ELSE Kept(sess'[s], g, step)
        <4>1. CASE s = stage
          BY <4>1, <1>6, <2>3, <3>1, Zenon DEF Kept
        <4>2. CASE s # stage
          BY <4>2, <1>6, <2>3, <3>2, Zenon
        <4> QED
          BY <4>1, <4>2, Zenon
      <3>7. /\ x' = x /\ g' = g /\ h' = h /\ m' = m
        BY <1>1, Zenon DEF x, g, h, m
      <3>8. Decoding'
        <4>1. /\ Drafted'
              /\ call' = Call("decode", [tokens |-> x', basis |-> IF stage' = 1 THEN <<>> ELSE g'], step', 0)
              /\ \A s \in 1..Stages : IF s < stage' THEN Kept(sess'[s], h', m') ELSE Kept(sess'[s], g', step')
          BY <1>1, <2>1, <3>3, <3>4, <3>5, <3>6, <3>7
        <4> QED
          BY <4>1, Zenon DEF Decoding, x, g, h, m
      <3>9. Prefilling'
        BY <3>5 DEF Prefilling
      <3> QED
        BY <1>5, <1>8, <1>9, <2>1, <2>2, <3>8, <3>9, Vacuous DEF IInv
    <2> QED
      BY <1>4, <2>4, <2>5, Zenon
  <1>10. CASE r.ok /\ ~(stage < Stages)
    <2>1. /\ stage = Stages /\ pc' = "verify" /\ UNCHANGED <<stage, call, reason>>
          /\ tokens' \in SampledRows(r.out, call.op = "decode")
      BY <1>2, <1>3, <1>10, Constants
    <2>2. Types'
      BY Zenon, <1>1, <1>3, <1>5, <2>1 DEF Types, Pcs
    <2>3. \A s \in 1..Stages : s # stage => s < stage
      BY <2>1, Constants
    <2>4. CASE call.op = "prefill"
      <3>1. /\ r.session = [cache |-> Prompt, step |-> 1]
            /\ r.out = [tokens |-> Prompt, basis |-> <<>>]
        BY <1>1, <1>10, <2>4, PrefillAnswer, Zenon
      <3>2. /\ out = <<>> /\ draft = <<>> /\ step = 1
            /\ \A s \in 1..Stages :
                  IF s < stage THEN Kept(sess[s], Prompt, 1) ELSE sess[s] = NoSession
        BY <1>1, <1>3, <2>4, Zenon DEF Prefilling
      <3>3. tokens' = <<truth[1]>>
        <4>1. truth \in Truths /\ ~(call.op = "decode")
          BY Zenon, <1>3, <2>4 DEF Types
        <4> QED
          BY Zenon, <2>1, <3>1, <4>1, PrefillSampled
      <3>4. \A s \in 1..Stages : Kept(sess'[s], Prompt, 1)
        BY <1>6, <2>3, <3>1, <3>2, Zenon DEF Kept
      <3>5. Prefilled'
        BY <1>1, <1>8, <1>10, <3>2, <3>3, <3>4 DEF Prefilled
      <3>6. Decoded'
        BY <2>1, <2>4, Zenon DEF Decoded
      <3> QED
        BY <1>5, <1>8, <1>10, <2>1, <2>2, <3>5, <3>6, Vacuous DEF IInv
    <2>5. CASE call.op = "decode"
      <3> DEFINE x == <<truth[step]>> \o draft
                 g == Greedy(truth, step - 1)
                 h == Greedy(truth, step) \o draft
                 m == step + Len(draft) + 1
      <3>1. r.session = [cache |-> h, step |-> m] /\ r.out = [tokens |-> x, basis |-> g]
        BY Zenon, <1>1, <1>10, <2>5, DecodeAnswer
      <3>2. /\ Drafted
            /\ \A s \in 1..Stages : IF s < stage THEN Kept(sess[s], h, m) ELSE Kept(sess[s], g, step)
        BY <1>1, <1>3, <2>5, Zenon DEF Decoding
      <3>3. Drafted'
        BY <1>1, <1>8, <1>10, <3>2, Zenon DEF Drafted
      <3>4. /\ tokens' \in [1..Len(draft) + 1 -> Vocab \cup {EOG}]
            /\ \A i \in 1..Len(draft) + 1 :
                 (\A j \in 1..i - 1 : draft[j] = truth[step + j]) => tokens'[i] = truth[step + i]
        BY Zenon, <1>3, <2>1, <2>5, <3>1, <3>2, DecodeSampled
      <3> HIDE DEF h, m, g, x
      <3>5. \A s \in 1..Stages : Kept(sess'[s], h, m)
        BY <1>6, <2>3, <3>1, <3>2, Zenon DEF Kept
      <3>6. h' = h /\ m' = m
        BY <1>1, Zenon DEF h, m
      <3>7. \A s \in 1..Stages : Kept(sess'[s], h', m')
        BY <3>5, <3>6, Zenon
      <3>8. Decoded'
        BY <1>1, <2>1, <2>5, <3>3, <3>4, <3>7, Zenon DEF Decoded, h, m
      <3>9. Prefilled'
        BY <2>1, <2>5, Zenon DEF Prefilled
      <3> QED
        BY <1>5, <1>8, <1>10, <2>1, <2>2, <3>8, <3>9, Vacuous DEF IInv
    <2> QED
      BY <1>4, <2>4, <2>5, Zenon
  <1> QED
    BY <1>7, <1>9, <1>10, Zenon

\* A stage that does not answer during a pass.
LEMMA PassUnansweredInv == ASSUME IInv, PassUnanswered PROVE IInv'
  <1>1. /\ pc = "pass" /\ Unanswered /\ unclosed' = unclosed \cup {stage} /\ CloseAll("failed")
        /\ UNCHANGED <<truth, draft, tokens, out, step, recover, outcome>>
    BY Zenon DEF PassUnanswered
  <1>2. Types /\ Output /\ Lost /\ Bounded /\ SessTypes /\ stage \in 1..Stages
    BY Zenon DEF IInv, Types
  <1>3. Unharmed /\ CallFits(sess[stage], call)
    BY <1>1, PassFacts, Zenon
  <1>4. SessTypes' /\ Bounded' /\ late' \subseteq late \cup {[stage |-> stage, call |-> call]}
    <2>1. Computes(call) => late = {}
      BY Zenon, <1>3 DEF Unharmed
    <2> QED
      BY <1>1, <1>2, <1>3, <2>1, UnansweredBounded, Zenon
  <1>5. /\ pc' = "close" /\ stage' = 1 /\ reason' = "failed"
        /\ New' /\ Prefilling' /\ Prefilled' /\ Decoding' /\ Decoded' /\ RollingBack'
        /\ Emitting' /\ Closing' /\ Done'
    BY <1>1, ToClose, Zenon
  <1>6. Types'
    BY Zenon, <1>1, <1>2, <1>4, <1>5, StageOne DEF Types, Pcs
  <1>7. Output'
    BY <1>1, <1>2, <1>5, Zenon DEF Output
  <1>8. Lost'
    <2>1. ASSUME NEW l \in late' PROVE l.stage \in unclosed'
      BY <1>1, <1>2, <1>4 DEF Lost
    <2> QED
      BY <1>5, <2>1, Zenon DEF Lost
  <1> QED
    BY <1>4, <1>5, <1>6, <1>7, <1>8, Zenon DEF IInv

\* Verification: what is confirmed continues the completion, and what the stages
\* hold beyond it is as long as the rejected part of the draft.
LEMMA VerifyInv == ASSUME IInv, Verify PROVE IInv'
  <1> DEFINE a == Accepted(tokens)
             rejected == Len(draft) - a
  <1>1. /\ pc = "verify" /\ draft' = <<>>
        /\ tokens' = SubSeq(tokens, 1, a + 1)
        /\ step' = step + (IF call.op = "decode" THEN Len(tokens) - rejected ELSE 0)
        /\ IF rejected > 0
           THEN Begin("rollback", Call("rollback", NoPayload, 0, rejected))
           ELSE pc' = "emit" /\ UNCHANGED <<stage, call>>
        /\ UNCHANGED <<truth, sess, late, faults, out, recover, unclosed, reason, outcome>>
    BY Zenon DEF Verify, engineVars
  <1>2. /\ Types /\ Output /\ Lost /\ Bounded /\ Prefilled /\ Decoded /\ SessTypes
        /\ stage \in 1..Stages /\ truth \in Truths
    BY Zenon DEF IInv, Types
  <1>3. SessTypes' /\ Bounded' /\ Output'
    BY <1>1, <1>2, Zenon DEF SessTypes, Bounded, Output
  <1>4. CASE call.op = "prefill"
    <2>1. /\ Unharmed /\ out = <<>> /\ draft = <<>> /\ step = 1 /\ tokens = <<truth[1]>>
          /\ \A s \in 1..Stages : Kept(sess[s], Prompt, 1)
      BY <1>1, <1>2, <1>4, Zenon DEF Prefilled
    <2>2. Len(draft) = 0 /\ Len(out) = 0
      BY <2>1, EmptySeq, Zenon
    <2>3. a \in 0..Len(draft)
      BY <2>2, AcceptedDraft
    <2>4. a = 0 /\ rejected = 0
      BY <2>2, <2>3
    <2> HIDE DEF a, rejected
    <2>5. tokens' = <<truth[1]>>
      <3>1. tokens' = SubSeq(tokens, 1, 1)
        BY <1>1, <2>4
      <3>2. tokens \in Seq({truth[1]}) /\ Len(tokens) = 1
        BY <2>1
      <3>3. SubSeq(tokens, 1, Len(tokens)) = tokens
        BY <3>2, SubSeqFull, Zenon
      <3> QED
        BY <2>1, <3>1, <3>2, <3>3, Zenon
    <2>6. /\ step' = 1 /\ pc' = "emit" /\ UNCHANGED <<stage, call>>
      BY <1>1, <1>4, <2>1, <2>4
    <2>7. Types' /\ Lost' /\ Unharmed'
      BY Zenon, <1>1, <1>2, <1>3, <2>1, <2>6 DEF Types, Pcs, Lost, Unharmed
    <2>8. Confirmed'
      <3>1. truth[1] \in Vocab \cup {EOG} /\ 1 \in 1..MaxTokens
        BY <1>2, Constants, TruthSeq
      <3>2. tokens' \in Seq(Vocab \cup {EOG}) /\ Len(tokens') = 1 /\ tokens'[1] = truth[1]
        BY <2>5, <3>1
      <3>3. Goes(truth', step' - 1)
        BY <2>6 DEF Goes
      <3>4. Len(out') = 0
        BY <1>1, <2>2, Zenon
      <3>5. \A i \in 1..Len(tokens') : tokens'[i] = truth'[Len(out') + i]
        BY <1>1, <3>2, <3>4
      <3>6. step' = Len(out') + Len(tokens') /\ step' \in 1..MaxTokens
        BY <2>6, <3>1, <3>2, <3>4
      <3> QED
        BY Zenon, <1>1, <3>2, <3>3, <3>5, <3>6 DEF Confirmed
    <2>9. Emitting'
      <3>1. Greedy(truth, 1 - 1) = Prompt
        BY GreedyPrompt
      <3> QED
        BY <1>1, <2>1, <2>6, <2>7, <2>8, <3>1, Zenon DEF Emitting
    <2> QED
      BY <1>3, <2>6, <2>7, <2>9, Vacuous, Zenon DEF IInv
  <1>5. CASE call.op # "prefill"
    <2> DEFINE V == Vocab \cup {EOG}
               L == Len(draft)
               h == Greedy(truth, step) \o draft
    <2>1. /\ Drafted /\ call.op = "decode"
          /\ \A s \in 1..Stages : Kept(sess[s], h, step + L + 1)
          /\ tokens \in [1..L + 1 -> V]
          /\ \A i \in 1..L + 1 :
                (\A j \in 1..i - 1 : draft[j] = truth[step + j]) => tokens[i] = truth[step + i]
      BY <1>1, <1>2, <1>5, Zenon DEF Decoded
    <2>2. /\ step \in 1..MaxTokens /\ step - 1 \in 0..MaxTokens
          /\ Goes(truth, step) /\ draft \in Seq(Vocab) /\ L \in Nat /\ step + L < MaxTokens
          /\ step = Len(out)
      BY <1>2, <2>1, DraftedFacts, Zenon DEF Drafted
    <2>3. a \in 0..L /\ \A i \in 1..a : tokens[i] # EOG /\ tokens[i] = draft[i]
      BY <2>2, AcceptedDraft, Zenon
    <2>4. \A i \in 1..a + 1 : tokens[i] = truth[step + i]
      <3>1. step \in Nat
        BY <2>2
      <3> QED
        BY <2>1, <2>2, <3>1, ConfirmedTokens, Zenon
    <2> HIDE DEF a
    <2>5. tokens \in Seq(V) /\ Len(tokens) = L + 1
      <3>1. L + 1 \in Nat
        BY <2>2
      <3>2. tokens \in Seq(V)
        BY <2>1, <3>1, SeqDef
      <3>3. Len(tokens) \in Nat /\ 1..Len(tokens) = 1..L + 1
        BY <2>1, <3>2, LenProperties, Zenon
      <3> QED
        BY <3>1, <3>2, <3>3
    <2>6. step' = step + a + 1 /\ rejected = L - a
      BY <1>1, <2>1, <2>2, <2>3, <2>5
    <2>7. tokens' \in Seq(V) /\ Len(tokens') = a + 1 /\ \A i \in 1..a + 1 : tokens'[i] = truth[step + i]
      <3>1. \A i \in 1..a + 1 : tokens[i] \in V
        <4> HIDE DEF V, L
        <4>1. \A i \in 1..a + 1 : i \in 1..L + 1
          BY <2>2, <2>3
        <4> QED
          BY <2>1, <4>1, Zenon
      <3>2. a + 1 \in Int /\ 1 \in Int /\ 1 <= a + 1 /\ a + 1 - 1 + 1 = a + 1
        BY <2>3
      <3>3. /\ SubSeq(tokens, 1, a + 1) \in Seq(V)
            /\ Len(SubSeq(tokens, 1, a + 1)) = a + 1 - 1 + 1
            /\ \A i \in 1..a + 1 - 1 + 1 : SubSeq(tokens, 1, a + 1)[i] = tokens[1 + i - 1]
        BY <3>1, <3>2, SubSeqProperties
      <3>4. \A i \in 1..a + 1 : 1 + i - 1 = i
        BY <2>3
      <3> HIDE DEF V
      <3> QED
        BY <1>1, <2>4, <3>2, <3>3, <3>4, Zenon
    <2>8. Goes(truth, step + a)
      <3>1. ASSUME NEW k \in 1..step + a PROVE truth[k] # EOG
        <4>1. CASE k <= step
          BY <4>1, <2>2, <2>3 DEF Goes
        <4>2. CASE k > step
          <5>1. k - step \in 1..a /\ k - step \in 1..a + 1 /\ step + (k - step) = k
            BY <4>2, <2>2, <2>3
          <5> QED
            BY <5>1, <2>3, <2>4, Zenon
        <4> QED
          BY <4>1, <4>2, <2>2, <2>3
      <3> QED
        BY <3>1, Zenon DEF Goes
    <2>9. Confirmed'
      <3>1. step' \in 1..MaxTokens /\ step' = Len(out') + Len(tokens') /\ step' - 1 = step + a
        <4>1. Len(out') = step /\ Len(tokens') = a + 1
          BY <1>1, <2>2, <2>7, Zenon
        <4> HIDE DEF L, rejected
        <4> QED
          BY <4>1, <2>2, <2>3, <2>6, Constants
      <3>2. \A i \in 1..Len(tokens') : tokens'[i] = truth'[Len(out') + i]
        BY Zenon, <1>1, <2>2, <2>7
      <3> QED
        BY <1>1, <2>7, <2>8, <3>1, <3>2, Zenon DEF Confirmed
    <2>10. Unharmed' /\ reason' = ""
      BY Zenon, <1>1, <2>1 DEF Drafted, Unharmed
    <2>11. SubSeq(h, 1, Len(Prompt) + step + a) = Greedy(truth, step + a)
      <3>1. \A j \in 1..a : draft[j] = truth[step + j]
        BY <2>3, <2>4
      <3>2. step \in 0..MaxTokens /\ step + a <= MaxTokens /\ a \in 0..Len(draft)
        BY <2>2, <2>3, Constants
      <3> QED
        BY Zenon, <1>2, <2>2, <3>1, <3>2, DraftOnGreedy
    <2>12. Len(h) = Len(Prompt) + step + L /\ h \in Seq(V)
      <3>1. Greedy(truth, step) \in Seq(V) /\ Len(Greedy(truth, step)) = Len(Prompt) + step
        BY <1>2, <2>2, GreedyProperties
      <3>2. draft \in Seq(V)
        BY <2>2, SeqMonotonic, Zenon
      <3> QED
        BY Zenon, <3>1, <3>2, ConcatProperties
    <2> HIDE DEF h, V
    <2>13. CASE rejected > 0
      <3>1. /\ pc' = "rollback" /\ stage' = 1 /\ call' = Call("rollback", NoPayload, 0, rejected)
        BY <1>1, <2>13, Zenon DEF Begin
      <3>2. rejected \in Nat \ {0}
        BY <2>2, <2>3, <2>6, <2>13
      <3>3. call'.op = "rollback" /\ call'.count = rejected
        BY <3>1, Zenon DEF Call
      <3>4. Types' /\ Lost'
        BY Zenon, <1>1, <1>2, <1>3, <3>1, <2>10, StageOne DEF Types, Pcs, Lost
      <3>5. ASSUME NEW s \in 1..Stages, Open(sess'[s])
            PROVE  /\ Len(sess'[s].cache) = Len(Prompt) + step' - 1 + rejected
                   /\ SubSeq(sess'[s].cache, 1, Len(Prompt) + step' - 1) = Greedy(truth', step' - 1)
                   /\ sess'[s].step = step' + rejected
        <4>1. sess'[s] = sess[s] /\ Open(sess[s])
          BY <1>1, <3>5, Zenon
        <4>2. sess[s].cache = h /\ sess[s].step = step + L + 1
          BY <2>1, <4>1, KeptOpen
        <4>3. /\ Len(Prompt) + step' - 1 + rejected = Len(Prompt) + step + L
              /\ step' + rejected = step + L + 1
              /\ Len(Prompt) + step' - 1 = Len(Prompt) + step + a
              /\ step' - 1 = step + a
          BY <2>2, <2>3, <2>6, Constants
        <4> QED
          BY <1>1, <2>11, <2>12, <4>1, <4>2, <4>3, Zenon
      <3>6. \A s \in 1..Stages : ~(s < stage')
        BY <3>1, Constants
      <3> HIDE DEF rejected
      <3>7. RollingBack'
        BY Zenon, <2>9, <2>10, <3>2, <3>3, <3>5, <3>6 DEF RollingBack
      <3> QED
        BY <1>3, <3>1, <3>4, <3>7, Vacuous, Zenon DEF IInv
    <2>14. CASE ~(rejected > 0)
      <3>1. pc' = "emit" /\ UNCHANGED <<stage, call>>
        BY <1>1, <2>14, Zenon
      <3>2. a = L
        BY <2>2, <2>3, <2>6, <2>14
      <3>3. Types' /\ Lost'
        BY Zenon, <1>1, <1>2, <1>3, <3>1, <2>10 DEF Types, Pcs, Lost
      <3>4. h = Greedy(truth, step' - 1) /\ step' = step + L + 1
        <4>1. SubSeq(h, 1, Len(h)) = h
          BY <2>12, SubSeqFull, Zenon
        <4>2. step' = step + L + 1 /\ step' - 1 = step + a
          BY <2>2, <2>3, <2>6, <3>2
        <4> QED
          BY <2>11, <2>12, <3>2, <4>1, <4>2, Zenon
      <3>5. \A s \in 1..Stages : Kept(sess'[s], Greedy(truth', step' - 1), step')
        BY <1>1, <2>1, <3>4, Zenon
      <3>6. Emitting'
        BY Zenon, <2>9, <2>10, <3>5 DEF Emitting
      <3> QED
        BY <1>3, <3>1, <3>3, <3>6, Vacuous, Zenon DEF IInv
    <2> QED
      BY <2>13, <2>14, Zenon
  <1> QED
    BY <1>4, <1>5, Zenon

-----------------------------------------------------------------------------
(* Rollback *)

\* Where the runner is while it rolls back.
LEMMA RollbackFacts ==
  ASSUME IInv, pc = "rollback"
  PROVE  /\ CallFits(sess[stage], call) /\ ~Computes(call) /\ call.op = "rollback"
         /\ call.count \in Nat \ {0} /\ reason \in {"", "failed"}
         /\ SessTypes /\ Bounded /\ Types /\ Output /\ Lost /\ stage \in 1..Stages
  <1>1. call.op = "rollback" /\ call.count \in Nat \ {0} /\ reason \in {"", "failed"}
    BY Zenon DEF IInv, RollingBack
  <1>2. SessTypes /\ Bounded /\ Types /\ Output /\ Lost /\ stage \in 1..Stages
    BY Zenon DEF IInv, Types
  <1> QED
    BY Zenon, <1>1, <1>2 DEF CallFits, Computes, Ops

\* The arithmetic of a rollback by k rows.
LEMMA CutBack ==
  ASSUME NEW n \in 1..MaxTokens, NEW k \in Nat
  PROVE  (Len(Prompt) + n - 1 + k) - k = Len(Prompt) + n - 1 /\ (n + k) - k = n
  <1>1. Len(Prompt) \in Int /\ n \in Int /\ k \in Int
    BY Constants
  <1> QED
    BY <1>1

\* A stage that rolls back has the completion up to the last confirmed token.
LEMMA RollbackAnswer ==
  ASSUME IInv, pc = "rollback", reason = "",
         NEW r \in validate_response(Results(stage, sess[stage], call)), r.ok
  PROVE  r.session = [cache |-> Greedy(truth, step - 1), step |-> step]
  <1> DEFINE old == sess[stage]
             k == call.count
  <1>1. /\ call.op = "rollback" /\ k \in Nat /\ stage \in 1..Stages /\ SessTypes
    BY Zenon, RollbackFacts
  <1>2. old \in Sessions
    BY Zenon, <1>1 DEF SessTypes, Fine
  <1>3. RollbackResult(old, k, r)
    BY Zenon, <1>1, <1>2, RollbackResults
  <1> HIDE DEF old, k
  <1>4. /\ Open(old)
        /\ r.session = [cache |-> SubSeq(old.cache, 1, Len(old.cache) - k), step |-> old.step - k]
    BY Zenon, <1>3 DEF RollbackResult
  <1>5. /\ Len(old.cache) = Len(Prompt) + step - 1 + k
        /\ SubSeq(old.cache, 1, Len(Prompt) + step - 1) = Greedy(truth, step - 1)
        /\ old.step = step + k
        /\ step \in 1..MaxTokens
    <2>1. ~(stage < stage)
      BY Zenon, <1>1, StageOrder
    <2> QED
      BY Zenon, <1>1, <1>4, <2>1 DEF IInv, RollingBack, Confirmed, old, k
  <1>6. Len(old.cache) - k = Len(Prompt) + step - 1 /\ old.step - k = step
    <2>1. (Len(Prompt) + step - 1 + k) - k = Len(Prompt) + step - 1 /\ (step + k) - k = step
      BY <1>1, <1>5, CutBack, Zenon
    <2> QED
      BY <1>5, <2>1, Zenon
  <1> QED
    BY Zenon, <1>4, <1>5, <1>6

\* Every stage is called, whatever happened before, and a failure is kept.
LEMMA RollbackFails ==
  ASSUME IInv, pc = "rollback",
         IF stage < Stages
         THEN stage' = stage + 1 /\ reason' = "failed" /\ UNCHANGED <<pc, call>>
         ELSE CloseAll("failed"),
         UNCHANGED <<truth, draft, tokens, out, step, outcome>>,
         SessTypes', Bounded', unclosed' \subseteq 1..Stages,
         \A l \in late' : l.stage \in unclosed'
  PROVE  IInv'
  <1>1. /\ call.op = "rollback" /\ call.count \in Nat \ {0}
        /\ Types /\ Output /\ stage \in 1..Stages
    BY Zenon, RollbackFacts
  <1>2. CASE stage < Stages
    <2>1. stage' = stage + 1 /\ reason' = "failed" /\ pc' = "rollback" /\ call' = call
      BY <1>2, Zenon
    <2>2. stage' \in 1..Stages
      BY <1>1, <1>2, <2>1, StageOrder, Zenon
    <2>3. Types' /\ Output' /\ Lost' /\ RollingBack'
      BY Zenon, <1>1, <2>1, <2>2 DEF Types, Pcs, Output, Lost, RollingBack
    <2> QED
      BY <2>1, <2>3, Vacuous, Zenon DEF IInv
  <1>3. CASE ~(stage < Stages)
    <2>1. CloseAll("failed")
      BY <1>3, Zenon
    <2>2. /\ pc' = "close" /\ stage' = 1 /\ reason' = "failed"
          /\ New' /\ Prefilling' /\ Prefilled' /\ Decoding' /\ Decoded' /\ RollingBack'
          /\ Emitting' /\ Closing' /\ Done'
      BY <2>1, ToClose, Zenon
    <2>3. Types' /\ Output' /\ Lost'
      BY Zenon, <1>1, <2>2, StageOne DEF Types, Pcs, Output, Lost
    <2> QED
      BY <2>2, <2>3, Zenon DEF IInv
  <1> QED
    BY <1>2, <1>3, Zenon

\* The rollback of one stage succeeds: the loop goes on, or the tokens are emitted.
LEMMA RollbackSucceeds ==
  ASSUME IInv, pc = "rollback", reason = "",
         IF stage < Stages THEN stage' = stage + 1 /\ UNCHANGED <<pc, call, reason>>
         ELSE pc' = "emit" /\ UNCHANGED <<stage, call, reason>>,
         UNCHANGED <<truth, late, draft, tokens, out, step, unclosed, outcome>>,
         SessTypes', Bounded',
         \A s \in 1..Stages : s # stage => sess'[s] = sess[s],
         sess'[stage] = [cache |-> Greedy(truth, step - 1), step |-> step]
  PROVE  IInv'
  <1> DEFINE g == Greedy(truth, step - 1)
             Longer(session) ==
                /\ Len(session.cache) = Len(Prompt) + step - 1 + call.count
                /\ SubSeq(session.cache, 1, Len(Prompt) + step - 1) = g
                /\ session.step = step + call.count
  <1>1. /\ call.op = "rollback" /\ call.count \in Nat \ {0}
        /\ Types /\ Output /\ Lost /\ stage \in 1..Stages
    BY Zenon, RollbackFacts
  <1>2. /\ Unharmed /\ Confirmed
        /\ \A s \in 1..Stages :
              IF s < stage THEN Kept(sess[s], g, step) ELSE (Open(sess[s]) => Longer(sess[s]))
    BY Zenon DEF IInv, RollingBack
  <1>3. Output' /\ Unharmed' /\ Confirmed' /\ g' = g /\ reason' = ""
    BY Zenon, <1>1, <1>2 DEF Output, Unharmed, Confirmed
  <1>4. CASE stage < Stages
    <2>1. stage' = stage + 1 /\ pc' = "rollback" /\ call' = call /\ reason' = reason
      BY Zenon, <1>4
    <2>2. stage' \in 1..Stages
      BY Zenon, <1>1, <1>4, <2>1, StageOrder
    <2>3. Types' /\ Lost'
      BY Zenon, <1>1, <2>1, <2>2 DEF Types, Pcs, Lost
    <2>4. \A s \in 1..Stages : (s < stage + 1) = (s < stage \/ s = stage)
      BY Zenon, <1>1, StageOrder
    <2>5. ASSUME NEW s \in 1..Stages
          PROVE  IF s < stage' THEN Kept(sess'[s], g, step) ELSE (Open(sess'[s]) => Longer(sess'[s]))
      <3> HIDE DEF g, Longer
      <3>1. CASE s = stage
        BY Zenon, <3>1, <2>1, <2>4 DEF Kept, g
      <3>2. CASE s # stage
        BY Zenon, <3>2, <1>2, <2>1, <2>4
      <3> QED
        BY Zenon, <3>1, <3>2
    <2>6. RollingBack'
      <3>1. ASSUME NEW s \in 1..Stages
            PROVE  IF s < stage' THEN Kept(sess'[s], Greedy(truth', step' - 1), step')
                   ELSE Open(sess'[s]) =>
                       /\ Len(sess'[s].cache) = Len(Prompt) + step' - 1 + call'.count
                       /\ SubSeq(sess'[s].cache, 1, Len(Prompt) + step' - 1) = Greedy(truth', step' - 1)
                       /\ sess'[s].step = step' + call'.count
        BY Zenon, <2>1, <2>5
      <3> QED
        BY Zenon, <1>1, <1>3, <2>1, <3>1 DEF RollingBack
    <2> QED
      BY Zenon, <1>3, <2>1, <2>3, <2>6, Vacuous DEF IInv
  <1>5. CASE ~(stage < Stages)
    <2>1. pc' = "emit" /\ stage' = stage /\ reason' = reason
      BY Zenon, <1>5
    <2>2. Types' /\ Lost'
      BY Zenon, <1>1, <2>1 DEF Types, Pcs, Lost
    <2>3. \A s \in 1..Stages : s # stage => s < stage
      BY Zenon, <1>1, <1>5, StageOrder
    <2>4. \A s \in 1..Stages : Kept(sess'[s], g, step)
      <3> HIDE DEF g, Longer
      <3> QED
        BY Zenon, <1>2, <2>3 DEF Kept, g
    <2>5. Emitting'
      BY Zenon, <1>3, <2>1, <2>4 DEF Emitting
    <2> QED
      BY Zenon, <1>3, <2>1, <2>2, <2>5, Vacuous DEF IInv
  <1> QED
    BY Zenon, <1>4, <1>5

\* The answer of a stage to a rollback.
LEMMA RollbackAnsweredInv == ASSUME IInv, RollbackAnswered PROVE IInv'
  <1>1. pc = "rollback" /\ UNCHANGED <<late, unclosed>>
    BY Zenon DEF RollbackAnswered
  <1>2. PICK r \in validate_response_identity(Results(stage, sess[stage], call)) :
         sess' = [sess EXCEPT ![stage] = r.session] /\ RollbackNext(~r.ok)
    BY Zenon DEF RollbackAnswered
  <1>3. r \in validate_response(Results(stage, sess[stage], call))
    BY Validated, Zenon
  <1>4. /\ CallFits(sess[stage], call) /\ ~Computes(call) /\ reason \in {"", "failed"}
        /\ SessTypes /\ Bounded /\ Types /\ Lost /\ stage \in 1..Stages
    BY Zenon, <1>1, RollbackFacts
  <1>5. SessTypes' /\ Bounded'
    BY Zenon, <1>1, <1>2, <1>3, <1>4, CallBounded
  <1>6. sess'[stage] = r.session /\ \A s \in 1..Stages : s # stage => sess'[s] = sess[s]
    BY Zenon, <1>2, <1>4, SessUpdated
  <1>7. UNCHANGED <<truth, draft, tokens, out, step, outcome>>
    BY <1>2, Zenon DEF RollbackNext
  <1>8. unclosed' \subseteq 1..Stages /\ \A l \in late' : l.stage \in unclosed'
    BY Zenon, <1>1, <1>4 DEF Types, Lost
  <1>9. CASE r.ok /\ reason = ""
    <2>1. IF stage < Stages THEN stage' = stage + 1 /\ UNCHANGED <<pc, call, reason>>
          ELSE pc' = "emit" /\ UNCHANGED <<stage, call, reason>>
      BY Zenon, <1>2, <1>9 DEF RollbackNext
    <2>2. r.session = [cache |-> Greedy(truth, step - 1), step |-> step]
      BY Zenon, <1>1, <1>3, <1>9, RollbackAnswer
    <2> QED
      BY Zenon, <1>1, <1>5, <1>6, <1>7, <1>9, <2>1, <2>2, RollbackSucceeds
  <1>10. CASE ~r.ok \/ reason = "failed"
    <2>1. IF stage < Stages
          THEN stage' = stage + 1 /\ reason' = "failed" /\ UNCHANGED <<pc, call>>
          ELSE CloseAll("failed")
      BY <1>2, <1>10, Zenon DEF RollbackNext
    <2> QED
      BY <1>1, <1>5, <1>7, <1>8, <2>1, RollbackFails
  <1> QED
    BY Zenon, <1>4, <1>9, <1>10

\* A stage that does not answer a rollback.
LEMMA RollbackUnansweredInv == ASSUME IInv, RollbackUnanswered PROVE IInv'
  <1>1. pc = "rollback" /\ Unanswered /\ unclosed' = unclosed \cup {stage} /\ RollbackNext(TRUE)
    BY Zenon DEF RollbackUnanswered
  <1>2. /\ CallFits(sess[stage], call) /\ ~Computes(call)
        /\ SessTypes /\ Bounded /\ Types /\ Lost /\ stage \in 1..Stages
    BY Zenon, <1>1, RollbackFacts
  <1>3. SessTypes' /\ Bounded' /\ late' \subseteq late \cup {[stage |-> stage, call |-> call]}
    BY <1>1, <1>2, UnansweredBounded, Zenon
  <1>4. unclosed' \subseteq 1..Stages
    BY Zenon, <1>1, <1>2 DEF Types
  <1>5. ASSUME NEW l \in late' PROVE l.stage \in unclosed'
    BY <1>1, <1>2, <1>3 DEF Lost
  <1>6. /\ UNCHANGED <<truth, draft, tokens, out, step, outcome>>
        /\ IF stage < Stages
           THEN stage' = stage + 1 /\ reason' = "failed" /\ UNCHANGED <<pc, call>>
           ELSE CloseAll("failed")
    BY <1>1, Zenon DEF RollbackNext
  <1> QED
    BY <1>1, <1>3, <1>4, <1>5, <1>6, RollbackFails

-----------------------------------------------------------------------------
(* Output *)

\* The next confirmed token is the model's next choice.
LEMMA EmitsChoice ==
  ASSUME IInv, pc = "emit", tokens # <<>>
  PROVE  /\ Head(tokens) = truth[Len(out) + 1] /\ Len(out) < MaxTokens
         /\ Tail(tokens) \in Seq(Vocab \cup {EOG}) /\ Len(Tail(tokens)) = Len(tokens) - 1
         /\ \A i \in 1..Len(tokens) - 1 : Tail(tokens)[i] = tokens[i + 1]
         /\ Len(tokens) \in Nat \ {0}
  <1>1. Confirmed /\ Len(out) \in Nat
    BY DEF IInv, Emitting, Output
  <1>2. tokens \in Seq(Vocab \cup {EOG})
    BY <1>1, Zenon DEF Confirmed
  <1>3. Len(tokens) \in Nat \ {0}
    BY <1>2, EmptySeq, Zenon
  <1>4. /\ Tail(tokens) \in Seq(Vocab \cup {EOG}) /\ Len(Tail(tokens)) = Len(tokens) - 1
        /\ \A i \in 1..Len(tokens) - 1 : Tail(tokens)[i] = tokens[i + 1]
    BY <1>2, HeadTailProperties, Zenon
  <1>5. Head(tokens) = tokens[1]
    BY <1>2, <1>3
  <1>6. tokens[1] = truth[Len(out) + 1]
    <2>1. 1 \in 1..Len(tokens)
      BY <1>3
    <2> QED
      BY <1>1, <2>1, Zenon DEF Confirmed
  <1>7. Len(out) < MaxTokens
    BY <1>1, <1>3, Constants DEF Confirmed
  <1> QED
    BY <1>3, <1>4, <1>5, <1>6, <1>7

\* The output with one more choice of the model.
LEMMA OneMore ==
  ASSUME NEW t \in Truths, NEW o, Len(o) \in 0..MaxTokens, o = SubSeq(t, 1, Len(o)),
         Goes(t, Len(o)), Len(o) < MaxTokens, t[Len(o) + 1] # EOG
  PROVE  LET p == Append(o, t[Len(o) + 1])
         IN /\ Len(p) = Len(o) + 1 /\ Len(p) \in 0..MaxTokens
            /\ p = SubSeq(t, 1, Len(p)) /\ Goes(t, Len(p))
  <1> DEFINE V == Vocab \cup {EOG}
             n == Len(o)
             x == t[n + 1]
             p == Append(o, x)
  <1>1. n \in Nat /\ n + 1 \in 1..MaxTokens /\ n + 1 \in Nat
    BY Constants
  <1>2. t \in Seq(V) /\ Len(t) = MaxTokens /\ x \in V
    BY <1>1, TruthSeq, Zenon
  <1>3. o \in Seq(V)
    BY GreedySeq, Zenon
  <1>4. p = o \o <<x>> /\ Len(p) = n + 1
    BY <1>2, <1>3, AppendProperties, AppendIsConcat
  <1>5. SubSeq(t, 1, n + 1) = SubSeq(t, 1, n + 1 - 1) \o <<t[n + 1]>>
    <2>1. 1 \in 1..Len(t) /\ n + 1 \in 1..Len(t)
      BY <1>1, <1>2, Constants
    <2> QED
      BY <1>2, <2>1, SubSeqRecursiveSecond
  <1>6. n + 1 - 1 = n
    BY <1>1
  <1>7. p = SubSeq(t, 1, n + 1)
    BY <1>4, <1>5, <1>6, Zenon
  <1>8. Goes(t, n + 1)
    <2>1. ASSUME NEW i \in 1..n + 1 PROVE t[i] # EOG
      <3>1. i \in 1..n \/ i = n + 1
        BY <1>1
      <3> QED
        BY <3>1, Zenon DEF Goes
    <2> QED
      BY <2>1, Zenon DEF Goes
  <1>9. n + 1 \in 0..MaxTokens
    BY <1>1, Constants
  <1> QED
    BY <1>4, <1>7, <1>8, <1>9, Zenon

\* A token is given to the client, or the client refuses it.
LEMMA EmitInv == ASSUME IInv, Emit PROVE IInv'
  <1> DEFINE x == Head(tokens)
  <1>1. /\ pc = "emit" /\ tokens # <<>> /\ Len(out) < MaxTokens /\ x # EOG
        /\ tokens' = Tail(tokens)
        /\ UNCHANGED <<truth, sess, late, faults, draft, step, recover, unclosed, outcome>>
        /\ \/ out' = Append(out, x) /\ UNCHANGED <<pc, stage, call, reason>>
           \/ out' \in {out, Append(out, x)} /\ CloseAll("failed")
    BY Zenon DEF Emit, engineVars
  <1>2. /\ x = truth[Len(out) + 1]
        /\ tokens' \in Seq(Vocab \cup {EOG}) /\ Len(tokens') = Len(tokens) - 1
        /\ \A i \in 1..Len(tokens) - 1 : tokens'[i] = tokens[i + 1]
        /\ Len(tokens) \in Nat \ {0}
    BY <1>1, EmitsChoice, Zenon
  <1>3. /\ Types /\ Output /\ Lost /\ Bounded /\ SessTypes /\ truth \in Truths
        /\ Unharmed /\ Confirmed
        /\ \A s \in 1..Stages : Kept(sess[s], Greedy(truth, step - 1), step)
    BY Zenon, <1>1 DEF IInv, Types, Emitting
  <1>4. SessTypes' /\ Bounded'
    BY <1>1, <1>3, Zenon DEF SessTypes, Bounded
  <1> HIDE DEF x
  <1>5. /\ Len(out) \in 0..MaxTokens /\ out = SubSeq(truth, 1, Len(out)) /\ Goes(truth, Len(out))
    BY <1>3, Zenon DEF Output
  <1>6. LET p == Append(out, x)
        IN /\ Len(p) = Len(out) + 1 /\ Len(p) \in 0..MaxTokens
           /\ p = SubSeq(truth, 1, Len(p)) /\ Goes(truth, Len(p))
    BY <1>1, <1>2, <1>3, <1>5, OneMore, Zenon
  <1>7. CASE out' = Append(out, x) /\ UNCHANGED <<pc, stage, call, reason>>
    <2>1. /\ Len(out') = Len(out) + 1 /\ Len(out') \in 0..MaxTokens
          /\ out' = SubSeq(truth', 1, Len(out')) /\ Goes(truth', Len(out'))
      BY <1>1, <1>6, <1>7, Zenon
    <2>2. reason' = "" /\ Unharmed'
      BY Zenon, <1>1, <1>3, <1>7 DEF Unharmed
    <2>3. Types' /\ Lost' /\ Output'
      BY Zenon, <1>1, <1>3, <1>4, <1>7, <2>1, <2>2 DEF Types, Lost, Output
    <2>4. Confirmed'
      <3>1. /\ draft = <<>> /\ step = Len(out) + Len(tokens) /\ step \in 1..MaxTokens
            /\ \A i \in 1..Len(tokens) : tokens[i] = truth[Len(out) + i]
            /\ Goes(truth, step - 1)
        BY <1>3, Zenon DEF Confirmed
      <3>2. step = Len(out') + Len(tokens')
        BY <1>2, <1>5, <2>1, <3>1
      <3>3. ASSUME NEW i \in 1..Len(tokens') PROVE tokens'[i] = truth'[Len(out') + i]
        <4>1. i \in 1..Len(tokens) - 1 /\ i + 1 \in 1..Len(tokens) /\ Len(out) + (i + 1) = Len(out') + i
          BY <1>2, <1>5, <2>1
        <4> QED
          BY <1>1, <1>2, <3>1, <4>1, Zenon
      <3> QED
        BY Zenon, <1>1, <1>2, <3>1, <3>2, <3>3 DEF Confirmed
    <2>5. Emitting'
      BY Zenon, <1>1, <1>3, <2>2, <2>4 DEF Emitting
    <2> QED
      BY <1>1, <1>4, <1>7, <2>3, <2>5, Vacuous, Zenon DEF IInv
  <1>8. CASE out' \in {out, Append(out, x)} /\ CloseAll("failed")
    <2>1. /\ Len(out') \in 0..MaxTokens /\ out' = SubSeq(truth', 1, Len(out')) /\ Goes(truth', Len(out'))
      <3>1. CASE out' = out
        BY Zenon, <1>1, <1>5, <3>1
      <3>2. CASE out' = Append(out, x)
        BY <1>1, <1>6, <3>2, Zenon
      <3> QED
        BY <1>8, <3>1, <3>2, Zenon
    <2>2. /\ pc' = "close" /\ stage' = 1 /\ reason' = "failed"
          /\ New' /\ Prefilling' /\ Prefilled' /\ Decoding' /\ Decoded' /\ RollingBack'
          /\ Emitting' /\ Closing' /\ Done'
      BY <1>8, ToClose, Zenon
    <2>3. Types' /\ Lost'
      BY Zenon, <1>1, <1>3, <1>4, <2>2, StageOne DEF Types, Pcs, Lost
    <2>4. Output'
      BY <2>1, <2>2, Zenon DEF Output
    <2> QED
      BY <1>4, <2>2, <2>3, <2>4, Zenon DEF IInv
  <1> QED
    BY <1>1, <1>7, <1>8, Zenon

\* A draft leaves room for the token that verification always yields.
LEMMA DraftFits ==
  ASSUME Len(out) \in Nat, Len(out) < MaxTokens, NEW d \in Drafts
  PROVE  d \in Seq(Vocab) /\ Len(d) \in Nat /\ Len(out) + Len(d) < MaxTokens
  <1> DEFINE remaining == MaxTokens - Len(out)
             limit == IF recover THEN 0 ELSE IF MaxDraft < remaining - 1 THEN MaxDraft ELSE remaining - 1
  <1>1. PICK n \in 0..limit : d \in [1..n -> Vocab]
    BY Zenon DEF Drafts
  <1>2. remaining - 1 \in Nat /\ limit \in Nat /\ limit <= remaining - 1
    BY Constants
  <1> HIDE DEF limit
  <1>3. n \in Nat /\ Len(out) + n < MaxTokens
    BY <1>1, <1>2, Constants
  <1>4. d \in Seq(Vocab)
    BY <1>1, <1>3, SeqDef, Zenon
  <1>5. Len(d) \in Nat /\ 1..Len(d) = 1..n
    BY <1>1, <1>4, LenProperties, Zenon
  <1>6. Len(d) = n
    BY <1>3, <1>5
  <1> QED
    BY <1>3, <1>4, <1>6, Zenon

\* The next decode pass, with any draft that fits.
LEMMA NextPassInv == ASSUME IInv, NextPass PROVE IInv'
  <1>1. /\ pc = "emit" /\ tokens = <<>> /\ Len(out) < MaxTokens
        /\ UNCHANGED <<truth, sess, late, faults, tokens, out, step, unclosed, reason, outcome>>
    BY Zenon DEF NextPass, engineVars
  <1>2. PICK d \in Drafts :
         /\ draft' = d
         /\ Begin("pass", Call("decode", [tokens |-> <<out[Len(out)]>> \o d, basis |-> <<>>], step, 0))
    BY Zenon DEF NextPass
  <1>3. /\ Types /\ Output /\ Lost /\ Bounded /\ SessTypes /\ truth \in Truths
        /\ Unharmed /\ Confirmed
        /\ \A s \in 1..Stages : Kept(sess[s], Greedy(truth, step - 1), step)
    BY Zenon, <1>1 DEF IInv, Types, Emitting
  <1>4. SessTypes' /\ Bounded' /\ Output' /\ Unharmed'
    BY Zenon, <1>1, <1>3 DEF SessTypes, Bounded, Output, Unharmed
  <1>5. Len(out) \in 0..MaxTokens /\ Len(out) \in Nat
    <2>1. Len(out) \in 0..MaxTokens
      BY <1>3, Zenon DEF Output
    <2> QED
      BY <2>1, Constants
  <1>6. d \in Seq(Vocab) /\ Len(d) \in Nat /\ Len(out) + Len(d) < MaxTokens
    BY <1>1, <1>5, DraftFits, Zenon
  <1>7. step = Len(out) /\ step > 0
    <2>1. step = Len(out) + Len(tokens) /\ step \in 1..MaxTokens /\ Len(tokens) = 0
      BY <1>1, <1>3, EmptySeq, Zenon DEF Confirmed
    <2> QED
      BY <1>5, <2>1, Constants
  <1>8. out[Len(out)] = truth[step]
    <2>1. step \in 0..MaxTokens /\ step \in 1..step /\ out = SubSeq(truth, 1, step)
      BY <1>3, <1>5, <1>7 DEF Output
    <2>2. SubSeq(truth, 1, step)[step] = truth[step]
      BY <1>3, <2>1, GreedySeq, Zenon
    <2> QED
      BY <1>7, <2>1, <2>2, Zenon
  <1>9. /\ pc' = "pass" /\ stage' = 1
        /\ call' = Call("decode", [tokens |-> <<truth[step]>> \o d, basis |-> <<>>], step, 0)
    BY <1>2, <1>8, Zenon DEF Begin
  <1>10. call'.op = "decode"
    BY <1>9, Zenon DEF Call
  <1>11. Drafted'
    <2>1. /\ step' = Len(out') /\ step' > 0 /\ Unharmed'
          /\ draft' \in Seq(Vocab) /\ step' + Len(draft') < MaxTokens
      BY <1>1, <1>2, <1>4, <1>6, <1>7
    <2> QED
      BY <2>1, Zenon DEF Drafted
  <1>12. Types' /\ Lost'
    BY Zenon, <1>1, <1>3, <1>4, <1>9, StageOne DEF Types, Pcs, Lost, Unharmed
  <1>13. Prefilling'
    BY <1>10, Zenon DEF Prefilling
  <1>14. Decoding'
    <2>1. \A s \in 1..Stages : ~(s < stage') /\ Kept(sess'[s], Greedy(truth', step' - 1), step')
      <3>1. \A s \in 1..Stages : ~(s < stage')
        BY <1>9, Constants
      <3> QED
        BY <1>1, <1>3, <3>1, Zenon
    <2>2. call' = Call("decode", [tokens |-> <<truth'[step']>> \o draft', basis |-> <<>>], step', 0)
      BY <1>1, <1>2, <1>9, Zenon
    <2> QED
      BY <1>9, <1>11, <2>1, <2>2, Zenon DEF Decoding
  <1> QED
    BY <1>4, <1>9, <1>12, <1>13, <1>14, Vacuous DEF IInv

\* The end of the emission, by the end token, the length or a failure.
LEMMA FinishInv == ASSUME IInv, Finish PROVE IInv'
  <1>1. /\ pc = "emit"
        /\ UNCHANGED <<truth, sess, late, faults, draft, tokens, out, step, recover, unclosed, outcome>>
    BY Zenon DEF Finish, engineVars
  <1>2. /\ Types /\ Output /\ Lost /\ Bounded /\ SessTypes /\ Unharmed
    BY Zenon, <1>1 DEF IInv, Types, Emitting
  <1>3. SessTypes' /\ Bounded'
    BY <1>1, <1>2, Zenon DEF SessTypes, Bounded
  <1>4. PICK why \in {"stop", "length"} :
          /\ CloseAll(why)
          /\ why = "length" => Len(out) = MaxTokens
          /\ why = "stop" => Len(out) < MaxTokens /\ truth[Len(out) + 1] = EOG
    <2>1. CASE tokens # <<>> /\ Head(tokens) = EOG /\ Len(out) < MaxTokens
      BY <1>1, <2>1, EmitsChoice, Zenon DEF Finish
    <2>2. CASE ~(tokens # <<>> /\ Head(tokens) = EOG /\ Len(out) < MaxTokens)
      BY <2>2, Zenon DEF Finish
    <2> QED
      BY <2>1, <2>2, Zenon
  <1>5. /\ pc' = "close" /\ stage' = 1 /\ reason' = why
        /\ New' /\ Prefilling' /\ Prefilled' /\ Decoding' /\ Decoded' /\ RollingBack'
        /\ Emitting' /\ Closing' /\ Done'
    BY <1>4, ToClose, Zenon
  <1>6. Types' /\ Lost'
    BY Zenon, <1>1, <1>2, <1>3, <1>5, StageOne DEF Types, Pcs, Lost, Unharmed
  <1>7. Output'
    BY <1>1, <1>2, <1>4, <1>5, Zenon DEF Output
  <1> QED
    BY <1>3, <1>5, <1>6, <1>7, Zenon DEF IInv

-----------------------------------------------------------------------------
(* Closing, and what happens beside the runner *)

\* The loop of close_sessions: a stage whose session may be left is on record.
LEMMA CloseStep ==
  ASSUME IInv, pc = "close",
         reason' \in {reason, "failed"}, unclosed' # {} => reason' = "failed",
         IF stage < Stages THEN stage' = stage + 1 /\ UNCHANGED <<pc, outcome>>
         ELSE pc' = "done" /\ outcome' = reason' /\ UNCHANGED stage,
         UNCHANGED <<truth, call, draft, tokens, out, step, recover>>,
         SessTypes', Bounded', unclosed \subseteq unclosed', unclosed' \subseteq 1..Stages,
         \A l \in late' : l.stage \in unclosed',
         \A s \in 1..Stages : s # stage => sess'[s] = sess[s],
         Open(sess'[stage]) => stage \in unclosed'
  PROVE  IInv'
  <1>1. /\ Types /\ Output /\ stage \in 1..Stages /\ call.op = "close" /\ reason # ""
        /\ \A s \in 1..Stages : s < stage /\ Open(sess[s]) => s \in unclosed
    BY Zenon DEF IInv, Types, Closing
  <1>2. \A s \in 1..Stages : (s < stage \/ s = stage) /\ Open(sess'[s]) => s \in unclosed'
    BY Zenon, <1>1
  <1>3. Output'
    BY Zenon, <1>1 DEF Output
  <1>4. CASE stage < Stages
    <2>1. stage' = stage + 1 /\ pc' = "close" /\ outcome' = outcome
      BY <1>4, Zenon
    <2>2. stage' \in 1..Stages /\ \A s \in 1..Stages : (s < stage') = (s < stage \/ s = stage)
      BY Zenon, <1>1, <1>4, <2>1, StageOrder
    <2>3. Types' /\ Lost'
      BY Zenon, <1>1, <2>1, <2>2 DEF Types, Pcs, Lost
    <2>4. Closing'
      BY Zenon, <1>1, <1>2, <2>2 DEF Closing
    <2> QED
      BY <1>3, <2>1, <2>3, <2>4, Vacuous DEF IInv
  <1>5. CASE ~(stage < Stages)
    <2>1. stage' = stage /\ pc' = "done" /\ outcome' = reason'
      BY <1>5, Zenon
    <2>2. \A s \in 1..Stages : s # stage => s < stage
      BY Zenon, <1>1, <1>5, StageOrder
    <2>3. Types' /\ Lost'
      BY Zenon, <1>1, <2>1 DEF Types, Pcs, Lost
    <2>4. Done'
      BY <1>2, <2>1, <2>2, Zenon DEF Done
    <2> QED
      BY <1>3, <2>1, <2>3, <2>4, Vacuous, Zenon DEF IInv
  <1> QED
    BY <1>4, <1>5, Zenon

\* Where the runner is while it closes the sessions.
LEMMA CloseFacts ==
  ASSUME IInv, pc = "close"
  PROVE  /\ CallFits(sess[stage], call) /\ ~Computes(call) /\ call.op = "close"
         /\ SessTypes /\ Bounded /\ Lost /\ stage \in 1..Stages /\ unclosed \subseteq 1..Stages
  <1>1. /\ call.op = "close" /\ SessTypes /\ Bounded /\ Lost
        /\ stage \in 1..Stages /\ unclosed \subseteq 1..Stages
    BY Zenon DEF IInv, Closing, Types
  <1> QED
    BY <1>1, Zenon DEF CallFits, Computes, Ops

\* The answer of a stage to a close.
LEMMA CloseAnsweredInv == ASSUME IInv, CloseAnswered PROVE IInv'
  <1>1. pc = "close" /\ UNCHANGED late
    BY Zenon DEF CloseAnswered
  <1>2. PICK r \in validate_response_identity(Results(stage, sess[stage], call)) :
         /\ sess' = [sess EXCEPT ![stage] = r.session]
         /\ unclosed' = IF r.ok THEN unclosed ELSE unclosed \cup {stage}
         /\ CloseNext(~r.ok)
    BY Zenon DEF CloseAnswered
  <1>3. r \in validate_response(Results(stage, sess[stage], call))
    BY Validated, Zenon
  <1>4. /\ CallFits(sess[stage], call) /\ ~Computes(call) /\ call.op = "close"
        /\ SessTypes /\ Bounded /\ Lost /\ stage \in 1..Stages /\ unclosed \subseteq 1..Stages
    BY <1>1, CloseFacts, Zenon
  <1>5. SessTypes' /\ Bounded'
    BY Zenon, <1>1, <1>2, <1>3, <1>4, CallBounded
  <1>6. sess'[stage] = r.session /\ \A s \in 1..Stages : s # stage => sess'[s] = sess[s]
    BY Zenon, <1>2, <1>4, SessUpdated
  <1>7. Open(sess'[stage]) => stage \in unclosed'
    <2>1. r.ok => r.session = NoSession
      BY Zenon, <1>3, <1>4, CloseResults DEF CloseResult
    <2>2. ~r.ok => stage \in unclosed'
      BY <1>2, Zenon
    <2> QED
      BY <1>6, <2>1, <2>2, NoSessionFine
  <1>8. /\ reason' = IF ~r.ok THEN "failed" ELSE reason
        /\ IF stage < Stages THEN stage' = stage + 1 /\ UNCHANGED <<pc, outcome>>
           ELSE pc' = "done" /\ outcome' = reason' /\ UNCHANGED stage
        /\ UNCHANGED <<truth, call, draft, tokens, out, step, recover>>
    BY <1>2, Zenon DEF CloseNext
  <1>9. /\ reason' \in {reason, "failed"} /\ unclosed' # {} => reason' = "failed"
        /\ unclosed \subseteq unclosed' /\ unclosed' \subseteq 1..Stages
    BY <1>1, <1>2, <1>4, <1>8, Zenon DEF Lost
  <1>10. \A l \in late' : l.stage \in unclosed'
    BY Zenon, <1>1, <1>4, <1>9 DEF Lost
  <1> QED
    BY Zenon, <1>1, <1>5, <1>6, <1>7, <1>8, <1>9, <1>10, CloseStep

\* A stage that does not answer a close.
LEMMA CloseUnansweredInv == ASSUME IInv, CloseUnanswered PROVE IInv'
  <1>1. pc = "close" /\ Unanswered /\ unclosed' = unclosed \cup {stage} /\ CloseNext(TRUE)
    BY Zenon DEF CloseUnanswered
  <1>2. /\ CallFits(sess[stage], call) /\ ~Computes(call)
        /\ SessTypes /\ Bounded /\ Lost /\ stage \in 1..Stages /\ unclosed \subseteq 1..Stages
    BY <1>1, CloseFacts, Zenon
  <1>3. /\ SessTypes' /\ Bounded' /\ late' \subseteq late \cup {[stage |-> stage, call |-> call]}
        /\ \A s \in 1..Stages : s # stage => sess'[s] = sess[s]
    BY <1>1, <1>2, UnansweredBounded, Zenon
  <1>4. ASSUME NEW l \in late' PROVE l.stage \in unclosed'
    BY <1>1, <1>2, <1>3 DEF Lost
  <1>5. /\ reason' = "failed"
        /\ IF stage < Stages THEN stage' = stage + 1 /\ UNCHANGED <<pc, outcome>>
           ELSE pc' = "done" /\ outcome' = reason' /\ UNCHANGED stage
        /\ UNCHANGED <<truth, call, draft, tokens, out, step, recover>>
    BY <1>1, Zenon DEF CloseNext
  <1>6. /\ stage \in unclosed' /\ unclosed \subseteq unclosed' /\ unclosed' \subseteq 1..Stages
    BY <1>1, <1>2, Zenon
  <1> QED
    BY <1>1, <1>3, <1>4, <1>5, <1>6, CloseStep

\* A late call meets a runner that is rolling back after a failure, closing or done.
LEMMA LateCallInv == ASSUME IInv, LateCall PROVE IInv'
  <1>1. PICK l \in late :
         /\ late' = late \ {l}
         /\ \E r \in Results(l.stage, sess[l.stage], l.call) :
              sess' = [sess EXCEPT ![l.stage] = r.session]
    BY Zenon DEF LateCall
  <1>2. PICK r \in Results(l.stage, sess[l.stage], l.call) :
          sess' = [sess EXCEPT ![l.stage] = r.session]
    BY Zenon, <1>1
  <1>3. /\ UNCHANGED <<truth, pc, stage, call, draft, tokens, out, step, recover, unclosed, reason, outcome>>
    BY Zenon DEF LateCall, runnerVars
  <1>4. /\ Types /\ Output /\ Lost /\ Bounded /\ SessTypes /\ RollingBack /\ Closing /\ Done
    BY Zenon DEF IInv, Types
  <1>5. l.stage \in 1..Stages /\ CallFits(sess[l.stage], l.call) /\ l.stage \in unclosed
    BY <1>4, Zenon DEF Bounded, Lost
  <1>6. r \in validate_response(Results(l.stage, sess[l.stage], l.call))
    BY Validated, Zenon
  <1>7. SessTypes' /\ Bounded'
    <2>1. Computes(l.call) => \A m \in late' : ~Computes(m.call)
      BY <1>1, <1>4, Zenon DEF Bounded
    <2>2. late' \subseteq late
      BY <1>1, Zenon
    <2> QED
      BY Zenon, <1>2, <1>4, <1>5, <1>6, <2>1, <2>2, CallBounded
  <1>8. \A s \in 1..Stages : s # l.stage => sess'[s] = sess[s]
    BY <1>2, <1>4, <1>5, SessUpdated, Zenon
  <1>9. ~Unharmed /\ (pc # "done" => reason = "failed")
    BY Zenon, <1>4, <1>5 DEF Unharmed, Lost
  <1>10. pc \notin {"new", "pass", "verify", "emit"}
    <2>1. pc # "new" /\ pc # "emit"
      BY <1>9, Zenon DEF IInv, New, Emitting
    <2>2. pc # "pass"
      BY Zenon, <1>9, PassFacts
    <2>3. pc # "verify"
      BY <1>9, Zenon DEF IInv, Prefilled, Decoded, Drafted
    <2> QED
      BY <2>1, <2>2, <2>3, Zenon
  <1>11. Types' /\ Output' /\ Lost'
    BY Zenon, <1>1, <1>3, <1>4, <1>7 DEF Types, Output, Lost
  <1>12. RollingBack'
    BY Zenon, <1>3, <1>4, <1>9 DEF RollingBack
  <1>13. Closing'
    BY Zenon, <1>3, <1>4, <1>5, <1>8 DEF Closing
  <1>14. Done'
    BY Zenon, <1>3, <1>4, <1>5, <1>8 DEF Done
  <1> QED
    BY Zenon, <1>3, <1>7, <1>10, <1>11, <1>12, <1>13, <1>14, Vacuous DEF IInv

\* A session that expires is one that is no longer there.
LEMMA ExpireInv == ASSUME IInv, NEW i \in 1..Stages, Expire(i) PROVE IInv'
  <1>1. /\ sess' = [sess EXCEPT ![i] = NoSession]
        /\ UNCHANGED <<truth, late, faults, pc, stage, call, draft, tokens, out, step, recover,
                       unclosed, reason, outcome>>
    BY Zenon DEF Expire, runnerVars
  <1>2. Types /\ Output /\ Lost /\ Bounded /\ SessTypes
    BY Zenon DEF IInv, Types
  <1>3. \A s \in 1..Stages : sess'[s] = sess[s] \/ sess'[s] = NoSession
    BY <1>1, <1>2, SessUpdated, Zenon
  <1>4. SessTypes'
    BY Zenon, <1>1, <1>2, NoSessionFine, SessTyped
  <1>5. Types' /\ Output' /\ Lost'
    BY Zenon, <1>1, <1>2, <1>4 DEF Types, Output, Lost
  <1>6. Bounded'
    <2>1. \A s \in 1..Stages : Open(sess'[s]) => sess'[s] = sess[s]
      BY <1>3, NoSessionFine, Zenon
    <2>2. \A s \in 1..Stages : Open(sess'[s]) => Len(sess'[s].cache) <= Reserved
      BY <1>2, <2>1, Zenon DEF Bounded
    <2>3. ASSUME NEW l \in late PROVE l.stage \in 1..Stages /\ CallFits(sess'[l.stage], l.call)
      <3>1. l.stage \in 1..Stages /\ CallFits(sess[l.stage], l.call)
        BY <1>2, Zenon DEF Bounded
      <3> QED
        BY Zenon, <2>1, <3>1 DEF CallFits
    <2>4. \A l, m \in late : Computes(l.call) /\ Computes(m.call) => l = m
      BY <1>2, Zenon DEF Bounded
    <2> QED
      BY Zenon, <1>1, <2>2, <2>3, <2>4 DEF Bounded, Computes
  <1>7. \A s \in 1..Stages : \A rows, n : Kept(sess[s], rows, n) => Kept(sess'[s], rows, n)
    BY <1>3, Zenon DEF Kept
  <1>8. \A s \in 1..Stages : Open(sess'[s]) => Open(sess[s]) /\ sess'[s] = sess[s]
    BY <1>3, NoSessionFine, Zenon
  <1>9. Unharmed => Unharmed'
    BY Zenon, <1>1 DEF Unharmed
  <1>10. New'
    BY <1>1, <1>3, <1>9, Zenon DEF IInv, New
  <1>11. Prefilling'
    BY <1>1, <1>3, <1>7, <1>9, Zenon DEF IInv, Prefilling
  <1>12. Prefilled'
    BY <1>1, <1>7, <1>9, Zenon DEF IInv, Prefilled
  <1>13. Drafted => Drafted'
    BY <1>1, <1>9, Zenon DEF Drafted
  <1>14. Decoding'
    BY Zenon, <1>1, <1>7, <1>13 DEF IInv, Decoding
  <1>15. Decoded'
    BY Zenon, <1>1, <1>7, <1>13 DEF IInv, Decoded
  <1>16. Confirmed => Confirmed'
    BY <1>1, Zenon DEF Confirmed
  <1>17. RollingBack'
    BY Zenon, <1>1, <1>7, <1>8, <1>9, <1>16 DEF IInv, RollingBack
  <1>18. Emitting'
    BY <1>1, <1>7, <1>9, <1>16, Zenon DEF IInv, Emitting
  <1>19. Closing' /\ Done'
    BY Zenon, <1>1, <1>8 DEF IInv, Closing, Done
  <1> QED
    BY <1>5, <1>6, <1>10, <1>11, <1>12, <1>14, <1>15, <1>17, <1>18, <1>19 DEF IInv

-----------------------------------------------------------------------------
(* Theorems *)

\* A step that changes nothing.
LEMMA StutterInv == ASSUME IInv, UNCHANGED vars PROVE IInv'
  <1>1. UNCHANGED <<truth, sess, late, faults, pc, stage, call, draft, tokens, out, step, recover,
                    unclosed, reason, outcome>>
    BY Zenon DEF vars, engineVars, runnerVars
  <1>2. Types' /\ Output' /\ Lost' /\ Bounded'
    BY Zenon, <1>1 DEF IInv, Types, SessTypes, Output, Lost, Bounded
  <1>3. New' /\ Prefilling' /\ Prefilled'
    BY Zenon, <1>1 DEF IInv, New, Prefilling, Prefilled, Unharmed
  <1>4. Decoding' /\ Decoded'
    BY Zenon, <1>1 DEF IInv, Decoding, Decoded, Drafted, Unharmed
  <1>5. RollingBack' /\ Emitting' /\ Closing' /\ Done'
    BY Zenon, <1>1 DEF IInv, RollingBack, Emitting, Closing, Done, Confirmed, Unharmed
  <1> QED
    BY <1>2, <1>3, <1>4, <1>5, Zenon DEF IInv

\* Every step preserves the invariant.
LEMMA NextInv == ASSUME IInv, [Next]_vars PROVE IInv'
  BY GenerateInv, PassAnsweredInv, PassUnansweredInv, VerifyInv, RollbackAnsweredInv,
     RollbackUnansweredInv, EmitInv, NextPassInv, FinishInv, CloseAnsweredInv,
     CloseUnansweredInv, LateCallInv, ExpireInv, StutterInv DEF Next, Runner

\* The invariant holds in every reachable state.
LEMMA Invariance == Spec => []IInv
  BY InitInv, NextInv, PTL DEF Spec

\* When a decode pass starts, the stages that still have their session hold the
\* prompt and all emitted tokens but the last and expect the runner's step, for
\* any drafts, prompt, number of stages, and lost, late and failed calls.
THEOREM AgreementCorrect == Spec => []StagesAgree
  <1>1. ASSUME IInv PROVE StagesAgree
    <2>1. SUFFICES ASSUME pc = "pass", stage = 1, call.op = "decode",
                          NEW s \in 1..Stages, Open(sess[s])
                   PROVE  /\ sess[s].cache = Prompt \o SubSeq(out, 1, Len(out) - 1)
                          /\ sess[s].step = step
      BY Zenon DEF StagesAgree
    <2> DEFINE V == Vocab \cup {EOG}
               n == Len(out)
    <2>2. /\ Drafted /\ Output /\ Types /\ Kept(sess[s], Greedy(truth, step - 1), step)
      <3>1. ~(s < stage)
        BY <2>1, Constants
      <3> QED
        BY <1>1, <2>1, <3>1, Zenon DEF IInv, Decoding
    <2>3. sess[s].cache = Greedy(truth, step - 1) /\ sess[s].step = step
      <3>1. Open(sess[s]) /\ Kept(sess[s], Greedy(truth, step - 1), step)
        BY <2>1, <2>2, Zenon
      <3> QED
        BY ONLY <3>1, KeptOpen, Zenon
    <2>4. truth \in Truths /\ n \in 1..MaxTokens /\ n - 1 \in 0..MaxTokens /\ n \in 0..MaxTokens /\ step = n
      BY <2>2, DraftedFacts, Zenon DEF Drafted, Output
    <2>5. out = SubSeq(truth, 1, n)
      BY <2>2, Zenon DEF Output
    <2> HIDE DEF n
    <2>6. SubSeq(out, 1, n - 1) = SubSeq(truth, 1, n - 1)
      <3> DEFINE u == SubSeq(truth, 1, n - 1)
                 w == SubSeq(out, 1, n - 1)
      <3>1. u \in Seq(V) /\ Len(u) = n - 1 /\ \A i \in 1..n - 1 : u[i] = truth[i]
        BY <2>4, GreedySeq, Zenon
      <3>2. out \in Seq(V) /\ Len(out) = n /\ \A i \in 1..n : out[i] = truth[i]
        BY <2>4, <2>5, GreedySeq, Zenon
      <3>3. \A i \in 1..n - 1 : i \in 1..n /\ 1 + i - 1 = i
        BY <2>4
      <3>4. \A i \in 1..n - 1 : out[i] \in V
        BY <3>2, <3>3, ElementOfSeq, Zenon
      <3>5. n - 1 \in Int /\ 1 \in Int /\ (n - 1) - 1 + 1 = n - 1 /\ (~(1 <= n - 1) => n - 1 = 0)
        BY <2>4, Constants
      <3>6. /\ w \in Seq(V) /\ Len(w) = (IF 1 <= n - 1 THEN (n - 1) - 1 + 1 ELSE 0)
            /\ \A i \in 1..(n - 1) - 1 + 1 : w[i] = out[1 + i - 1]
        BY <3>4, <3>5, SubSeqProperties
      <3> HIDE DEF u, w, V
      <3>7. w \in Seq(V) /\ Len(w) = n - 1 /\ \A i \in 1..n - 1 : w[i] = truth[i]
        BY <3>2, <3>3, <3>5, <3>6, Zenon
      <3>8. w = u
        BY <3>1, <3>7, SeqEqual, Zenon
      <3> QED
        BY Zenon, <3>8 DEF u, w
    <2> QED
      BY Zenon, <2>3, <2>4, <2>6 DEF Greedy, n
  <1> QED
    BY <1>1, Invariance, PTL

\* No session outgrows the positions that its prefill reserved, so that no pass is
\* refused for the context, for any drafts and any late or repeated call.
THEOREM PositionsCorrect == Spec => []ReservedPositionsSuffice
  <1>1. IInv => ReservedPositionsSuffice
    BY Zenon DEF IInv, Bounded, ReservedPositionsSuffice, Reserved
  <1> QED
    BY <1>1, Invariance, PTL

\* A session outlives its generation only on a stage that did not answer, and none
\* outlives a successful one, at whatever stage and step the calls fail.
THEOREM SessionsCorrect == Spec => []OnlyUnansweredStayOpen
  <1>1. IInv => OnlyUnansweredStayOpen
    BY Zenon DEF IInv, Done, Lost, OnlyUnansweredStayOpen
  <1> QED
    BY <1>1, Invariance, PTL

\* The client gets the greedy completion of the whole model or a failure: every
\* step of the runner, its stages and the network is a step of GreedyDecoder or
\* leaves the output alone.
THEOREM OutputCorrect == Spec => GreedyOutput
  <1>1. Init => Promise!Init
    BY Zenon DEF Init, Promise!Init
  <1>2. ASSUME IInv, [Next]_vars PROVE [Promise!Next]_<<truth, out, outcome>>
    <2>1. Types /\ Output /\ truth' = truth
      BY <1>2, Zenon DEF IInv, Next, Runner, Generate, PassAnswered, PassUnanswered, Verify,
                  RollbackAnswered, RollbackUnanswered, RollbackNext, Emit, NextPass, Finish,
                  CloseAnswered, CloseUnanswered, CloseNext, LateCall, Expire, vars
    <2>2. CASE Generate
      <3>1. outcome = "" /\ UNCHANGED <<truth, out>> /\ (outcome' = outcome \/ outcome' = "failed")
        BY Zenon, <2>1, <2>2 DEF Generate, Types
      <3> QED
        BY Zenon, <3>1 DEF Promise!Next, Promise!Finish
    <2>3. CASE Emit
      <3>1. /\ outcome = "" /\ UNCHANGED <<truth, outcome>>
            /\ pc = "emit" /\ tokens # <<>> /\ Head(tokens) # EOG
            /\ out' = out \/ out' = Append(out, Head(tokens))
        BY Zenon, <2>1, <2>3 DEF Emit, Types
      <3>2. Head(tokens) = truth[Len(out) + 1] /\ Len(out) < MaxTokens
        BY Zenon, <1>2, <3>1, EmitsChoice
      <3> QED
        BY Zenon, <3>1, <3>2 DEF Promise!Next, Promise!Token
    <2>4. CASE CloseAnswered \/ CloseUnanswered
      <3>1. /\ outcome = "" /\ UNCHANGED <<truth, out>> /\ reason # ""
            /\ reason \in {"stop", "length", "failed"}
        BY Zenon, <1>2, <2>1, <2>4
           DEF CloseAnswered, CloseUnanswered, CloseNext, IInv, Types, Closing
      <3>2. outcome' = outcome \/ outcome' = reason \/ outcome' = "failed"
        BY Zenon, <2>4 DEF CloseAnswered, CloseUnanswered, CloseNext
      <3> QED
        BY Zenon, <2>1, <3>1, <3>2 DEF Output, Promise!Next, Promise!Finish
    <2>5. CASE ~(Generate \/ Emit \/ CloseAnswered \/ CloseUnanswered)
      <3>1. UNCHANGED <<truth, out, outcome>>
        BY <1>2, <2>1, <2>5, Zenon
        DEF Next, Runner, PassAnswered, PassUnanswered, Verify, RollbackAnswered,
            RollbackUnanswered, RollbackNext, NextPass, Finish, LateCall, Expire, vars, runnerVars
      <3> QED
        BY <3>1, Zenon
    <2> QED
      BY <2>2, <2>3, <2>4, <2>5, Zenon
  <1> QED
    BY <1>1, <1>2, Invariance, PTL DEF Spec, GreedyOutput, Promise!Spec
=============================================================================
