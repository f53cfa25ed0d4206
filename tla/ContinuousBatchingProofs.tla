----------------------- MODULE ContinuousBatchingProofs -----------------------
(***************************************************************************)
(* Proofs about ContinuousBatching, for any finite set of callers and any  *)
(* batch size.  The inductive invariant is IInv: the request of a caller   *)
(* that waits is at one position of the queue or of the batch, and what    *)
(* the worker has in hand fits the batch.                                  *)
(***************************************************************************)
EXTENDS ContinuousBatching, FiniteSetTheorems, SequenceTheorems, TLAPS

Pending(c) == call[c] \in {"pushed", "waiting"} /\ answer[c] = NotSet

At(c, s) == \E i \in 1..Len(s) : s[i] = c

NoDuplicates(s) == \A i, j \in 1..Len(s) : s[i] = s[j] => i = j

\* The positions behind EachRequestOnce, without counting.
OnePlace ==
    /\ NoDuplicates(queue)
    /\ NoDuplicates(batch)
    /\ \A c \in Callers : ~(At(c, queue) /\ At(c, batch))
    /\ \A c \in Callers : Pending(c) <=> At(c, queue) \/ At(c, batch)

\* The batch is emptied before the worker looks at the queue again.
BatchInHand == batch # <<>> => worker \in {"execute", "running", "complete"}

\* Results are handed out only when each belongs to its request.
ResultsFit ==
    worker = "complete" => \A i \in 1..Len(batch) : results[i] \in {Failure, RowOf(batch[i])}

\* delegate_mutex: the engine, which is not thread safe, is entered by one thread
\* at a time, the batching thread or a caller.
OneThreadInEngine ==
    /\ worker = "running" <=> delegate = Worker
    /\ \A c \in Callers : call[c] = "direct" <=> delegate = c

IInv ==
    TypeOK /\ OnePlace /\ BatchInHand /\ ResultsFit /\ OwnAnswer /\ BatchFits /\ OneThreadInEngine

-------------------------------------------------------------------------------
\* An answer is never taken for a promise that is not set.
LEMMA AnswersDiffer == NotSet # Failure /\ \A c \in Callers : RowOf(c) # NotSet
  BY Zenon DEF NotSet, Failure, RowOf

\* The steps that neither move a request nor answer one nor take delegate_mutex.
LEMMA QuietIInv ==
  ASSUME IInv, TypeOK', UNCHANGED <<answer, queue, batch, results, delegate>>,
         \A c \in Callers : Pending(c)' <=> Pending(c),
         \A c \in Callers : call'[c] = "direct" <=> call[c] = "direct",
         worker' = worker \/ (batch = <<>> /\ {worker, worker'} \cap {"running", "complete"} = {})
  PROVE  IInv'
  <1>1. OnePlace'
    BY DEF IInv, OnePlace, At, NoDuplicates
  <1>2. BatchInHand'
    BY Zenon DEF IInv, BatchInHand
  <1>3. ResultsFit'
    BY Zenon DEF IInv, ResultsFit
  <1>4. OwnAnswer' /\ BatchFits'
    BY Zenon DEF IInv, OwnAnswer, BatchFits
  <1>5. OneThreadInEngine'
    BY Zenon DEF IInv, OneThreadInEngine
  <1> QED
    BY <1>1, <1>2, <1>3, <1>4, <1>5, Zenon DEF IInv

\* Nothing is queued and nobody holds delegate_mutex when the executor starts.
LEMMA InitIInv == Init => IInv
  <1> SUFFICES ASSUME Init PROVE IInv
    BY Zenon
  <1> USE BatchingAssumption
  <1>1. TypeOK
    BY EmptySeq, Zenon DEF Init, TypeOK, Answers, WorkerPcs
  <1>2. OnePlace
    BY DEF Init, OnePlace, NoDuplicates, At, Pending
  <1>3. BatchInHand /\ ResultsFit /\ OwnAnswer /\ BatchFits
    BY DEF Init, BatchInHand, ResultsFit, OwnAnswer, BatchFits
  <1>4. OneThreadInEngine
    BY Zenon DEF Init, OneThreadInEngine
  <1> QED
    BY <1>1, <1>2, <1>3, <1>4, Zenon DEF IInv

\* A new request is at one place, the end of the queue: its caller waited for
\* nothing before.
LEMMA PushIInv ==
  ASSUME IInv, NEW c \in Callers, Push(c)
  PROVE  IInv'
  <1>1. TypeOK
    BY Zenon DEF IInv
  <1>2. /\ queue' \in Seq(Callers) /\ Len(queue') = Len(queue) + 1
        /\ \A i \in 1..Len(queue) : queue'[i] = queue[i]
        /\ queue'[Len(queue) + 1] = c
    BY <1>1, AppendProperties DEF Push, TypeOK
  <1>3. Len(queue) \in Nat
    BY <1>1 DEF TypeOK
  <1>4. ~At(c, queue) /\ ~At(c, batch)
    BY Zenon DEF IInv, OnePlace, Pending, Push
  <1>5. TypeOK'
    BY <1>1, <1>2, Zenon DEF Push, TypeOK, Answers
  <1>6. \A d \in Callers : At(d, queue') <=> (At(d, queue) \/ d = c)
    BY <1>2, <1>3 DEF At
  <1>7. \A d \in Callers : Pending(d)' <=> (Pending(d) \/ d = c)
    BY <1>1, Zenon DEF Push, Pending, TypeOK
  <1>8. NoDuplicates(queue')
    BY <1>2, <1>3, <1>4 DEF IInv, OnePlace, NoDuplicates, At
  <1>9. OnePlace'
    <2>1. NoDuplicates(batch)' /\ \A d \in Callers : At(d, batch)' <=> At(d, batch)
      BY Zenon DEF Push, IInv, OnePlace, NoDuplicates, At
    <2>2. \A d \in Callers : At(d, queue)' <=> (At(d, queue) \/ d = c)
      BY <1>6, Zenon DEF At
    <2>3. NoDuplicates(queue)'
      BY <1>8, Zenon DEF NoDuplicates
    <2> QED
      BY <2>1, <2>2, <2>3, <1>4, <1>7, Zenon DEF IInv, OnePlace
  <1>10. BatchInHand' /\ ResultsFit' /\ BatchFits'
    BY Zenon DEF Push, IInv, BatchInHand, ResultsFit, BatchFits
  <1>11. OwnAnswer'
    BY <1>1, Zenon DEF Push, IInv, OwnAnswer, TypeOK
  <1>12. OneThreadInEngine'
    BY <1>1, Zenon DEF Push, IInv, OneThreadInEngine, TypeOK
  <1> QED
    BY <1>5, <1>9, <1>10, <1>11, <1>12, Zenon DEF IInv

\* A caller that is notified, returns or asks for the engine moves no request.
LEMMA NotifyIInv ==
  ASSUME IInv, NEW c \in Callers, Notify(c)
  PROVE  IInv'
  <1>1. TypeOK
    BY Zenon DEF IInv
  <1>2. TypeOK'
    BY <1>1, Zenon DEF Notify, TypeOK, WorkerPcs
  <1>3. \A d \in Callers : Pending(d)' <=> Pending(d)
    BY <1>1, Zenon DEF Notify, Pending, TypeOK
  <1>4. \A d \in Callers : call'[d] = "direct" <=> call[d] = "direct"
    BY <1>1, Zenon DEF Notify, TypeOK
  <1>5. worker' = worker \/ (batch = <<>> /\ {worker, worker'} \cap {"running", "complete"} = {})
    BY Zenon DEF Notify, IInv, BatchInHand
  <1>6. UNCHANGED <<answer, queue, batch, results, delegate>>
    BY Zenon DEF Notify
  <1> QED
    BY <1>2, <1>3, <1>4, <1>5, <1>6, QuietIInv, Zenon

\* A caller that returns from result.get() has had its answer.
LEMMA ReturnIInv ==
  ASSUME IInv, NEW c \in Callers, Return(c)
  PROVE  IInv'
  <1>1. TypeOK
    BY Zenon DEF IInv
  <1>2. TypeOK'
    BY <1>1, Zenon DEF Return, TypeOK
  <1>3. \A d \in Callers : Pending(d)' <=> Pending(d)
    BY <1>1, Zenon DEF Return, Pending, TypeOK
  <1>4. \A d \in Callers : call'[d] = "direct" <=> call[d] = "direct"
    BY <1>1, Zenon DEF Return, TypeOK
  <1>5. UNCHANGED <<answer, queue, batch, results, delegate>> /\ worker' = worker
    BY Zenon DEF Return
  <1> QED
    BY <1>2, <1>3, <1>4, <1>5, QuietIInv, Zenon

\* A direct call only asks for the engine here.
LEMMA CallDirectlyIInv ==
  ASSUME IInv, NEW c \in Callers, CallDirectly(c)
  PROVE  IInv'
  <1>1. TypeOK
    BY Zenon DEF IInv
  <1>2. TypeOK'
    BY <1>1, Zenon DEF CallDirectly, TypeOK
  <1>3. \A d \in Callers : Pending(d)' <=> Pending(d)
    BY <1>1, Zenon DEF CallDirectly, Pending, TypeOK
  <1>4. \A d \in Callers : call'[d] = "direct" <=> call[d] = "direct"
    BY <1>1, Zenon DEF CallDirectly, TypeOK
  <1>5. UNCHANGED <<answer, queue, batch, results, delegate>> /\ worker' = worker
    BY Zenon DEF CallDirectly
  <1> QED
    BY <1>2, <1>3, <1>4, <1>5, QuietIInv, Zenon

\* Taking and giving back delegate_mutex moves no request either.
LEMMA EngineIInv ==
  ASSUME IInv, NEW c \in Callers, LockDirectly(c) \/ ReturnDirectly(c)
  PROVE  IInv'
  <1>1. TypeOK
    BY Zenon DEF IInv
  <1>2. TypeOK'
    BY <1>1, BatchingAssumption, Zenon DEF LockDirectly, ReturnDirectly, TypeOK
  <1>3. UNCHANGED <<answer, queue, batch, results, worker>>
    BY Zenon DEF LockDirectly, ReturnDirectly
  <1>4. \A d \in Callers : Pending(d)' <=> Pending(d)
    BY <1>1, Zenon DEF LockDirectly, ReturnDirectly, Pending, TypeOK
  <1>5. OnePlace'
    BY <1>3, <1>4, Zenon DEF IInv, OnePlace, At, NoDuplicates
  <1>6. BatchInHand' /\ ResultsFit' /\ OwnAnswer' /\ BatchFits'
    BY <1>3, Zenon DEF IInv, BatchInHand, ResultsFit, OwnAnswer, BatchFits
  <1>7. OneThreadInEngine'
    BY <1>1, BatchingAssumption
    DEF IInv, OneThreadInEngine, LockDirectly, ReturnDirectly, TypeOK
  <1> QED
    BY <1>2, <1>5, <1>6, <1>7, Zenon DEF IInv

\* Before the worker takes a batch, and after it answered one, nothing is in its
\* hands.
LEMMA WorkerQuietIInv ==
  ASSUME IInv, WorkerLoops \/ WorkerChecks \/ WorkerBlocks \/ WorkerWakesUp
  PROVE  IInv'
  <1>1. TypeOK
    BY Zenon DEF IInv
  <1>2. TypeOK'
    BY <1>1, Zenon DEF WorkerLoops, WorkerChecks, WorkerBlocks, WorkerWakesUp, TypeOK, WorkerPcs
  <1>3. UNCHANGED <<call, answer, queue, batch, results, delegate>>
    BY Zenon DEF WorkerLoops, WorkerChecks, WorkerBlocks, WorkerWakesUp
  <1>4. batch = <<>> /\ {worker, worker'} \cap {"running", "complete"} = {}
    BY Zenon DEF WorkerLoops, WorkerChecks, WorkerBlocks, WorkerWakesUp, IInv, BatchInHand
  <1>5. \A d \in Callers : Pending(d)' <=> Pending(d)
    BY <1>3, Zenon DEF Pending
  <1> QED
    BY <1>2, <1>3, <1>4, <1>5, QuietIInv, Zenon

\* What is taken from the front of the queue is what comes into the batch.
LEMMA WorkerGathersIInv ==
  ASSUME IInv, WorkerGathers
  PROVE  IInv'
  <1> USE BatchingAssumption
  <1>1. TypeOK /\ batch = <<>>
    BY Zenon DEF IInv, BatchInHand, WorkerGathers
  <1>2. CASE Stopping
    <2>1. UNCHANGED <<call, answer, queue, batch, results, delegate>> /\ worker' = "top"
      BY <1>2, Zenon DEF WorkerGathers
    <2>2. TypeOK'
      BY <1>1, <2>1, Zenon DEF WorkerGathers, TypeOK, WorkerPcs
    <2>3. {worker, worker'} \cap {"running", "complete"} = {}
      BY <2>1, Zenon DEF WorkerGathers
    <2>4. \A d \in Callers : Pending(d)' <=> Pending(d)
      BY <2>1, Zenon DEF Pending
    <2> QED
      BY <1>1, <2>1, <2>2, <2>3, <2>4, QuietIInv, Zenon
  <1>3. CASE ~Stopping
    <2> DEFINE n == IF Len(queue) < MaxBatch THEN Len(queue) ELSE MaxBatch
    <2>1. n \in 0..Len(queue) /\ n <= MaxBatch /\ Len(queue) \in Nat
      BY <1>1 DEF TypeOK
    <2>2. /\ batch' = SubSeq(queue, 1, n)
          /\ queue' = SubSeq(queue, n + 1, Len(queue))
          /\ worker = "gather" /\ worker' = "execute"
          /\ UNCHANGED <<call, answer, results, delegate, stop>>
      BY <1>3, Zenon DEF WorkerGathers
    <2> HIDE DEF n
    <2>3. \A i \in 1..Len(queue) : queue[i] \in Callers
      BY <1>1 DEF TypeOK
    <2>4. /\ batch' \in Seq(Callers) /\ Len(batch') = n
          /\ \A i \in 1..n : batch'[i] = queue[i]
      BY <2>1, <2>2, <2>3, SubSeqProperties
    <2>5. /\ queue' \in Seq(Callers) /\ Len(queue') = Len(queue) - n
          /\ \A i \in 1..(Len(queue) - n) : queue'[i] = queue[n + i]
      <3>1. \A i \in (n + 1)..Len(queue) : queue[i] \in Callers
        BY <2>1, <2>3
      <3> QED
        BY <2>1, <2>2, <3>1, SubSeqProperties
    <2>6. TypeOK'
      BY <1>1, <2>2, <2>4, <2>5, Zenon DEF TypeOK, WorkerPcs
    <2>7. NoDuplicates(queue)
      BY Zenon DEF IInv, OnePlace
    <2>8. NoDuplicates(batch')
      BY <2>1, <2>4, <2>7 DEF NoDuplicates
    <2>9. NoDuplicates(queue')
      <3> SUFFICES ASSUME NEW i \in 1..(Len(queue) - n), NEW j \in 1..(Len(queue) - n),
                          queue'[i] = queue'[j]
                   PROVE  i = j
        BY <2>5, Zenon DEF NoDuplicates
      <3>1. n + i \in 1..Len(queue) /\ n + j \in 1..Len(queue)
        BY <2>1
      <3>2. queue[n + i] = queue[n + j]
        BY <2>5, Zenon
      <3>3. n + i = n + j
        BY <3>1, <3>2, <2>7, Zenon DEF NoDuplicates
      <3> QED
        BY <3>3, <2>1
    <2>10. \A c \in Callers : ~(At(c, queue') /\ At(c, batch'))
      <3> SUFFICES ASSUME NEW c \in Callers,
                          NEW i \in 1..(Len(queue) - n), queue'[i] = c,
                          NEW j \in 1..n, batch'[j] = c
                   PROVE  FALSE
        BY <2>4, <2>5, Zenon DEF At
      <3>1. n + i \in 1..Len(queue) /\ j \in 1..Len(queue) /\ n + i # j
        BY <2>1
      <3>2. queue[n + i] = c /\ queue[j] = c
        BY <2>4, <2>5, Zenon
      <3> QED
        BY <3>1, <3>2, <2>7, Zenon DEF NoDuplicates
    <2>11. \A c \in Callers : At(c, queue') \/ At(c, batch') <=> At(c, queue)
      <3> SUFFICES ASSUME NEW c \in Callers
                   PROVE  At(c, queue') \/ At(c, batch') <=> At(c, queue)
        BY Zenon
      <3>1. At(c, queue') \/ At(c, batch') => At(c, queue)
        <4>1. ASSUME NEW i \in 1..(Len(queue) - n), queue'[i] = c
              PROVE  At(c, queue)
          <5>1. n + i \in 1..Len(queue) /\ queue[n + i] = c
            BY <4>1, <2>1, <2>5
          <5> QED
            BY <5>1, Zenon DEF At
        <4>2. ASSUME NEW j \in 1..n, batch'[j] = c
              PROVE  At(c, queue)
          <5>1. j \in 1..Len(queue) /\ queue[j] = c
            BY <4>2, <2>1, <2>4
          <5> QED
            BY <5>1, Zenon DEF At
        <4> QED
          BY <4>1, <4>2, <2>4, <2>5, Zenon DEF At
      <3>2. ASSUME NEW i \in 1..Len(queue), queue[i] = c
            PROVE  At(c, queue') \/ At(c, batch')
        <4>1. CASE i <= n
          BY <4>1, <3>2, <2>1, <2>4 DEF At
        <4>2. CASE i > n
          <5>1. i - n \in 1..(Len(queue) - n) /\ n + (i - n) = i
            BY <4>2, <2>1
          <5> QED
            BY <5>1, <3>2, <2>5, Zenon DEF At
        <4> QED
          BY <4>1, <4>2, <2>1
      <3> QED
        BY <3>1, <3>2, Zenon DEF At
    <2>12. OnePlace'
      <3>1. \A c \in Callers : Pending(c)' <=> Pending(c)
        BY <2>2, Zenon DEF Pending
      <3>2. \A c \in Callers : ~At(c, batch)
        BY <1>1 DEF At
      <3>3. \A c \in Callers : Pending(c) <=> At(c, queue)
        BY <3>2, Zenon DEF IInv, OnePlace
      <3>4. NoDuplicates(queue)' /\ NoDuplicates(batch)'
        BY <2>8, <2>9, Zenon DEF NoDuplicates
      <3>5. \A c \in Callers : /\ At(c, queue)' <=> At(c, queue')
                               /\ At(c, batch)' <=> At(c, batch')
        BY Zenon DEF At
      <3> QED
        BY <3>1, <3>3, <3>4, <3>5, <2>10, <2>11, Zenon DEF OnePlace
    <2>13. BatchInHand' /\ ResultsFit' /\ OwnAnswer' /\ OneThreadInEngine'
      BY <2>2, Zenon DEF IInv, BatchInHand, ResultsFit, OwnAnswer, OneThreadInEngine
    <2>14. BatchFits'
      BY <2>1, <2>4, Zenon DEF BatchFits
    <2> QED
      BY <2>6, <2>12, <2>13, <2>14, Zenon DEF IInv
  <1> QED
    BY <1>2, <1>3, Zenon

\* The worker enters the engine when nobody else is in it.
LEMMA WorkerLocksIInv ==
  ASSUME IInv, WorkerLocks
  PROVE  IInv'
  <1> USE BatchingAssumption
  <1>1. TypeOK
    BY Zenon DEF IInv
  <1>2. TypeOK'
    BY <1>1, Zenon DEF WorkerLocks, TypeOK, WorkerPcs
  <1>3. UNCHANGED <<call, answer, queue, batch, results>> /\ worker' = "running"
    BY Zenon DEF WorkerLocks
  <1>4. OnePlace'
    BY <1>3, Zenon DEF IInv, OnePlace, At, NoDuplicates, Pending
  <1>5. BatchInHand' /\ ResultsFit' /\ OwnAnswer' /\ BatchFits'
    BY <1>3, Zenon DEF IInv, BatchInHand, ResultsFit, OwnAnswer, BatchFits
  <1>6. OneThreadInEngine'
    BY <1>1, Zenon DEF IInv, OneThreadInEngine, WorkerLocks, TypeOK
  <1> QED
    BY <1>2, <1>4, <1>5, <1>6, Zenon DEF IInv

\* Whatever the engine returns, every request gets a result that is its own row
\* or a failure, and there are as many as requests.
LEMMA WorkerRunsIInv ==
  ASSUME IInv, WorkerRuns
  PROVE  IInv'
  <1> USE BatchingAssumption
  <1>1. TypeOK
    BY Zenon DEF IInv
  <1>2. PICK r \in Outcomes :
          results' = IF Len(r) = Len(batch) THEN r ELSE [i \in 1..Len(batch) |-> Failure]
    BY Zenon DEF WorkerRuns
  <1>3. /\ worker = "running" /\ worker' = "complete" /\ delegate' = Nobody
        /\ UNCHANGED <<call, answer, queue, batch, stop>>
    BY Zenon DEF WorkerRuns
  <1>4. Len(batch) \in Nat /\ \A i \in 1..Len(batch) : batch[i] \in Callers
    BY <1>1 DEF TypeOK
  <1>5. /\ results' \in [1..Len(batch) -> Answers \ {NotSet}]
        /\ \A i \in 1..Len(batch) : results'[i] \in {Failure, RowOf(batch[i])}
    <2>1. Failure \in Answers \ {NotSet}
      BY AnswersDiffer, Zenon DEF Answers
    <2>2. CASE r = <<>>
      <3>1. CASE Len(batch) = 0
        BY <3>1, <2>2, <1>2
      <3>2. CASE Len(batch) # 0
        BY <3>2, <2>1, <2>2, <1>2, Zenon
      <3> QED
        BY <3>1, <3>2, Zenon
    <2>3. CASE /\ r \in [1..Len(batch) -> Answers \ {NotSet}]
               /\ \A i \in 1..Len(batch) : r[i] \in {RowOf(batch[i]), Failure}
      BY <2>1, <2>3, <1>2, Zenon
    <2> QED
      BY <2>2, <2>3, <1>2, Zenon DEF Outcomes
  <1>6. results' \in Seq(Answers \ {NotSet}) /\ Len(results') = Len(batch)
    BY <1>4, <1>5
  <1>7. TypeOK'
    BY <1>1, <1>3, <1>6, Zenon DEF TypeOK, WorkerPcs
  <1>8. OnePlace'
    BY <1>3 DEF IInv, OnePlace, At, NoDuplicates, Pending
  <1>9. ResultsFit'
    BY <1>3, <1>5, Zenon DEF ResultsFit
  <1>10. BatchInHand' /\ OwnAnswer' /\ BatchFits'
    BY <1>3, Zenon DEF IInv, BatchInHand, OwnAnswer, BatchFits
  <1>11. OneThreadInEngine'
    BY <1>1, <1>3, Zenon DEF IInv, OneThreadInEngine, TypeOK
  <1> QED
    BY <1>7, <1>8, <1>9, <1>10, <1>11, Zenon DEF IInv

\* The answer of the first request of the batch takes it out of the batch, and
\* the results stay beside their requests.
LEMMA WorkerCompletesIInv ==
  ASSUME IInv, WorkerCompletes
  PROVE  IInv'
  <1> USE BatchingAssumption
  <1>1. TypeOK /\ worker = "complete" /\ Len(results) = Len(batch)
    BY Zenon DEF IInv, TypeOK, WorkerCompletes
  <1>2. CASE batch = <<>>
    <2>1. UNCHANGED <<call, answer, queue, batch, results, delegate, stop>> /\ worker' = "top"
      BY <1>2, Zenon DEF WorkerCompletes
    <2>2. TypeOK'
      BY <1>1, <2>1, Zenon DEF TypeOK, WorkerPcs
    <2>3. OnePlace'
      BY <2>1 DEF IInv, OnePlace, At, NoDuplicates, Pending
    <2>4. BatchInHand' /\ ResultsFit' /\ OwnAnswer' /\ BatchFits'
      BY <1>2, <2>1, Zenon DEF IInv, BatchInHand, ResultsFit, OwnAnswer, BatchFits
    <2>5. OneThreadInEngine'
      BY <1>1, <2>1, Zenon DEF IInv, OneThreadInEngine
    <2> QED
      BY <2>2, <2>3, <2>4, <2>5, Zenon DEF IInv
  <1>3. CASE batch # <<>>
    <2> DEFINE c == batch[1]
    <2>1. /\ batch \in Seq(Callers) /\ Len(batch) \in Nat \ {0}
          /\ results \in Seq(Answers \ {NotSet}) /\ results # <<>>
          /\ c \in Callers
      BY <1>1, <1>3 DEF TypeOK
    <2>2. /\ answer' = [answer EXCEPT ![c] = results[1]]
          /\ batch' = Tail(batch) /\ results' = Tail(results)
          /\ UNCHANGED <<call, queue, worker, delegate, stop>>
      BY <1>3 DEF WorkerCompletes
    <2>3. /\ batch' \in Seq(Callers) /\ Len(batch') = Len(batch) - 1
          /\ \A i \in 1..(Len(batch) - 1) : batch'[i] = batch[i + 1]
      BY <1>3, <2>1, <2>2, HeadTailProperties, Zenon
    <2>4. /\ results' \in Seq(Answers \ {NotSet}) /\ Len(results') = Len(batch) - 1
          /\ \A i \in 1..(Len(batch) - 1) : results'[i] = results[i + 1]
      BY <1>1, <2>1, <2>2, HeadTailProperties
    <2>5. results[1] \in {Failure, RowOf(c)} /\ results[1] # NotSet
      BY <1>1, <2>1, AnswersDiffer DEF IInv, ResultsFit
    <2>6. results[1] \in Answers
      BY <2>1, <2>5, Zenon DEF Answers
    <2> HIDE DEF c
    <2>7. TypeOK'
      BY <1>1, <2>2, <2>3, <2>4, <2>6, Zenon DEF TypeOK
    <2>8. NoDuplicates(batch) /\ NoDuplicates(queue)
      BY Zenon DEF IInv, OnePlace
    <2>9. NoDuplicates(batch')
      <3> SUFFICES ASSUME NEW i \in 1..(Len(batch) - 1), NEW j \in 1..(Len(batch) - 1),
                          batch'[i] = batch'[j]
                   PROVE  i = j
        BY <2>3, Zenon DEF NoDuplicates
      <3>1. i + 1 \in 1..Len(batch) /\ j + 1 \in 1..Len(batch)
        BY <2>1
      <3>2. i + 1 = j + 1
        BY <2>3, <2>8, <3>1, Zenon DEF NoDuplicates
      <3> QED
        BY <3>2
    <2>10. \A d \in Callers : At(d, batch') <=> At(d, batch) /\ d # c
      <3> SUFFICES ASSUME NEW d \in Callers
                   PROVE  At(d, batch') <=> At(d, batch) /\ d # c
        BY Zenon
      <3>1. At(d, batch') => At(d, batch) /\ d # c
        <4> SUFFICES ASSUME NEW i \in 1..(Len(batch) - 1), batch[i + 1] = d
                     PROVE  At(d, batch) /\ d # c
          BY <2>1, <2>3, Zenon DEF At
        <4>1. i + 1 \in 1..Len(batch) /\ 1 \in 1..Len(batch) /\ i + 1 # 1
          BY <2>1
        <4> QED
          BY <4>1, <2>8, Zenon DEF At, NoDuplicates, c
      <3>2. ASSUME NEW i \in 1..Len(batch), batch[i] = d, d # c
            PROVE  At(d, batch')
        <4>1. i - 1 \in 1..(Len(batch) - 1) /\ (i - 1) + 1 = i
          BY <3>2, <2>1 DEF c
        <4> QED
          BY <4>1, <3>2, <2>1, <2>3, Zenon DEF At
      <3> QED
        BY <3>1, <3>2, Zenon DEF At
    <2>11. \A d \in Callers : Pending(d)' <=> Pending(d) /\ d # c
      BY <1>1, <2>1, <2>2, <2>5, Zenon DEF Pending, TypeOK
    <2>12. OnePlace'
      <3>1. ~At(c, queue)
        <4>1. At(c, batch)
          BY <2>1 DEF At, c
        <4> QED
          BY <4>1, <2>1, Zenon DEF IInv, OnePlace
      <3>2. NoDuplicates(queue)' /\ NoDuplicates(batch)'
        BY <2>2, <2>8, <2>9, Zenon DEF NoDuplicates
      <3>3. \A d \in Callers : /\ At(d, queue)' <=> At(d, queue)
                               /\ At(d, batch)' <=> At(d, batch) /\ d # c
        BY <2>2, <2>10, Zenon DEF At
      <3> QED
        BY <3>1, <3>2, <3>3, <2>11, Zenon DEF IInv, OnePlace
    <2>13. ResultsFit'
      <3> SUFFICES ASSUME NEW i \in 1..(Len(batch) - 1)
                   PROVE  results'[i] \in {Failure, RowOf(batch'[i])}
        BY <2>3, Zenon DEF ResultsFit
      <3>1. i + 1 \in 1..Len(batch)
        BY <2>1
      <3>2. results[i + 1] \in {Failure, RowOf(batch[i + 1])}
        BY <1>1, <3>1, Zenon DEF IInv, ResultsFit
      <3> QED
        BY <3>2, <2>3, <2>4, Zenon
    <2>14. OwnAnswer'
      BY <1>1, <2>1, <2>2, <2>5, Zenon DEF IInv, OwnAnswer, TypeOK
    <2>15. BatchInHand' /\ OneThreadInEngine'
      BY <1>1, <2>2, Zenon DEF IInv, BatchInHand, OneThreadInEngine
    <2>16. BatchFits'
      BY <2>1, <2>3 DEF IInv, BatchFits
    <2> QED
      BY <2>7, <2>12, <2>13, <2>14, <2>15, <2>16, Zenon DEF IInv
  <1> QED
    BY <1>2, <1>3, Zenon

\* fail_pending answers all the requests that were in the queue and no other.
LEMMA WorkerFailsPendingIInv ==
  ASSUME IInv, WorkerFailsPending
  PROVE  IInv'
  <1>1. TypeOK /\ batch = <<>>
    BY Zenon DEF IInv, BatchInHand, WorkerFailsPending
  <1>2. /\ answer' = [c \in Callers |-> IF At(c, queue) THEN Failure ELSE answer[c]]
        /\ queue' = <<>> /\ worker = "failing" /\ worker' = "exited"
        /\ UNCHANGED <<call, batch, results, delegate, stop>>
    BY Zenon DEF WorkerFailsPending, At
  <1>3. TypeOK'
    BY <1>1, <1>2, Zenon DEF TypeOK, WorkerPcs, Answers
  <1>4. OnePlace'
    <2>1. \A c \in Callers : ~At(c, batch)
      BY <1>1 DEF At
    <2>2. \A c \in Callers : Pending(c) <=> At(c, queue)
      BY <2>1, Zenon DEF IInv, OnePlace
    <2>3. \A c \in Callers : ~Pending(c)'
      BY <1>2, <2>2, AnswersDiffer, Zenon DEF Pending
    <2>4. \A c \in Callers : ~At(c, queue)' /\ ~At(c, batch)'
      BY <1>1, <1>2 DEF At
    <2>5. NoDuplicates(queue)' /\ NoDuplicates(batch)'
      BY <1>1, <1>2 DEF NoDuplicates
    <2> QED
      BY <2>3, <2>4, <2>5, Zenon DEF OnePlace
  <1>5. OwnAnswer'
    BY <1>2, Zenon DEF IInv, OwnAnswer
  <1>6. BatchInHand' /\ ResultsFit' /\ BatchFits' /\ OneThreadInEngine'
    BY <1>1, <1>2, Zenon DEF IInv, BatchInHand, ResultsFit, BatchFits, OneThreadInEngine
  <1> QED
    BY <1>3, <1>4, <1>5, <1>6, Zenon DEF IInv

\* The destructor touches no request.
LEMMA DestructorIInv ==
  ASSUME IInv, Destructor
  PROVE  IInv'
  <1>1. TypeOK
    BY Zenon DEF IInv
  <1>2. TypeOK'
    BY <1>1, Zenon DEF Destructor, RequestStop, NotifyAll, Join, TypeOK, WorkerPcs
  <1>3. UNCHANGED <<call, answer, queue, batch, results, delegate>>
    BY Zenon DEF Destructor, RequestStop, NotifyAll, Join
  <1>4. worker' = worker \/ (batch = <<>> /\ {worker, worker'} \cap {"running", "complete"} = {})
    BY Zenon DEF Destructor, RequestStop, NotifyAll, Join, IInv, BatchInHand
  <1>5. \A d \in Callers : Pending(d)' <=> Pending(d)
    BY <1>3, Zenon DEF Pending
  <1> QED
    BY <1>2, <1>3, <1>4, <1>5, QuietIInv, Zenon

\* Every step keeps the inductive invariant.
LEMMA StepIInv == IInv /\ [Next]_vars => IInv'
  <1> SUFFICES ASSUME IInv, [Next]_vars PROVE IInv'
    BY Zenon
  <1>1. ASSUME NEW c \in Callers, CallerStep(c) PROVE IInv'
    BY <1>1, PushIInv, NotifyIInv, ReturnIInv, CallDirectlyIInv, EngineIInv, Zenon DEF CallerStep
  <1>2. CASE WorkerStep
    BY <1>2, WorkerQuietIInv, WorkerGathersIInv, WorkerLocksIInv, WorkerRunsIInv,
       WorkerCompletesIInv, WorkerFailsPendingIInv, Zenon DEF WorkerStep
  <1>3. CASE WorkerWakesUp
    BY <1>3, WorkerQuietIInv, Zenon
  <1>4. CASE Destructor
    BY <1>4, DestructorIInv, Zenon
  <1>5. CASE UNCHANGED vars
    <2>1. TypeOK'
      BY <1>5, Zenon DEF IInv, TypeOK, vars
    <2>2. \A d \in Callers : Pending(d)' <=> Pending(d)
      BY <1>5, Zenon DEF Pending, vars
    <2> QED
      BY <1>5, <2>1, <2>2, QuietIInv, Zenon DEF vars
  <1> QED
    BY <1>1, <1>2, <1>3, <1>4, <1>5, Zenon DEF Next

\* The inductive invariant holds in every reachable state.
LEMMA Invariance == Spec => []IInv
  BY InitIInv, StepIInv, PTL DEF Spec

-------------------------------------------------------------------------------
\* One position for a pending request and none for any other make the counts of
\* EachRequestOnce.
LEMMA OnePlaceCounts == IInv => EachRequestOnce
  <1> SUFFICES ASSUME IInv, NEW c \in Callers
               PROVE  Cardinality({i \in 1..Len(InOrder) : InOrder[i] = c}) =
                        IF Pending(c) THEN 1 ELSE 0
    BY Zenon DEF EachRequestOnce, Pending
  <1> DEFINE P == {i \in 1..Len(InOrder) : InOrder[i] = c}
  <1>1. queue \in Seq(Callers) /\ batch \in Seq(Callers) /\ Len(queue) \in Nat /\ Len(batch) \in Nat
    BY DEF IInv, TypeOK
  <1>2. /\ Len(InOrder) = Len(queue) + Len(batch)
        /\ \A i \in 1..(Len(queue) + Len(batch)) :
              InOrder[i] = IF i <= Len(queue) THEN queue[i] ELSE batch[i - Len(queue)]
    BY <1>1, ConcatProperties, Zenon DEF InOrder
  <1>3. \A i \in P : (i <= Len(queue) /\ At(c, queue)) \/ (i > Len(queue) /\ At(c, batch))
    <2> SUFFICES ASSUME NEW i \in P
                 PROVE  (i <= Len(queue) /\ At(c, queue)) \/ (i > Len(queue) /\ At(c, batch))
      BY Zenon
    <2>1. i \in 1..(Len(queue) + Len(batch)) /\ InOrder[i] = c
      BY <1>2, Zenon
    <2>2. CASE i <= Len(queue)
      BY <1>1, <1>2, <2>1, <2>2 DEF At
    <2>3. CASE i > Len(queue)
      <3>1. i - Len(queue) \in 1..Len(batch) /\ batch[i - Len(queue)] = c
        BY <1>1, <1>2, <2>1, <2>3
      <3> QED
        BY <2>3, <3>1, Zenon DEF At
    <2> QED
      BY <1>1, <2>1, <2>2, <2>3
  <1>4. CASE ~Pending(c)
    <2>1. P = {}
      BY <1>3, <1>4, Zenon DEF IInv, OnePlace
    <2> QED
      BY <1>4, <2>1, FS_EmptySet, Zenon
  <1>5. CASE Pending(c)
    <2>1. \A i, j \in P : i = j
      <3> SUFFICES ASSUME NEW i \in P, NEW j \in P
                   PROVE  i = j
        BY Zenon
      <3>1. i \in 1..(Len(queue) + Len(batch)) /\ j \in 1..(Len(queue) + Len(batch))
            /\ InOrder[i] = c /\ InOrder[j] = c
        BY <1>2, Zenon
      <3>2. NoDuplicates(queue) /\ NoDuplicates(batch) /\ ~(At(c, queue) /\ At(c, batch))
        BY Zenon DEF IInv, OnePlace
      <3>3. CASE i <= Len(queue) /\ j <= Len(queue)
        <4>1. i \in 1..Len(queue) /\ j \in 1..Len(queue) /\ queue[i] = queue[j]
          BY <1>1, <1>2, <3>1, <3>3
        <4> QED
          BY <4>1, <3>2, Zenon DEF NoDuplicates
      <3>4. CASE i > Len(queue) /\ j > Len(queue)
        <4>1. /\ i - Len(queue) \in 1..Len(batch) /\ j - Len(queue) \in 1..Len(batch)
              /\ batch[i - Len(queue)] = batch[j - Len(queue)]
          BY <1>1, <1>2, <3>1, <3>4
        <4>2. i - Len(queue) = j - Len(queue)
          BY <4>1, <3>2, Zenon DEF NoDuplicates
        <4> QED
          BY <4>2, <1>1, <3>1
      <3> QED
        BY <1>1, <1>3, <3>1, <3>2, <3>3, <3>4, Zenon
    <2>2. PICK i : i \in P
      <3>1. CASE At(c, queue)
        <4>1. PICK k \in 1..Len(queue) : queue[k] = c
          BY <3>1, Zenon DEF At
        <4>2. k \in 1..(Len(queue) + Len(batch)) /\ k <= Len(queue)
          BY <1>1
        <4> QED
          BY <1>2, <4>1, <4>2, Zenon
      <3>2. CASE At(c, batch)
        <4>1. PICK k \in 1..Len(batch) : batch[k] = c
          BY <3>2, Zenon DEF At
        <4>2. /\ k + Len(queue) \in 1..(Len(queue) + Len(batch))
              /\ ~(k + Len(queue) <= Len(queue)) /\ (k + Len(queue)) - Len(queue) = k
          BY <1>1
        <4>3. InOrder[k + Len(queue)] = c
          BY <1>2, <4>1, <4>2, Zenon
        <4> QED
          BY <1>2, <4>2, <4>3, Zenon
      <3> QED
        BY <1>5, <3>1, <3>2, Zenon DEF IInv, OnePlace
    <2>3. P = {i}
      BY <2>1, <2>2, Zenon
    <2> QED
      BY <1>5, <2>3, FS_Singleton, Zenon
  <1> QED
    BY <1>4, <1>5, Zenon

\* Type correctness of the executor for any number of callers and any batch size.
THEOREM TypeCorrect == Spec => []TypeOK
  BY Invariance, PTL DEF IInv

\* A queued decode step is executed and answered once, however pushes, batches,
\* direct calls, failures and the stop interleave.
THEOREM RequestsCorrect == Spec => []EachRequestOnce
  BY Invariance, OnePlaceCounts, PTL

\* A caller gets its own row or an error, whatever else is in the batch and
\* whatever the engine returns.
THEOREM AnswersCorrect == Spec => []OwnAnswer
  BY Invariance, PTL DEF IInv

\* The engine is handed at most max_batch_size rows.
THEOREM BatchesFit == Spec => []BatchFits
  BY Invariance, PTL DEF IInv

\* One thread at a time is in the engine.
THEOREM EngineIsSerial == Spec => []OneThreadInEngine
  BY Invariance, PTL DEF IInv
===============================================================================
