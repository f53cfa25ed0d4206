-------------------------- MODULE ContinuousBatching --------------------------
(***************************************************************************)
(* ContinuousBatchingExecutor (runtime/pipeline_parallel): decode steps of *)
(* concurrent stage calls are queued and one worker thread executes them   *)
(* in batches; prefill, close and rollback use the engine directly.  Both  *)
(* take delegate_mutex, the engine being single-threaded.                  *)
(*                                                                         *)
(* The worker waits on a condition variable.  A push changes the queue     *)
(* under the mutex and notifies afterwards; the destructor requests the    *)
(* stop and notifies without ever taking the mutex.  So the moment between *)
(* the evaluation of the wait's predicate and the wait itself, during      *)
(* which the worker holds the mutex, is a state of its own ("checked").    *)
(*                                                                         *)
(* A caller is a thread with at most one call in progress and stands for   *)
(* its own request.  The destructor runs when the last stage call has      *)
(* returned: a call shares ownership of the executor (StageKeepsItsResident *)
(* of ModelManager).                                                       *)
(***************************************************************************)
EXTENDS Naturals, Sequences, FiniteSets

CONSTANTS
    Callers,     \* threads that make stage calls
    MaxBatch,    \* max_batch_size
    Worker,      \* the batching thread, as holder of delegate_mutex
    Nobody       \* delegate_mutex is free

ASSUME BatchingAssumption ==
    /\ IsFiniteSet(Callers)
    /\ MaxBatch \in Nat /\ MaxBatch >= 2
    /\ Worker \notin Callers
    /\ Nobody \notin Callers \cup {Worker}

VARIABLES
    call,      \* what each caller is doing
    answer,    \* the promise of each caller's request
    queue,     \* queue: requests not yet taken
    worker,    \* where the batching thread is
    batch,     \* the requests it took and has not answered
    results,   \* their results
    delegate,  \* holder of delegate_mutex
    stop       \* "no", then the steps of the destructor

vars == <<call, answer, queue, worker, batch, results, delegate, stop>>

NotSet  == <<"not set">>
Failure == <<"failure">>

\* What the engine returns for the request of c.
RowOf(c) == <<"row", c>>

Answers == {NotSet, Failure} \cup {RowOf(c) : c \in Callers}

WorkerPcs == {"top", "predicate", "checked", "blocked", "gather", "execute",
              "running", "complete", "failing", "exited"}

TypeOK ==
    /\ call \in [Callers -> {"idle", "pushed", "waiting", "wants", "direct"}]
    /\ answer \in [Callers -> Answers]
    /\ queue \in Seq(Callers)
    /\ worker \in WorkerPcs
    /\ batch \in Seq(Callers)
    /\ results \in Seq(Answers \ {NotSet})
    /\ worker = "complete" => Len(results) = Len(batch)
    /\ delegate \in Callers \cup {Worker, Nobody}
    /\ stop \in {"no", "requested", "notified", "joined"}

Stopping == stop # "no"

Init ==
    /\ call = [c \in Callers |-> "idle"]
    /\ answer = [c \in Callers |-> NotSet]
    /\ queue = <<>>
    /\ worker = "top"
    /\ batch = <<>>
    /\ results = <<>>
    /\ delegate = Nobody
    /\ stop = "no"

------------------------------------------------------------------------------
(* The callers.                                                            *)

\* execute of a decode step, up to the release of the mutex.
Push(c) ==
    /\ call[c] = "idle" /\ ~Stopping
    /\ worker # "checked"
    /\ call' = [call EXCEPT ![c] = "pushed"]
    /\ answer' = [answer EXCEPT ![c] = NotSet]
    /\ queue' = Append(queue, c)
    /\ UNCHANGED <<worker, batch, results, delegate, stop>>

\* Mutant of Notify: the worker is not woken.
NotifyForgotten(c) ==
    /\ call[c] = "pushed"
    /\ call' = [call EXCEPT ![c] = "waiting"]
    /\ UNCHANGED <<answer, queue, worker, batch, results, delegate, stop>>

\* notify_one: the worker, if it is blocked, evaluates its predicate again.
Notify(c) ==
    /\ call[c] = "pushed"
    /\ call' = [call EXCEPT ![c] = "waiting"]
    /\ worker' = IF worker = "blocked" THEN "predicate" ELSE worker
    /\ UNCHANGED <<answer, queue, batch, results, delegate, stop>>

\* result.get() returns.
Return(c) ==
    /\ call[c] = "waiting"
    /\ answer[c] # NotSet
    /\ call' = [call EXCEPT ![c] = "idle"]
    /\ UNCHANGED <<answer, queue, worker, batch, results, delegate, stop>>

\* A prefill, execute_batch, close_session or rollback_session.
CallDirectly(c) ==
    /\ call[c] = "idle" /\ ~Stopping
    /\ call' = [call EXCEPT ![c] = "wants"]
    /\ UNCHANGED <<answer, queue, worker, batch, results, delegate, stop>>

LockDirectly(c) ==
    /\ call[c] = "wants"
    /\ delegate = Nobody
    /\ delegate' = c
    /\ call' = [call EXCEPT ![c] = "direct"]
    /\ UNCHANGED <<answer, queue, worker, batch, results, stop>>

ReturnDirectly(c) ==
    /\ call[c] = "direct"
    /\ delegate' = Nobody
    /\ call' = [call EXCEPT ![c] = "idle"]
    /\ UNCHANGED <<answer, queue, worker, batch, results, stop>>

------------------------------------------------------------------------------
(* The batching thread.                                                    *)

\* The loop condition of run.
WorkerLoops ==
    /\ worker = "top"
    /\ worker' = IF Stopping THEN "failing" ELSE "predicate"
    /\ UNCHANGED <<call, answer, queue, batch, results, delegate, stop>>

\* The predicate of the first wait of next_batch, under the mutex.
WorkerChecks ==
    /\ worker = "predicate"
    /\ worker' = IF Stopping THEN "top"
                 ELSE IF queue # <<>> THEN "gather" ELSE "checked"
    /\ UNCHANGED <<call, answer, queue, batch, results, delegate, stop>>

\* The wait releases the mutex and blocks.
WorkerBlocks ==
    /\ worker = "checked"
    /\ worker' = "blocked"
    /\ UNCHANGED <<call, answer, queue, batch, results, delegate, stop>>

\* A condition variable may wake without a notification.
WorkerWakesUp ==
    /\ worker = "blocked"
    /\ worker' = "predicate"
    /\ UNCHANGED <<call, answer, queue, batch, results, delegate, stop>>

\* Mutant of WorkerGathers: requests are copied, not taken, from the queue.
WorkerCopies ==
    /\ worker = "gather"
    /\ LET count == IF Len(queue) < MaxBatch THEN Len(queue) ELSE MaxBatch
       IN  batch' = SubSeq(queue, 1, count)
    /\ worker' = "execute"
    /\ UNCHANGED <<call, answer, queue, results, delegate, stop>>

\* The end of wait_until, by its deadline or because the batch is full, and the
\* rest of next_batch.
WorkerGathers ==
    /\ worker = "gather"
    /\ IF Stopping
       THEN worker' = "top" /\ UNCHANGED <<queue, batch>>
       ELSE LET count == IF Len(queue) < MaxBatch THEN Len(queue) ELSE MaxBatch
            IN  /\ batch' = SubSeq(queue, 1, count)
                /\ queue' = SubSeq(queue, count + 1, Len(queue))
                /\ worker' = "execute"
    /\ UNCHANGED <<call, answer, results, delegate, stop>>

WorkerLocks ==
    /\ worker = "execute"
    /\ delegate = Nobody
    /\ delegate' = Worker
    /\ worker' = "running"
    /\ UNCHANGED <<call, answer, queue, batch, results, stop>>

\* What execute_batch of the engine may return: a row or an error per input, or
\* too few results.  An exception is like an error for every input.
Outcomes ==
    {r \in [1..Len(batch) -> Answers \ {NotSet}] :
        \A i \in 1..Len(batch) : r[i] \in {RowOf(batch[i]), Failure}} \cup {<<>>}

WorkerRuns ==
    /\ worker = "running"
    /\ \E r \in Outcomes :
          results' = IF Len(r) = Len(batch) THEN r
                     ELSE [i \in 1..Len(batch) |-> Failure]
    /\ delegate' = Nobody
    /\ worker' = "complete"
    /\ UNCHANGED <<call, answer, queue, batch, stop>>

\* Mutant of WorkerCompletes: results are handed out in the wrong order.
WorkerSwapsResults ==
    /\ worker = "complete"
    /\ IF batch = <<>>
       THEN worker' = "top" /\ UNCHANGED <<answer, batch, results>>
       ELSE /\ answer' = [answer EXCEPT ![Head(batch)] = results[Len(results)]]
            /\ batch' = Tail(batch)
            /\ results' = SubSeq(results, 1, Len(results) - 1)
            /\ UNCHANGED worker
    /\ UNCHANGED <<call, queue, delegate, stop>>

\* One iteration of the loop over the batch, or its end.
WorkerCompletes ==
    /\ worker = "complete"
    /\ IF batch = <<>>
       THEN worker' = "top" /\ UNCHANGED <<answer, batch, results>>
       ELSE /\ answer' = [answer EXCEPT ![Head(batch)] = Head(results)]
            /\ batch' = Tail(batch)
            /\ results' = Tail(results)
            /\ UNCHANGED worker
    /\ UNCHANGED <<call, queue, delegate, stop>>

\* fail_pending, and the end of the thread.
WorkerFailsPending ==
    /\ worker = "failing"
    /\ answer' = [c \in Callers |->
                    IF \E i \in 1..Len(queue) : queue[i] = c THEN Failure ELSE answer[c]]
    /\ queue' = <<>>
    /\ worker' = "exited"
    /\ UNCHANGED <<call, batch, results, delegate, stop>>

------------------------------------------------------------------------------
(* The destructor.                                                         *)

RequestStop ==
    /\ ~Stopping
    /\ \A c \in Callers : call[c] = "idle"
    /\ stop' = "requested"
    /\ UNCHANGED <<call, answer, queue, worker, batch, results, delegate>>

NotifyAll ==
    /\ stop = "requested"
    /\ stop' = "notified"
    /\ worker' = IF worker = "blocked" THEN "predicate" ELSE worker
    /\ UNCHANGED <<call, answer, queue, batch, results, delegate>>

Join ==
    /\ stop = "notified"
    /\ worker = "exited"
    /\ stop' = "joined"
    /\ UNCHANGED <<call, answer, queue, worker, batch, results, delegate>>

------------------------------------------------------------------------------
CallerStep(c) ==
    \/ Push(c) \/ Notify(c) \/ Return(c)
    \/ CallDirectly(c) \/ LockDirectly(c) \/ ReturnDirectly(c)

WorkerStep ==
    \/ WorkerLoops \/ WorkerChecks \/ WorkerBlocks \/ WorkerGathers
    \/ WorkerLocks \/ WorkerRuns \/ WorkerCompletes \/ WorkerFailsPending

Destructor == RequestStop \/ NotifyAll \/ Join

Next ==
    \/ \E c \in Callers : CallerStep(c)
    \/ WorkerStep
    \/ WorkerWakesUp
    \/ Destructor

Spec == Init /\ [][Next]_vars

\* Threads that can run do run, calls into the engine return, and a thread that
\* wants delegate_mutex is not passed over for ever.  Neither new calls nor
\* spurious wakeups nor the destruction are assumed.
FairSpec ==
    /\ Spec
    /\ WF_vars(WorkerStep)
    /\ SF_vars(WorkerLocks)
    /\ \A c \in Callers :
          /\ WF_vars(Notify(c))
          /\ WF_vars(Return(c))
          /\ SF_vars(LockDirectly(c))
          /\ WF_vars(ReturnDirectly(c))
    /\ WF_vars(NotifyAll)
    /\ WF_vars(Join)

------------------------------------------------------------------------------
InOrder == queue \o batch

\* Every request in progress is in exactly one place: in the queue once, or in
\* the batch once, or answered.  So no promise is set twice, which would end the
\* process, and none is dropped, which would block its caller for ever.
EachRequestOnce ==
    \A c \in Callers :
        Cardinality({i \in 1..Len(InOrder) : InOrder[i] = c}) =
            IF call[c] \in {"pushed", "waiting"} /\ answer[c] = NotSet THEN 1 ELSE 0

\* A caller gets the row of its own session or an error, never another one's
\* row, whatever else is in the batch.
OwnAnswer ==
    \A c \in Callers : answer[c] \in {NotSet, Failure, RowOf(c)}

\* The engine is never handed more rows than it is configured for.
BatchFits == Len(batch) <= MaxBatch

\* Every call returns, through any mix of batches, direct calls and failures.
EveryCallReturns ==
    \A c \in Callers : call[c] # "idle" ~> call[c] = "idle"

\* An executor that is destroyed goes away: the destructor's join returns.
DestructionEnds == stop = "requested" ~> stop = "joined"
==============================================================================
