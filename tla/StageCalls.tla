------------------------------ MODULE StageCalls ------------------------------
(***************************************************************************)
(* Stage calls between two runtime workers: the connections that           *)
(* transport/http_stage_transport.cpp keeps open to the peer, and the      *)
(* worker pool of api/http_server.cpp that answers them.  A worker thread  *)
(* that serves a generation calls the peer over a connection of its own,   *)
(* and the peer serves that connection with one of its worker threads,     *)
(* which stays with it until it is closed or idle too long.                *)
(*                                                                         *)
(* Time passes in ticks.  A message reaches a waiting reader within Delay  *)
(* ticks; the 120 s receive timeout may expire at any moment of a call.    *)
(***************************************************************************)
EXTENDS Integers, Sequences, FiniteSets

CONSTANTS
    Nodes,          \* the two workers
    Workers,        \* http_workers of each node
    QueueCapacity,  \* clients that may wait for a worker thread
    Calls,          \* stage calls of a generation, its close included
    MaxGenerations, \* bound on the generations that reach each node
    Stoppable,      \* nodes that may be asked to stop
    Lease,          \* kConnectionLease
    Idle,           \* kStageKeepAliveIdleSeconds
    Delay           \* longest transit of a message

ASSUME CallsAssumption ==
    /\ Cardinality(Nodes) = 2 /\ Stoppable \subseteq Nodes
    /\ Workers \in [Nodes -> Nat \ {0}]
    /\ {QueueCapacity, Calls, MaxGenerations, Lease, Idle, Delay} \subseteq Nat \ {0}
    /\ Lease + 2 * Delay <= Idle

VARIABLES
    phase,       \* per node: "running", "interrupted", "stopping", "exited"
    queue,       \* per node: accepted clients that wait for a thread
    job,         \* per thread: what it is doing
    link,        \* per thread: its connection to the peer
    made,        \* per thread: calls made so far
    generations  \* per node: generations that reached it

vars == <<phase, queue, job, link, made, generations>>

Threads == UNION {{n} \X (1..Workers[n]) : n \in Nodes}
Node(t) == t[1]
Peer(n) == CHOOSE p \in Nodes : p # n
ThreadsOf(n) == {t \in Threads : Node(t) = n}

\* Jobs.  "kept" tells a connection that has been answered before.
Free == [kind |-> "free"]
Dead == [kind |-> "dead"]
Gone == [kind |-> "gone"]
Generating(left) == [kind |-> "gen", left |-> left]
Calling(left) == [kind |-> "call", left |-> left]
Reading(t, kept) == [kind |-> "read", from |-> t, kept |-> kept]
Executing(t, no) == [kind |-> "exec", from |-> t, no |-> no]

\* Queue entries: a generation, the connection of a peer's thread, or one whose
\* client has gone.
GenerationClient == [kind |-> "gen"]
DeadClient == [kind |-> "dead"]
StageClient(t) == [kind |-> "stage", from |-> t]

Unconnected == [client |-> "closed", server |-> "none", req |-> 0, reqAge |-> 0,
                reply |-> 0, replyAge |-> 0, used |-> 0, idle |-> 0]
Sent(no) == [Unconnected EXCEPT !.client = "open", !.server = "queued", !.req = no]

Serves(w, t) == job[w].kind \in {"read", "exec"} /\ job[w].from = t

\* The values of the variables.
Phases == {"running", "interrupted", "stopping", "exited"}
Jobs ==
    {Free, Dead, Gone}
    \cup [kind : {"gen"}, left : 0..Calls]
    \cup [kind : {"call"}, left : 1..Calls]
    \cup [kind : {"read"}, from : Threads, kept : BOOLEAN]
    \cup [kind : {"exec"}, from : Threads, no : Nat]
Clients == {GenerationClient, DeadClient} \cup [kind : {"stage"}, from : Threads]
Links ==
    [client : {"closed", "open", "shut"},
     server : {"none", "queued", "held", "busy", "closing", "closed", "expired"},
     req : Nat, reqAge : 0..Delay, reply : Nat, replyAge : 0..Delay,
     used : 0..Lease, idle : 0..Idle]

\* The queue of a worker never holds more clients than its capacity.
TypeOK ==
    /\ phase \in [Nodes -> Phases]
    /\ queue \in [Nodes -> Seq(Clients)]
    /\ \A n \in Nodes : Len(queue[n]) <= QueueCapacity
    /\ job \in [Threads -> Jobs]
    /\ link \in [Threads -> Links]
    /\ made \in [Threads -> Nat]
    /\ generations \in [Nodes -> 0..MaxGenerations]

Init ==
    /\ phase = [n \in Nodes |-> "running"]
    /\ queue = [n \in Nodes |-> <<>>]
    /\ job = [t \in Threads |-> Free]
    /\ link = [t \in Threads |-> Unconnected]
    /\ made = [t \in Threads |-> 0]
    /\ generations = [n \in Nodes |-> 0]

-------------------------------------------------------------------------------
\* What the peer sees of the connections of the threads in ts when they close:
\* a client that waits in its queue, or that a thread serves, is gone.

QueueWithout(ts) ==
    [n \in Nodes |-> [i \in 1..Len(queue[n]) |->
        IF queue[n][i].kind = "stage" /\ queue[n][i].from \in ts
        THEN DeadClient ELSE queue[n][i]]]

JobsWithout(ts) ==
    [w \in Threads |-> IF \E t \in ts : Serves(w, t) THEN Dead ELSE job[w]]

\* A call that failed makes the generation close its sessions, which is its last
\* call; the last one may fail.
AfterFailure(left) == Generating(IF left > 1 THEN 1 ELSE 0)

reset(t) ==
    /\ link' = [link EXCEPT ![t] = Unconnected]
    /\ queue' = QueueWithout({t})

FailCall(t) ==
    /\ reset(t)
    /\ job' = [JobsWithout({t}) EXCEPT ![t] = AfterFailure(job[t].left)]

-------------------------------------------------------------------------------
\* The server: accepting clients and the loop of a worker thread.

\* A generation request is accepted, or refused because the queue is full.
AcceptGeneration(n) ==
    /\ phase[n] = "running" /\ generations[n] < MaxGenerations
    /\ generations' = [generations EXCEPT ![n] = @ + 1]
    /\ queue' = IF Len(queue[n]) < QueueCapacity
                THEN [queue EXCEPT ![n] = Append(@, GenerationClient)] ELSE queue
    /\ UNCHANGED <<phase, job, link, made>>

TakeClient(w) ==
    LET n == Node(w)
        client == Head(queue[n])
    IN  /\ job[w] = Free /\ queue[n] # <<>>
        /\ queue' = [queue EXCEPT ![n] = Tail(@)]
        /\ \/ /\ client.kind = "gen"
              /\ job' = [job EXCEPT ![w] = Generating(Calls)]
              /\ UNCHANGED link
           \/ /\ client.kind = "stage"
              /\ job' = [job EXCEPT ![w] = Reading(client.from, FALSE)]
              /\ link' = [link EXCEPT ![client.from] = [@ EXCEPT !.server = "held"]]
           \/ /\ client.kind = "dead"
              /\ job' = [job EXCEPT ![w] = Dead]
              /\ UNCHANGED link
        /\ UNCHANGED <<phase, made, generations>>

ReadRequest(w) ==
    LET t == job[w].from
    IN  /\ job[w].kind = "read" /\ link[t].req # 0
        /\ job' = [job EXCEPT ![w] = Executing(t, link[t].req)]
        /\ link' = [link EXCEPT ![t] =
               [@ EXCEPT !.req = 0, !.reqAge = 0, !.server = "busy"]]
        /\ UNCHANGED <<phase, queue, made, generations>>

\* The stage ran; the answer is sent and the thread waits for the next request.
SendReply(w) ==
    LET t == job[w].from
    IN  /\ job[w].kind = "exec"
        /\ job' = [job EXCEPT ![w] = Reading(t, TRUE)]
        /\ link' = [link EXCEPT ![t] =
               [@ EXCEPT !.reply = job[w].no, !.replyAge = 0, !.server = "held", !.idle = 0]]
        /\ UNCHANGED <<phase, queue, made, generations>>

\* A request that cannot be read or run is answered with an error that announces
\* the end of the connection.
SendError(w) ==
    LET t == job[w].from
    IN  /\ job[w].kind = "exec"
        /\ job' = [job EXCEPT ![w] = Free]
        /\ link' = [link EXCEPT ![t] =
               [@ EXCEPT !.reply = job[w].no, !.replyAge = 0, !.server = "closing"]]
        /\ UNCHANGED <<phase, queue, made, generations>>

IdleTimeout(w) ==
    LET t == job[w].from
    IN  /\ job[w].kind = "read" /\ job[w].kept /\ link[t].idle >= Idle
        /\ job' = [job EXCEPT ![w] = Free]
        /\ link' = [link EXCEPT ![t] = [@ EXCEPT !.server = "expired"]]
        /\ UNCHANGED <<phase, queue, made, generations>>

\* A client that has gone: the request it may have left is still executed and
\* its answer goes nowhere.
FinishDead(w) ==
    /\ job[w] = Dead
    /\ job' = [job EXCEPT ![w] = Free]
    /\ UNCHANGED <<phase, queue, link, made, generations>>

FinishGeneration(w) ==
    /\ job[w] = Generating(0)
    /\ job' = [job EXCEPT ![w] = Free]
    /\ UNCHANGED <<phase, queue, link, made, generations>>

-------------------------------------------------------------------------------
\* The client: HTTPStageTransport::invoke.

\* Mutant: a connection is used again however long it was unused.
UsableAlways(t) == link[t].client # "closed"
Usable(t) == link[t].client # "closed" /\ link[t].used < Lease

\* On a connection that is still within its lease the request is sent at once;
\* shutdown may have closed it for writing.
InvokeKept(t) ==
    /\ job[t].kind = "gen" /\ job[t].left > 0 /\ Usable(t)
    /\ made' = [made EXCEPT ![t] = @ + 1]
    /\ \/ /\ link[t].client = "shut"
          /\ FailCall(t)
       \/ /\ link[t].client = "open"
          /\ link' = [link EXCEPT ![t] = [@ EXCEPT !.req = made'[t], !.reqAge = 0]]
          /\ job' = [job EXCEPT ![t] = Calling(job[t].left)]
          /\ UNCHANGED queue
    /\ UNCHANGED <<phase, generations>>

\* Otherwise the old connection is closed and the peer is dialled: it answers
\* with a place in its queue, or 503 when that is full, or not at all.
InvokeDialled(t) ==
    LET p == Peer(Node(t))
        cleared == QueueWithout({t})
    IN  /\ job[t].kind = "gen" /\ job[t].left > 0 /\ ~Usable(t)
        /\ made' = [made EXCEPT ![t] = @ + 1]
        /\ \/ /\ phase[p] = "running" /\ Len(cleared[p]) < QueueCapacity
              /\ link' = [link EXCEPT ![t] = Sent(made'[t])]
              /\ queue' = [cleared EXCEPT ![p] = Append(@, StageClient(t))]
              /\ job' = [JobsWithout({t}) EXCEPT ![t] = Calling(job[t].left)]
           \/ /\ phase[p] # "running" \/ Len(cleared[p]) >= QueueCapacity
              /\ FailCall(t)
        /\ UNCHANGED <<phase, generations>>

\* What an answer that can be read means to the generation: a result or an error.
Answered(left) == {Generating(left - 1), AfterFailure(left)}

\* The answer is read and the connection kept; or it cannot be parsed, or it
\* announces the end of the connection.
Receive(t) ==
    /\ job[t].kind = "call" /\ link[t].client = "open" /\ link[t].reply # 0
    /\ \/ /\ link[t].server # "closing"
          /\ link' = [link EXCEPT ![t] = [@ EXCEPT !.reply = 0, !.used = 0]]
          /\ \E next \in Answered(job[t].left) : job' = [job EXCEPT ![t] = next]
          /\ UNCHANGED queue
       \/ FailCall(t)
    /\ UNCHANGED <<phase, made, generations>>

\* The peer closed the connection, or shutdown interrupted it.
CallBroken(t) ==
    /\ job[t].kind = "call" /\ link[t].reply = 0
    /\ link[t].client = "shut" \/ link[t].server \in {"closed", "expired"}
    /\ FailCall(t)
    /\ UNCHANGED <<phase, made, generations>>

\* Mutants: no receive timeout; a timed-out connection is used again.
CallNeverTimesOut(t) == FALSE /\ UNCHANGED vars
CallTimeoutKeepsConnection(t) ==
    /\ job[t].kind = "call"
    /\ job' = [job EXCEPT ![t] = AfterFailure(job[t].left)]
    /\ UNCHANGED <<phase, queue, link, made, generations>>
CallTimeout(t) ==
    /\ job[t].kind = "call"
    /\ FailCall(t)
    /\ UNCHANGED <<phase, made, generations>>

-------------------------------------------------------------------------------
\* Stopping: the listening socket is closed and the open stage connections are
\* interrupted; then the waiting clients are dropped and the served ones shut
\* down; then the threads are joined.

Interrupt(n) ==
    LET open == {t \in ThreadsOf(n) : link[t].client = "open"}
    IN  /\ n \in Stoppable /\ phase[n] = "running"
        /\ phase' = [phase EXCEPT ![n] = "interrupted"]
        /\ link' = [t \in Threads |->
               IF t \in open
               THEN [Unconnected EXCEPT !.client = "shut", !.used = link[t].used] ELSE link[t]]
        /\ queue' = QueueWithout(open)
        /\ job' = JobsWithout(open)
        /\ UNCHANGED <<made, generations>>

\* A generation whose client is shut down only closes its sessions.
Cancelled(j) ==
    IF j.kind \notin {"gen", "call"} \/ j.left <= 1 THEN j
    ELSE IF j.kind = "gen" THEN Generating(1) ELSE Calling(1)

\* Mutant: the pool goes on accepting.
CloseClientsButAccept(n) ==
    /\ phase[n] = "interrupted"
    /\ queue' = [queue EXCEPT ![n] = <<>>]
    /\ UNCHANGED <<phase, link, job, made, generations>>
CloseClients(n) ==
    LET waiting == {queue[n][i].from : i \in {k \in DOMAIN queue[n] : queue[n][k].kind = "stage"}}
        served == {t \in Threads : \E w \in ThreadsOf(n) : Serves(w, t)}
    IN  /\ phase[n] = "interrupted"
        /\ phase' = [phase EXCEPT ![n] = "stopping"]
        /\ queue' = [queue EXCEPT ![n] = <<>>]
        /\ link' = [t \in Threads |->
               IF t \in waiting \cup served THEN [link[t] EXCEPT !.server = "closed"] ELSE link[t]]
        /\ job' = [w \in Threads |->
               IF Node(w) # n THEN job[w]
               ELSE IF \E t \in served : Serves(w, t) THEN Dead ELSE Cancelled(job[w])]
        /\ UNCHANGED <<made, generations>>

WorkerReturns(w) ==
    /\ phase[Node(w)] = "stopping" /\ job[w] = Free /\ queue[Node(w)] = <<>>
    /\ job' = [job EXCEPT ![w] = Gone]
    /\ UNCHANGED <<phase, queue, link, made, generations>>

\* Every thread is joined and run returns; the process closes what is open.
Exit(n) ==
    /\ phase[n] = "stopping" /\ \A w \in ThreadsOf(n) : job[w] = Gone
    /\ phase' = [phase EXCEPT ![n] = "exited"]
    /\ link' = [t \in Threads |-> IF Node(t) = n THEN Unconnected ELSE link[t]]
    /\ queue' = QueueWithout(ThreadsOf(n))
    /\ job' = JobsWithout(ThreadsOf(n))
    /\ UNCHANGED <<made, generations>>

-------------------------------------------------------------------------------
\* A tick: what is unused grows older, and no message is on its way to a waiting
\* reader for more than Delay ticks.

UpTo(bound, n) == IF n < bound THEN n + 1 ELSE n

Older(t) ==
    LET l == link[t]
    IN  [l EXCEPT !.reqAge = IF l.req # 0 THEN UpTo(Delay, @) ELSE 0,
                  !.replyAge = IF l.reply # 0 THEN UpTo(Delay, @) ELSE 0,
                  !.used = IF l.client # "closed" /\ job[t].kind # "call" THEN UpTo(Lease, @) ELSE @,
                  !.idle = IF l.server = "held" THEN UpTo(Idle, @) ELSE 0]

Tick ==
    /\ \A t \in Threads :
          /\ ~(link[t].server = "held" /\ link[t].req # 0 /\ link[t].reqAge = Delay)
          /\ ~(job[t].kind = "call" /\ link[t].reply # 0 /\ link[t].replyAge = Delay)
    /\ link' = [t \in Threads |-> Older(t)]
    /\ UNCHANGED <<phase, queue, job, made, generations>>

\* What a thread does of its own accord.
Work(t) ==
    \/ TakeClient(t) \/ ReadRequest(t) \/ SendReply(t) \/ SendError(t) \/ IdleTimeout(t)
    \/ FinishDead(t) \/ FinishGeneration(t)
    \/ InvokeKept(t) \/ InvokeDialled(t) \/ Receive(t) \/ CallBroken(t) \/ CallTimeout(t)
    \/ WorkerReturns(t)

Next ==
    \/ \E t \in Threads : Work(t)
    \/ \E n \in Nodes : AcceptGeneration(n) \/ Interrupt(n) \/ CloseClients(n) \/ Exit(n)
    \/ Tick

Spec == Init /\ [][Next]_vars

\* Threads are scheduled, clocks run and stage execution ends.
FairSpec ==
    /\ Spec
    /\ \A t \in Threads : WF_vars(Work(t))
    /\ \A n \in Nodes : WF_vars(CloseClients(n)) /\ WF_vars(Exit(n))
    /\ WF_vars(Tick)

-------------------------------------------------------------------------------
\* A call that is made within the lease of a kept connection never meets the
\* peer's idle timeout: the peer does not give up a connection while a request
\* is on its way to it (kConnectionLease, kStageKeepAliveIdleSeconds).
LeaseOutlivesNoPeer ==
    \A t \in Threads : link[t].server = "expired" => link[t].req = 0

\* What a call reads is the answer to that call: after a timeout, an error or a
\* shutdown no earlier answer and no earlier request is left on the connection
\* that the thread uses next (HTTPStageTransport::invoke, reset).
AnswersOwnCall ==
    \A t \in Threads :
        /\ link[t].reply # 0 => job[t].kind = "call" /\ link[t].reply = made[t]
        /\ link[t].req # 0 => job[t].kind = "call" /\ link[t].req = made[t]
        /\ \A w \in Threads : job[w].kind = "exec" /\ job[w].from = t => job[w].no = made[t]

\* Every generation ends, also when all the threads of both workers call the
\* other one and none is left to answer: the receive timeout breaks the circle,
\* and a thread that holds a kept connection comes back (HttpServer::run,
\* handle_client, connect_socket).
GenerationsEnd ==
    \A n \in Nodes :
        (\/ \E i \in DOMAIN queue[n] : queue[n][i] = GenerationClient
         \/ \E t \in ThreadsOf(n) : job[t].kind \in {"gen", "call"})
        ~> (/\ \A i \in DOMAIN queue[n] : queue[n][i] # GenerationClient
            /\ \A t \in ThreadsOf(n) : job[t].kind \notin {"gen", "call"})

\* A worker that is asked to stop joins all its threads, though a thread may
\* dial the peer again after shutdown interrupted the open connections
\* (HttpServer::run, HTTPStageTransport::shutdown).
StopEnds == \A n \in Nodes : phase[n] = "interrupted" ~> phase[n] = "exited"
===============================================================================
