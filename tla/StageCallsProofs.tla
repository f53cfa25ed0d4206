--------------------------- MODULE StageCallsProofs ---------------------------
(***************************************************************************)
(* Proofs about StageCalls, for any number of threads and calls and any    *)
(* Lease, Idle and Delay with Lease + 2 * Delay <= Idle.                   *)
(*                                                                         *)
(* IInv is inductive.  OneVoice says that a call is in one place at a     *)
(* time: on its way, in execution, or answered.  OneServer and OneEntry    *)
(* say that the server end of a connection is where the link says it is.   *)
(* WithinLease bounds how long a kept connection can have been idle at the *)
(* peer by how long it was unused here.                                    *)
(***************************************************************************)
EXTENDS StageCalls, TLAPS

Executes(w, t) == job[w].kind = "exec" /\ job[w].from = t
Keeps(w, t) == job[w].kind = "read" /\ job[w].from = t /\ job[w].kept
Waits(n, i, t) == queue[n][i].kind = "stage" /\ queue[n][i].from = t

\* A call is on its way, in execution or answered, and never two of these.
OneVoice ==
    /\ \A t \in Threads : link[t].reply # 0 => /\ job[t].kind = "call"
                                               /\ link[t].reply = made[t] /\ link[t].req = 0
    /\ \A t \in Threads : link[t].req # 0 => job[t].kind = "call" /\ link[t].req = made[t]
    /\ \A w, t \in Threads : Executes(w, t) => /\ job[t].kind = "call" /\ job[w].no = made[t] /\ made[t] # 0
                                               /\ link[t].req = 0 /\ link[t].reply = 0
    /\ \A w, v, t \in Threads : Executes(w, t) /\ Executes(v, t) => w = v

\* A connection is served by one thread, and only while its client is there.
OneServer ==
    /\ \A w, t \in Threads : Serves(w, t) =>
          /\ link[t].client = "open"
          /\ job[w].kind = "read" => link[t].server = "held"
          /\ job[w].kind = "exec" => link[t].server = "busy"
    /\ \A w, v, t \in Threads : Serves(w, t) /\ Serves(v, t) => w = v

\* Or it waits at one place of one queue.
OneEntry ==
    /\ \A n \in Nodes : \A i \in 1..Len(queue[n]) : \A t \in Threads :
          Waits(n, i, t) => link[t].server = "queued" /\ link[t].client = "open"
    /\ \A n, m \in Nodes : \A i \in 1..Len(queue[n]), j \in 1..Len(queue[m]) : \A t \in Threads :
          Waits(n, i, t) /\ Waits(m, j, t) => n = m /\ i = j

\* What the peer has waited for a request, in terms of what the client knows.
WithinLease ==
    /\ \A w, t \in Threads : Keeps(w, t) =>
          /\ link[t].reply # 0 => link[t].idle <= link[t].replyAge
          /\ link[t].req # 0 => link[t].idle <= Delay + Lease - 1 + link[t].reqAge
          /\ link[t].req = 0 /\ link[t].reply = 0 =>
                /\ job[t].kind # "call"
                /\ link[t].idle <= Delay + link[t].used \/ link[t].used >= Lease
    /\ \A t \in Threads : link[t].server = "expired" =>
          /\ job[t].kind # "call" /\ link[t].used >= Lease
          /\ link[t].req = 0 /\ link[t].reply = 0

IInv == TypeOK /\ OneVoice /\ OneServer /\ OneEntry /\ WithinLease

-------------------------------------------------------------------------------
\* Closing connections turns clients of the queues into dead ones and moves none.
LEMMA QueueWithoutMoves ==
  ASSUME TypeOK, NEW ts, NEW n \in Nodes
  PROVE  /\ QueueWithout(ts)[n] \in Seq(Clients)
         /\ Len(QueueWithout(ts)[n]) = Len(queue[n])
         /\ \A i \in 1..Len(queue[n]) : QueueWithout(ts)[n][i] =
               IF queue[n][i].kind = "stage" /\ queue[n][i].from \in ts
               THEN DeadClient ELSE queue[n][i]
  <1>1. queue[n] \in Seq(Clients) /\ Len(queue[n]) \in Nat
    BY DEF TypeOK
  <1>2. DeadClient \in Clients
    BY Zenon DEF Clients
  <1> DEFINE q == [i \in 1..Len(queue[n]) |->
                     IF queue[n][i].kind = "stage" /\ queue[n][i].from \in ts
                     THEN DeadClient ELSE queue[n][i]]
  <1>3. QueueWithout(ts)[n] = q
    BY Zenon DEF QueueWithout
  <1>4. \A i \in 1..Len(queue[n]) : q[i] \in Clients
    BY <1>1, <1>2
  <1>5. q \in [1..Len(queue[n]) -> Clients]
    BY <1>4, Zenon
  <1>6. \A i \in 1..Len(queue[n]) : q[i] =
          IF queue[n][i].kind = "stage" /\ queue[n][i].from \in ts
          THEN DeadClient ELSE queue[n][i]
    BY Zenon
  <1> HIDE DEF q
  <1>7. q \in Seq(Clients) /\ Len(q) = Len(queue[n])
    BY <1>1, <1>5
  <1> QED
    BY <1>3, <1>6, <1>7, Zenon

\* So the queues keep their type and their lengths.
LEMMA QueueWithoutType ==
  ASSUME TypeOK, NEW ts
  PROVE  /\ QueueWithout(ts) \in [Nodes -> Seq(Clients)]
         /\ \A n \in Nodes : Len(QueueWithout(ts)[n]) <= QueueCapacity
  <1>1. \A n \in Nodes : QueueWithout(ts)[n] \in Seq(Clients)
    BY QueueWithoutMoves, Zenon
  <1>2. QueueWithout(ts) = [n \in Nodes |-> QueueWithout(ts)[n]]
    BY Zenon DEF QueueWithout
  <1>3. QueueWithout(ts) \in [Nodes -> Seq(Clients)]
    BY <1>1, <1>2, Zenon
  <1>4. \A n \in Nodes : Len(QueueWithout(ts)[n]) <= QueueCapacity
    BY QueueWithoutMoves, Zenon DEF TypeOK
  <1> QED
    BY <1>3, <1>4, Zenon

\* Closing connections ends the service of these connections.
LEMMA JobsWithoutServe ==
  ASSUME TypeOK, NEW ts \in SUBSET Threads
  PROVE  /\ JobsWithout(ts) \in [Threads -> Jobs]
         /\ \A w \in Threads : JobsWithout(ts)[w] =
               IF job[w].kind \in {"read", "exec"} /\ job[w].from \in ts THEN Dead ELSE job[w]
  <1>1. \A w \in Threads : (\E t \in ts : Serves(w, t)) <=>
           (job[w].kind \in {"read", "exec"} /\ job[w].from \in ts)
    BY Zenon DEF Serves
  <1>2. Dead \in Jobs
    BY Zenon DEF Jobs
  <1> QED
    BY <1>1, <1>2, Zenon DEF JobsWithout, TypeOK

\* What a thread that serves, calls or generates has at hand.
LEMMA JobFields ==
  ASSUME TypeOK, NEW w \in Threads
  PROVE  /\ job[w] \in Jobs
         /\ job[w].kind \in {"read", "exec"} => job[w].from \in Threads
         /\ job[w].kind = "exec" => job[w].no \in Nat
         /\ job[w].kind = "gen" => job[w].left \in 0..Calls
         /\ job[w].kind = "call" => job[w].left \in 1..Calls
  <1>1. job[w] \in Jobs
    BY Zenon DEF TypeOK
  <1> QED
    BY <1>1 DEF Jobs, Free, Dead, Gone

\* The steps that change the job of threads which serve nobody and call nobody,
\* before and after, and nothing else of a call.
LEMMA QuietIInv ==
  ASSUME IInv, UNCHANGED <<link, made>>,
         \A u \in Threads : \/ job'[u] = job[u]
                            \/ {job'[u].kind, job[u].kind} \cap {"call", "read", "exec"} = {}
  PROVE  OneVoice' /\ OneServer' /\ WithinLease'
  <1>1. \A w, t \in Threads : Executes(w, t)' <=> Executes(w, t)
    BY Zenon DEF Executes
  <1>2. \A w, t \in Threads : Keeps(w, t)' <=> Keeps(w, t)
    BY Zenon DEF Keeps
  <1>3. \A t \in Threads : job'[t].kind = "call" <=> job[t].kind = "call"
    BY Zenon
  <1>4. \A w, t \in Threads : Executes(w, t) => job'[w].no = job[w].no
    BY Zenon DEF Executes
  <1>5. OneVoice'
    BY <1>1, <1>3, <1>4 DEF IInv, OneVoice
  <1>6. WithinLease'
    BY <1>2, <1>3, Zenon DEF IInv, WithinLease
  <1>7. \A w, t \in Threads : /\ Serves(w, t)' <=> Serves(w, t)
                              /\ Serves(w, t) => job'[w].kind = job[w].kind
    BY Zenon DEF Serves
  <1>8. OneServer'
    BY <1>7 DEF IInv, OneServer
  <1> QED
    BY <1>5, <1>6, <1>8, Zenon

\* The queues stay and no connection that waits in one changes.
LEMMA QueuesKept ==
  ASSUME OneEntry, UNCHANGED queue,
         \A t \in Threads : link[t].server = "queued" /\ link[t].client = "open" =>
            link'[t].server = "queued" /\ link'[t].client = "open"
  PROVE  OneEntry'
  <1>1. \A n, i, t : Waits(n, i, t)' <=> Waits(n, i, t)
    BY Zenon DEF Waits
  <1> QED
    BY <1>1 DEF OneEntry

\* The connections of the threads in ts are closed: by reset, shutdown or the end
\* of the process.  Nothing of them is left at the peer.
LEMMA ClosedIInv ==
  ASSUME IInv, NEW ts \in SUBSET Threads, queue' = QueueWithout(ts),
         \A t \in ts : /\ link'[t].req = 0 /\ link'[t].reply = 0
                        /\ link'[t].server = "none",
         \A t \in Threads \ ts : link'[t] = link[t] /\ made'[t] = made[t],
         \A u \in Threads :
            \/ job'[u] = job[u] /\ ~(\E t \in ts : Serves(u, t))
            \/ /\ job'[u].kind \notin {"call", "read", "exec"}
               /\ \/ \E t \in ts : Serves(u, t)
                  \/ job[u].kind \notin {"read", "exec"} /\ (u \in ts \/ job[u].kind # "call")
  PROVE  OneVoice' /\ OneServer' /\ OneEntry' /\ WithinLease'
  <1>1. TypeOK
    BY Zenon DEF IInv
  <1>2. \A w, t \in Threads : /\ Serves(w, t)' <=> Serves(w, t) /\ t \notin ts
                              /\ Serves(w, t)' => job'[w] = job[w]
    BY DEF Serves
  <1>3. \A w, t \in Threads : Executes(w, t)' <=> Executes(w, t) /\ t \notin ts
    BY <1>2 DEF Serves, Executes
  <1>4. \A w, t \in Threads : Keeps(w, t)' <=> Keeps(w, t) /\ t \notin ts
    BY <1>2 DEF Serves, Keeps
  <1>5. \A t \in Threads \ ts : job'[t].kind = "call" <=> job[t].kind = "call"
    BY Zenon DEF Serves
  <1>6. \A w, t \in Threads : Executes(w, t)' => job'[w].no = job[w].no
    BY <1>2, Zenon DEF Serves, Executes
  <1>7. OneVoice'
    BY <1>3, <1>5, <1>6 DEF IInv, OneVoice
  <1>8. OneServer'
    BY <1>2 DEF IInv, OneServer
  <1>9. WithinLease'
    BY <1>4, <1>5 DEF IInv, WithinLease
  <1>10. \A n \in Nodes : Len(queue'[n]) = Len(queue[n])
    BY <1>1, QueueWithoutMoves
  <1>11. \A n \in Nodes : \A i \in 1..Len(queue[n]) : \A t \in Threads :
           Waits(n, i, t)' => Waits(n, i, t) /\ t \notin ts
    BY <1>1, QueueWithoutMoves DEF Waits, DeadClient
  <1>12. OneEntry'
    BY <1>10, <1>11 DEF IInv, OneEntry
  <1> QED
    BY <1>7, <1>8, <1>9, <1>12, Zenon

-------------------------------------------------------------------------------
\* The jobs and the links that the steps write.
LEMMA JobValues ==
  /\ {Free, Dead, Gone} \subseteq Jobs
  /\ \A left \in 0..Calls : Generating(left) \in Jobs
  /\ \A left \in 1..Calls : Calling(left) \in Jobs
  /\ \A t \in Threads, kept \in BOOLEAN : Reading(t, kept) \in Jobs
  /\ \A t \in Threads, no \in Nat : Executing(t, no) \in Jobs
  BY Zenon DEF Jobs, Generating, Calling, Reading, Executing

\* The kinds of the jobs, as the steps tell them apart.
LEMMA JobKinds ==
  /\ Free.kind = "free" /\ Dead.kind = "dead" /\ Gone.kind = "gone"
  /\ \A left : Generating(left).kind = "gen" /\ Generating(left).left = left
  /\ \A left : Calling(left).kind = "call" /\ Calling(left).left = left
  /\ \A t, kept : /\ Reading(t, kept).kind = "read" /\ Reading(t, kept).from = t
                  /\ Reading(t, kept).kept = kept
  /\ \A t, no : /\ Executing(t, no).kind = "exec" /\ Executing(t, no).from = t
                /\ Executing(t, no).no = no
  BY Zenon DEF Free, Dead, Gone, Generating, Calling, Reading, Executing

\* A generation goes on to its last call, or has no call left.
LEMMA AfterFailureJob ==
  ASSUME NEW left \in 1..Calls
  PROVE  AfterFailure(left) \in Jobs /\ AfterFailure(left).kind = "gen"
  <1>1. Calls \in Nat
    BY CallsAssumption, Zenon
  <1>2. 0 \in 0..Calls /\ 1 \in 0..Calls
    BY <1>1
  <1> QED
    BY <1>2, JobValues, JobKinds, Zenon DEF AfterFailure

\* The age of a link is within its bounds, and its ends are what they may be.
LEMMA LinkFields ==
  ASSUME TypeOK, NEW t \in Threads
  PROVE  /\ link[t] \in Links
         /\ link[t].req \in Nat /\ link[t].reply \in Nat
         /\ link[t].reqAge \in 0..Delay /\ link[t].replyAge \in 0..Delay
         /\ link[t].used \in 0..Lease /\ link[t].idle \in 0..Idle
  <1>1. link[t] \in Links
    BY Zenon DEF TypeOK
  <1> QED
    BY <1>1, Zenon DEF Links

\* The bounds are positive.
LEMMA Bounds ==
  /\ Lease \in Nat /\ Delay \in Nat /\ Idle \in Int /\ Lease > 0 /\ Delay > 0
  /\ Lease + 2 * Delay <= Idle /\ QueueCapacity \in Nat /\ Calls \in Nat /\ Calls > 0
  /\ MaxGenerations \in Nat
  BY CallsAssumption

\* The values that the steps write to a link stay links: a request is read.
LEMMA LinkRead ==
  ASSUME NEW l \in Links
  PROVE  [l EXCEPT !.req = 0, !.reqAge = 0, !.server = "busy"] \in Links
  <1> DEFINE m1 == [l EXCEPT !.req = 0]
  <1>1. m1 \in Links
    BY Bounds, Zenon DEF Links
  <1> HIDE DEF m1
  <1> DEFINE m2 == [m1 EXCEPT !.reqAge = 0]
  <1>2. m2 \in Links
    BY <1>1, Bounds DEF Links
  <1> HIDE DEF m2
  <1>3. [m2 EXCEPT !.server = "busy"] \in Links
    BY <1>2, Bounds, Zenon DEF Links
  <1> QED
    BY <1>3, Zenon DEF m1, m2

\* An answer sent over it.
LEMMA LinkAnswered ==
  ASSUME NEW l \in Links, NEW no \in Nat
  PROVE  [l EXCEPT !.reply = no, !.replyAge = 0, !.server = "held", !.idle = 0] \in Links
  <1> DEFINE m1 == [l EXCEPT !.reply = no]
  <1>1. m1 \in Links
    BY Bounds, Zenon DEF Links
  <1> HIDE DEF m1
  <1> DEFINE m2 == [m1 EXCEPT !.replyAge = 0]
  <1>2. m2 \in Links
    BY <1>1, Bounds DEF Links
  <1> HIDE DEF m2
  <1> DEFINE m3 == [m2 EXCEPT !.server = "held"]
  <1>3. m3 \in Links
    BY <1>2, Bounds, Zenon DEF Links
  <1> HIDE DEF m3
  <1>4. [m3 EXCEPT !.idle = 0] \in Links
    BY <1>3, Bounds DEF Links
  <1> QED
    BY <1>4, Zenon DEF m1, m2, m3

\* An error sent over it.
LEMMA LinkRefused ==
  ASSUME NEW l \in Links, NEW no \in Nat
  PROVE  [l EXCEPT !.reply = no, !.replyAge = 0, !.server = "closing"] \in Links
  <1> DEFINE m1 == [l EXCEPT !.reply = no]
  <1>1. m1 \in Links
    BY Bounds, Zenon DEF Links
  <1> HIDE DEF m1
  <1> DEFINE m2 == [m1 EXCEPT !.replyAge = 0]
  <1>2. m2 \in Links
    BY <1>1, Bounds DEF Links
  <1> HIDE DEF m2
  <1>3. [m2 EXCEPT !.server = "closing"] \in Links
    BY <1>2, Bounds, Zenon DEF Links
  <1> QED
    BY <1>3, Zenon DEF m1, m2

\* A request sent over it.
LEMMA LinkAsked ==
  ASSUME NEW l \in Links, NEW no \in Nat
  PROVE  [l EXCEPT !.req = no, !.reqAge = 0] \in Links
  <1> DEFINE m1 == [l EXCEPT !.req = no]
  <1>1. m1 \in Links
    BY Bounds, Zenon DEF Links
  <1> HIDE DEF m1
  <1>2. [m1 EXCEPT !.reqAge = 0] \in Links
    BY <1>1, Bounds DEF Links
  <1> QED
    BY <1>2, Zenon DEF m1

\* An answer read from it.
LEMMA LinkReceived ==
  ASSUME NEW l \in Links
  PROVE  [l EXCEPT !.reply = 0, !.used = 0] \in Links
  <1> DEFINE m1 == [l EXCEPT !.reply = 0]
  <1>1. m1 \in Links
    BY Bounds, Zenon DEF Links
  <1> HIDE DEF m1
  <1>2. [m1 EXCEPT !.used = 0] \in Links
    BY <1>1, Bounds DEF Links
  <1> QED
    BY <1>2, Zenon DEF m1

\* A connection that shutdown interrupted.
LEMMA LinkShut ==
  ASSUME NEW l \in Links, NEW age \in 0..Lease
  PROVE  [l EXCEPT !.client = "shut", !.used = age] \in Links
  <1> DEFINE m1 == [l EXCEPT !.client = "shut"]
  <1>1. m1 \in Links
    BY Bounds, Zenon DEF Links
  <1> HIDE DEF m1
  <1>2. [m1 EXCEPT !.used = age] \in Links
    BY <1>1, Bounds, Zenon DEF Links
  <1> QED
    BY <1>2, Zenon DEF m1

\* A connection that was just dialled.
LEMMA LinkSent ==
  ASSUME NEW l \in Links, NEW no \in Nat
  PROVE  [l EXCEPT !.client = "open", !.server = "queued", !.req = no] \in Links
  <1> DEFINE m1 == [l EXCEPT !.client = "open"]
  <1>1. m1 \in Links
    BY Bounds, Zenon DEF Links
  <1> HIDE DEF m1
  <1> DEFINE m2 == [m1 EXCEPT !.server = "queued"]
  <1>2. m2 \in Links
    BY <1>1, Bounds, Zenon DEF Links
  <1> HIDE DEF m2
  <1>3. [m2 EXCEPT !.req = no] \in Links
    BY <1>2, Bounds, Zenon DEF Links
  <1> QED
    BY <1>3, Zenon DEF m1, m2

\* A connection a tick later.
LEMMA LinkOlder ==
  ASSUME NEW l \in Links, NEW a \in 0..Delay, NEW b \in 0..Delay,
         NEW c \in 0..Lease, NEW d \in 0..Idle
  PROVE  [l EXCEPT !.reqAge = a, !.replyAge = b, !.used = c, !.idle = d] \in Links
  <1> DEFINE m1 == [l EXCEPT !.reqAge = a]
  <1>1. m1 \in Links
    BY Bounds, Zenon DEF Links
  <1> HIDE DEF m1
  <1> DEFINE m2 == [m1 EXCEPT !.replyAge = b]
  <1>2. m2 \in Links
    BY <1>1, Bounds, Zenon DEF Links
  <1> HIDE DEF m2
  <1> DEFINE m3 == [m2 EXCEPT !.used = c]
  <1>3. m3 \in Links
    BY <1>2, Bounds, Zenon DEF Links
  <1> HIDE DEF m3
  <1>4. [m3 EXCEPT !.idle = d] \in Links
    BY <1>3, Bounds, Zenon DEF Links
  <1> QED
    BY <1>4, Zenon DEF m1, m2, m3

\* A connection that is not open, and one that was just dialled.
LEMMA NewLinks ==
  /\ Unconnected \in Links
  /\ \A no \in Nat : Sent(no) \in Links
  /\ Unconnected.req = 0 /\ Unconnected.reply = 0 /\ Unconnected.server = "none"
  /\ \A no : /\ Sent(no).req = no /\ Sent(no).reply = 0
             /\ Sent(no).server = "queued" /\ Sent(no).client = "open"
  <1>1. Unconnected \in Links
    BY Bounds DEF Unconnected, Links
  <1>2. \A no \in Nat : Sent(no) \in Links
    BY <1>1, LinkSent, Zenon DEF Sent
  <1>3. Unconnected.req = 0 /\ Unconnected.reply = 0 /\ Unconnected.server = "none"
    BY Zenon DEF Unconnected
  <1>4. \A no : /\ Sent(no).req = no /\ Sent(no).reply = 0
               /\ Sent(no).server = "queued" /\ Sent(no).client = "open"
    BY Zenon DEF Sent, Unconnected
  <1> QED
    BY <1>1, <1>2, <1>3, <1>4, Zenon

\* A call that fails leaves nothing of itself behind.
LEMMA FailCallIInv ==
  ASSUME IInv, NEW t \in Threads, FailCall(t), job[t].kind \in {"gen", "call"},
         job[t].left \in 1..Calls, made' \in [Threads -> Nat],
         \A u \in Threads \ {t} : made'[u] = made[u], UNCHANGED <<phase, generations>>
  PROVE  IInv'
  <1>1. TypeOK
    BY Zenon DEF IInv
  <1>2. AfterFailure(job[t].left) \in Jobs /\ AfterFailure(job[t].left).kind = "gen"
    BY AfterFailureJob, Zenon
  <1>3. JobsWithout({t}) \in [Threads -> Jobs]
    BY <1>1, JobsWithoutServe
  <1>4. /\ job' \in [Threads -> Jobs]
        /\ job'[t].kind = "gen"
        /\ \A u \in Threads \ {t} : job'[u] = JobsWithout({t})[u]
    BY <1>2, <1>3, Zenon DEF FailCall
  <1>5. /\ link' \in [Threads -> Links]
        /\ link'[t] = Unconnected
        /\ \A u \in Threads \ {t} : link'[u] = link[u]
    BY <1>1, NewLinks, Zenon DEF FailCall, reset, TypeOK
  <1>6. queue' = QueueWithout({t})
    BY Zenon DEF FailCall, reset
  <1>7. TypeOK'
    BY <1>1, <1>4, <1>5, <1>6, QueueWithoutType, Zenon DEF TypeOK
  <1>8. \A u \in Threads \ {t} :
           \/ job'[u] = job[u] /\ ~Serves(u, t)
           \/ job'[u].kind \notin {"call", "read", "exec"} /\ Serves(u, t)
    BY <1>1, <1>4, JobsWithoutServe, JobKinds DEF Serves
  <1>9. OneVoice' /\ OneServer' /\ OneEntry' /\ WithinLease'
    <2> DEFINE ts == {t}
    <2>1. \A u \in ts : link'[u].req = 0 /\ link'[u].reply = 0 /\ link'[u].server = "none"
      BY <1>5, NewLinks, Zenon
    <2>2. \A u \in Threads \ ts : link'[u] = link[u] /\ made'[u] = made[u]
      BY <1>5, Zenon
    <2>3. \A u \in Threads :
             \/ job'[u] = job[u] /\ ~(\E v \in ts : Serves(u, v))
             \/ /\ job'[u].kind \notin {"call", "read", "exec"}
                /\ \/ \E v \in ts : Serves(u, v)
                   \/ job[u].kind \notin {"read", "exec"} /\ (u \in ts \/ job[u].kind # "call")
      BY <1>4, <1>8, Zenon
    <2>4. ts \in SUBSET Threads /\ queue' = QueueWithout(ts)
      BY <1>6, Zenon
    <2> HIDE DEF ts
    <2> QED
      BY <2>1, <2>2, <2>3, <2>4, ClosedIInv, Zenon
  <1> QED
    BY <1>7, <1>9, Zenon DEF IInv

-------------------------------------------------------------------------------
\* A thread that serves a connection is the only one, and knows its state.
LEMMA ServedLink ==
  ASSUME IInv, NEW w \in Threads, job[w].kind \in {"read", "exec"}
  PROVE  /\ job[w].from \in Threads /\ Serves(w, job[w].from)
         /\ job[w].kind = "read" => link[job[w].from].server = "held"
         /\ job[w].kind = "exec" => link[job[w].from].server = "busy"
         /\ link[job[w].from].client = "open"
         /\ \A u \in Threads : Serves(u, job[w].from) => u = w
  <1>1. job[w].from \in Threads
    BY JobFields, Zenon DEF IInv
  <1>2. Serves(w, job[w].from)
    BY Zenon DEF Serves
  <1> QED
    BY <1>1, <1>2, Zenon DEF IInv, OneServer

\* The request is taken off the connection and executed.
LEMMA ReadRequestIInv ==
  ASSUME IInv, NEW w \in Threads, ReadRequest(w)
  PROVE  IInv'
  <1> DEFINE t == job[w].from
  <1>1. TypeOK
    BY Zenon DEF IInv
  <1>2. /\ job[w].kind = "read" /\ link[t].req # 0 /\ t \in Threads
        /\ link[t].server = "held" /\ \A u \in Threads : Serves(u, t) => u = w
    BY ServedLink, Zenon DEF ReadRequest
  <1>3. /\ job' \in [Threads -> Jobs] /\ job'[w] = Executing(t, link[t].req)
        /\ \A u \in Threads \ {w} : job'[u] = job[u]
    BY <1>1, <1>2, JobValues, JobFields, LinkFields, Zenon DEF ReadRequest, TypeOK
  <1>4. /\ link' \in [Threads -> Links]
        /\ \A u \in Threads \ {t} : link'[u] = link[u]
        /\ link'[t].req = 0 /\ link'[t].reply = link[t].reply
        /\ link'[t].server = "busy" /\ link'[t].client = link[t].client
    <2> DEFINE l == [link[t] EXCEPT !.req = 0, !.reqAge = 0, !.server = "busy"]
    <2>1. link[t] \in Links
      BY <1>1, <1>2, LinkFields, Zenon
    <2>2. l \in Links
      BY <1>1, <1>2, <2>1, JobFields, LinkRead, Zenon
    <2>3. link' = [link EXCEPT ![t] = l]
      BY Zenon DEF ReadRequest
    <2>4. l.req = 0 /\ l.reply = link[t].reply /\ l.server = "busy" /\ l.client =
             link[t].client
      BY <2>1, Zenon DEF Links
    <2> HIDE DEF l
    <2> QED
      BY <1>1, <1>2, <2>2, <2>3, <2>4, Zenon DEF TypeOK
  <1>5. UNCHANGED <<phase, queue, made, generations>>
    BY Zenon DEF ReadRequest
  <1>6. TypeOK'
    BY <1>1, <1>3, <1>4, <1>5, Zenon DEF TypeOK
  <1>7. /\ job[t].kind = "call" /\ link[t].req = made[t] /\ link[t].reply = 0
        /\ t # w /\ \A u \in Threads : ~Executes(u, t)
    BY <1>2, Zenon DEF IInv, OneVoice
  <1>8. /\ \A u, v \in Threads : Executes(u, v)' <=> Executes(u, v) \/ (u = w /\ v = t)
        /\ \A u \in Threads \ {w} : job'[u].no = job[u].no
        /\ job'[w].no = link[t].req /\ job'[w].kind = "exec"
        /\ \A v \in Threads : ~Executes(w, v)
    BY <1>2, <1>3, JobKinds DEF Executes
  <1>9. \A v \in Threads : job'[v].kind = "call" <=> job[v].kind = "call"
    BY <1>2, <1>3, JobKinds
  <1>10. OneVoice'
    BY <1>2, <1>4, <1>5, <1>7, <1>8, <1>9 DEF IInv, OneVoice
  <1>11. \A u, v \in Threads : Serves(u, v)' <=> Serves(u, v)
    BY <1>2, <1>3, JobKinds DEF Serves
  <1>12. OneServer'
    <2>1. \A u, v \in Threads : Serves(u, v) => (u = w /\ v = t) \/ (u # w /\ v # t)
      BY <1>2, Zenon DEF Serves
    <2>2. link[t].client = "open" /\ job'[w].kind = "exec"
      BY <1>2, <1>8, ServedLink, Zenon
    <2>3. \A u, v \in Threads : Serves(u, v)' =>
            /\ link'[v].client = "open"
            /\ job'[u].kind = "read" => link'[v].server = "held"
            /\ job'[u].kind = "exec" => link'[v].server = "busy"
      BY <1>3, <1>4, <1>11, <2>1, <2>2 DEF IInv, OneServer
    <2>4. \A u, x, v \in Threads : Serves(u, v)' /\ Serves(x, v)' => u = x
      BY <1>11, Zenon DEF IInv, OneServer
    <2> QED
      BY <2>3, <2>4, Zenon DEF OneServer
  <1>13. OneEntry'
    BY <1>2, <1>4, <1>5, QueuesKept, Zenon DEF IInv
  <1>14. \A u, v \in Threads : Keeps(u, v)' => Keeps(u, v) /\ v # t
    BY <1>2, <1>3, <1>8 DEF Keeps, Serves
  <1>15. WithinLease'
    BY <1>2, <1>4, <1>9, <1>14 DEF IInv, WithinLease
  <1> QED
    BY <1>6, <1>10, <1>12, <1>13, <1>15, Zenon DEF IInv

\* The answer takes the place of the execution, and the idle time starts with it.
LEMMA SendReplyIInv ==
  ASSUME IInv, NEW w \in Threads, SendReply(w)
  PROVE  IInv'
  <1> DEFINE t == job[w].from
  <1>1. TypeOK
    BY Zenon DEF IInv
  <1>2. /\ job[w].kind = "exec" /\ t \in Threads
        /\ link[t].server = "busy" /\ link[t].client = "open"
        /\ \A u \in Threads : Serves(u, t) => u = w
    BY ServedLink, Zenon DEF SendReply
  <1>3. /\ job' \in [Threads -> Jobs] /\ job'[w].kind = "read" /\ job'[w].from = t
        /\ \A u \in Threads \ {w} : job'[u] = job[u]
    <2>1. Reading(t, TRUE) \in Jobs
      BY <1>2, JobValues, Zenon
    <2>2. Reading(t, TRUE).kind = "read" /\ Reading(t, TRUE).from = t
      BY Zenon DEF Reading
    <2>3. job' = [job EXCEPT ![w] = Reading(t, TRUE)]
      BY Zenon DEF SendReply
    <2> QED
      BY <1>1, <2>1, <2>2, <2>3, Zenon DEF TypeOK
  <1>4. /\ link' \in [Threads -> Links]
        /\ \A u \in Threads \ {t} : link'[u] = link[u]
        /\ link'[t].req = link[t].req /\ link'[t].reply = job[w].no
        /\ link'[t].replyAge = 0 /\ link'[t].idle = 0
        /\ link'[t].server = "held" /\ link'[t].client = link[t].client
    <2> DEFINE l == [link[t] EXCEPT !.reply = job[w].no, !.replyAge = 0, !.server = "held", !.idle = 0]
    <2>1. link[t] \in Links
      BY <1>1, <1>2, LinkFields, Zenon
    <2>2. l \in Links
      BY <1>1, <1>2, <2>1, JobFields, LinkAnswered, Zenon
    <2>3. link' = [link EXCEPT ![t] = l]
      BY Zenon DEF SendReply
    <2>4. l.req = link[t].req /\ l.reply = job[w].no /\ l.replyAge = 0 /\ l.idle = 0 /\
             l.server = "held" /\ l.client = link[t].client
      BY <2>1, Zenon DEF Links
    <2> HIDE DEF l
    <2> QED
      BY <1>1, <1>2, <2>2, <2>3, <2>4, Zenon DEF TypeOK
  <1>5. UNCHANGED <<phase, queue, made, generations>>
    BY Zenon DEF SendReply
  <1>6. TypeOK'
    BY <1>1, <1>3, <1>4, <1>5, Zenon DEF TypeOK
  <1>7. /\ job[t].kind = "call" /\ job[w].no = made[t] /\ made[t] # 0
        /\ link[t].req = 0 /\ t # w /\ \A u \in Threads : Executes(u, t) => u = w
    <2>1. Executes(w, t)
      BY <1>2, Zenon DEF Executes
    <2> QED
      BY <1>2, <2>1, Zenon DEF IInv, OneVoice
  <1>8. /\ \A u, v \in Threads : Executes(u, v)' <=> Executes(u, v) /\ u # w
        /\ \A u \in Threads \ {w} : job'[u].no = job[u].no
        /\ job'[w].kind = "read"
    BY <1>2, <1>3, JobKinds DEF Executes
  <1>9. \A v \in Threads : job'[v].kind = "call" <=> job[v].kind = "call"
    BY <1>2, <1>3, JobKinds
  <1>10. OneVoice'
    BY <1>2, <1>4, <1>5, <1>7, <1>8, <1>9 DEF IInv, OneVoice
  <1>11. \A u, v \in Threads : Serves(u, v)' <=> Serves(u, v)
    BY <1>2, <1>3, JobKinds DEF Serves
  <1>12. OneServer'
    <2>1. \A u, v \in Threads : Serves(u, v) => (u = w /\ v = t) \/ (u # w /\ v # t)
      BY <1>2, Zenon DEF Serves
    <2>2. link[t].client = "open" /\ job'[w].kind = "read"
      BY <1>2, <1>8, ServedLink, Zenon
    <2>3. \A u, v \in Threads : Serves(u, v)' =>
            /\ link'[v].client = "open"
            /\ job'[u].kind = "read" => link'[v].server = "held"
            /\ job'[u].kind = "exec" => link'[v].server = "busy"
      BY <1>3, <1>4, <1>11, <2>1, <2>2 DEF IInv, OneServer
    <2>4. \A u, x, v \in Threads : Serves(u, v)' /\ Serves(x, v)' => u = x
      BY <1>11, Zenon DEF IInv, OneServer
    <2> QED
      BY <2>3, <2>4, Zenon DEF OneServer
  <1>13. OneEntry'
    BY <1>2, <1>4, <1>5, QueuesKept, Zenon DEF IInv
  <1>14. \A u, v \in Threads : Keeps(u, v)' => (Keeps(u, v) /\ v # t) \/ (u = w /\ v = t)
    BY <1>2, <1>3, <1>8, JobKinds DEF Keeps, Serves
  <1>15. WithinLease'
    BY <1>2, <1>4, <1>7, <1>9, <1>14 DEF IInv, WithinLease
  <1> QED
    BY <1>6, <1>10, <1>12, <1>13, <1>15, Zenon DEF IInv

\* An error is an answer too, and the last one of the connection.
LEMMA SendErrorIInv ==
  ASSUME IInv, NEW w \in Threads, SendError(w)
  PROVE  IInv'
  <1> DEFINE t == job[w].from
  <1>1. TypeOK
    BY Zenon DEF IInv
  <1>2. /\ job[w].kind = "exec" /\ t \in Threads
        /\ link[t].server = "busy" /\ \A u \in Threads : Serves(u, t) => u = w
    BY ServedLink, Zenon DEF SendError
  <1>3. /\ job' \in [Threads -> Jobs] /\ job'[w] = Free
        /\ \A u \in Threads \ {w} : job'[u] = job[u]
    BY <1>1, <1>2, JobValues, JobFields, LinkFields, Zenon DEF SendError, TypeOK
  <1>4. /\ link' \in [Threads -> Links]
        /\ \A u \in Threads \ {t} : link'[u] = link[u]
        /\ link'[t].req = link[t].req /\ link'[t].reply = job[w].no
        /\ link'[t].server = "closing"
    <2> DEFINE l == [link[t] EXCEPT !.reply = job[w].no, !.replyAge = 0, !.server = "closing"]
    <2>1. link[t] \in Links
      BY <1>1, <1>2, LinkFields, Zenon
    <2>2. l \in Links
      BY <1>1, <1>2, <2>1, JobFields, LinkRefused, Zenon
    <2>3. link' = [link EXCEPT ![t] = l]
      BY Zenon DEF SendError
    <2>4. l.req = link[t].req /\ l.reply = job[w].no /\ l.server = "closing"
      BY <2>1, Zenon DEF Links
    <2> HIDE DEF l
    <2> QED
      BY <1>1, <1>2, <2>2, <2>3, <2>4, Zenon DEF TypeOK
  <1>5. UNCHANGED <<phase, queue, made, generations>>
    BY Zenon DEF SendError
  <1>6. TypeOK'
    BY <1>1, <1>3, <1>4, <1>5, Zenon DEF TypeOK
  <1>7. /\ job[t].kind = "call" /\ job[w].no = made[t]
        /\ link[t].req = 0 /\ t # w /\ \A u \in Threads : Executes(u, t) => u = w
    <2>1. Executes(w, t)
      BY <1>2, Zenon DEF Executes
    <2> QED
      BY <1>2, <2>1, Zenon DEF IInv, OneVoice
  <1>8. /\ \A u, v \in Threads : Executes(u, v)' <=> Executes(u, v) /\ u # w
        /\ \A u \in Threads \ {w} : job'[u].no = job[u].no
    BY <1>2, <1>3, JobKinds DEF Executes
  <1>9. \A v \in Threads : job'[v].kind = "call" <=> job[v].kind = "call"
    BY <1>2, <1>3, JobKinds
  <1>10. OneVoice'
    BY <1>2, <1>4, <1>5, <1>7, <1>8, <1>9 DEF IInv, OneVoice
  <1>11. \A u, v \in Threads : /\ Serves(u, v)' <=> Serves(u, v) /\ v # t
                               /\ Serves(u, v)' => job'[u] = job[u]
    BY <1>2, <1>3, JobKinds, Zenon DEF Serves
  <1>12. OneServer'
    BY <1>2, <1>4, <1>11 DEF IInv, OneServer
  <1>13. OneEntry'
    BY <1>2, <1>4, <1>5, QueuesKept, Zenon DEF IInv
  <1>14. \A u, v \in Threads : Keeps(u, v)' => Keeps(u, v) /\ v # t
    BY <1>11 DEF Keeps, Serves
  <1>15. WithinLease'
    BY <1>2, <1>4, <1>9, <1>14 DEF IInv, WithinLease
  <1> QED
    BY <1>6, <1>10, <1>12, <1>13, <1>15, Zenon DEF IInv

\* The peer gives a connection up only when its client will not use it again.
LEMMA IdleTimeoutIInv ==
  ASSUME IInv, NEW w \in Threads, IdleTimeout(w)
  PROVE  IInv'
  <1> DEFINE t == job[w].from
  <1>1. TypeOK
    BY Zenon DEF IInv
  <1>2. /\ job[w].kind = "read" /\ job[w].kept /\ t \in Threads /\ link[t].idle >= Idle
        /\ link[t].server = "held" /\ \A u \in Threads : Serves(u, t) => u = w
    BY ServedLink, Zenon DEF IdleTimeout
  <1>3. /\ job' \in [Threads -> Jobs] /\ job'[w] = Free
        /\ \A u \in Threads \ {w} : job'[u] = job[u]
    BY <1>1, <1>2, JobValues, JobFields, LinkFields, Zenon DEF IdleTimeout, TypeOK
  <1>4. /\ link' \in [Threads -> Links]
        /\ \A u \in Threads \ {t} : link'[u] = link[u]
        /\ link'[t].req = link[t].req /\ link'[t].reply = link[t].reply
        /\ link'[t].used = link[t].used /\ link'[t].server = "expired"
    <2>1. link[t] \in Links
      BY <1>1, <1>2, LinkFields, Zenon
    <2> QED
      BY <1>1, <1>2, <2>1, Bounds, JobFields, ZenonT(40) DEF IdleTimeout, TypeOK, Links
  <1>5. UNCHANGED <<phase, queue, made, generations>>
    BY Zenon DEF IdleTimeout
  <1>6. TypeOK'
    BY <1>1, <1>3, <1>4, <1>5, Zenon DEF TypeOK
  <1>7. /\ link[t].reply = 0 /\ link[t].req = 0
        /\ job[t].kind # "call" /\ link[t].used >= Lease
    <2>1. /\ link[t].reply # 0 => link[t].idle <= link[t].replyAge
          /\ link[t].req # 0 => link[t].idle <= Delay + Lease - 1 + link[t].reqAge
          /\ link[t].req = 0 /\ link[t].reply = 0 =>
                /\ job[t].kind # "call"
                /\ link[t].idle <= Delay + link[t].used \/ link[t].used >= Lease
      BY <1>2, Zenon DEF IInv, WithinLease, Keeps
    <2>2. /\ link[t].req \in Nat /\ link[t].reply \in Nat
          /\ link[t].reqAge \in 0..Delay /\ link[t].replyAge \in 0..Delay
          /\ link[t].used \in 0..Lease /\ link[t].idle \in 0..Idle
      BY <1>1, <1>2, LinkFields, Zenon
    <2> QED
      BY <1>2, <2>1, <2>2, Bounds
  <1>8. /\ \A u, v \in Threads : Executes(u, v)' <=> Executes(u, v)
        /\ \A u, v \in Threads : Executes(u, v) => job'[u].no = job[u].no
    BY <1>2, <1>3, JobKinds DEF Executes
  <1>9. \A v \in Threads : job'[v].kind = "call" <=> job[v].kind = "call"
    BY <1>2, <1>3, JobKinds
  <1>10. OneVoice'
    BY <1>2, <1>4, <1>5, <1>8, <1>9 DEF IInv, OneVoice
  <1>11. \A u, v \in Threads : /\ Serves(u, v)' <=> Serves(u, v) /\ v # t
                               /\ Serves(u, v)' => job'[u] = job[u]
    BY <1>2, <1>3, JobKinds DEF Serves
  <1>12. OneServer'
    BY <1>2, <1>4, <1>11 DEF IInv, OneServer
  <1>13. OneEntry'
    BY <1>2, <1>4, <1>5, QueuesKept, Zenon DEF IInv
  <1>14. \A u, v \in Threads : Keeps(u, v)' => Keeps(u, v) /\ v # t
    BY <1>11, Zenon DEF Keeps, Serves
  <1>15. WithinLease'
    BY <1>2, <1>4, <1>7, <1>9, <1>14 DEF IInv, WithinLease
  <1> QED
    BY <1>6, <1>10, <1>12, <1>13, <1>15, Zenon DEF IInv

-------------------------------------------------------------------------------
\* Where a thread is.
LEMMA ThreadNode == \A w \in Threads : Node(w) \in Nodes
  BY DEF Threads, Node

\* The steps in which a thread ends one job without a connection of its own.
LEMMA FinishIInv ==
  ASSUME IInv, NEW w \in Threads, FinishDead(w) \/ FinishGeneration(w) \/ WorkerReturns(w)
  PROVE  IInv'
  <1>1. TypeOK
    BY Zenon DEF IInv
  <1>2. PICK new \in {Free, Gone} : job' = [job EXCEPT ![w] = new]
    BY Zenon DEF FinishDead, FinishGeneration, WorkerReturns
  <1>3. UNCHANGED <<phase, queue, link, made, generations>>
    BY Zenon DEF FinishDead, FinishGeneration, WorkerReturns
  <1>4. job[w].kind \notin {"call", "read", "exec"}
    BY JobKinds, Zenon DEF FinishDead, FinishGeneration, WorkerReturns
  <1>5. new \in Jobs /\ new.kind \notin {"call", "read", "exec"}
    BY JobValues, JobKinds, Zenon
  <1>6. job' \in [Threads -> Jobs] /\ job'[w] = new /\ \A u \in Threads \ {w} : job'[u] = job[u]
    BY <1>1, <1>2, <1>5, Zenon DEF TypeOK
  <1>7. TypeOK'
    BY <1>1, <1>3, <1>6, Zenon DEF TypeOK
  <1>8. OneVoice' /\ OneServer' /\ WithinLease'
    BY <1>3, <1>4, <1>5, <1>6, QuietIInv, Zenon
  <1>9. OneEntry'
    BY <1>3, QueuesKept, Zenon DEF IInv
  <1> QED
    BY <1>7, <1>8, <1>9, Zenon DEF IInv

\* A generation joins the queue while there is room.
LEMMA AcceptGenerationIInv ==
  ASSUME IInv, NEW n \in Nodes, AcceptGeneration(n)
  PROVE  IInv'
  <1>1. TypeOK
    BY Zenon DEF IInv
  <1>2. UNCHANGED <<phase, job, link, made>>
    BY Zenon DEF AcceptGeneration
  <1>3. OneVoice' /\ OneServer' /\ WithinLease'
    BY <1>2, QuietIInv, Zenon
  <1>4. generations' \in [Nodes -> 0..MaxGenerations]
    BY <1>1, Bounds DEF AcceptGeneration, TypeOK
  <1>5. CASE queue' = queue
    BY <1>1, <1>2, <1>3, <1>4, <1>5, QueuesKept, Zenon DEF IInv, TypeOK
  <1>6. CASE /\ Len(queue[n]) < QueueCapacity
             /\ queue' = [queue EXCEPT ![n] = Append(@, GenerationClient)]
    <2>1. queue[n] \in Seq(Clients) /\ GenerationClient \in Clients /\ Len(queue[n]) \in Nat
      BY <1>1 DEF TypeOK, Clients
    <2>2. /\ queue' \in [Nodes -> Seq(Clients)] /\ Len(queue'[n]) = Len(queue[n]) + 1
          /\ \A i \in 1..Len(queue[n]) : queue'[n][i] = queue[n][i]
          /\ queue'[n][Len(queue[n]) + 1] = GenerationClient
          /\ \A m \in Nodes \ {n} : queue'[m] = queue[m]
      BY <1>1, <1>6, <2>1 DEF TypeOK
    <2>3. TypeOK'
      BY <1>1, <1>2, <1>4, <1>6, <2>1, <2>2, Bounds DEF TypeOK
    <2>4. \A m \in Nodes : \A i \in 1..Len(queue'[m]) : \A t \in Threads :
             Waits(m, i, t)' => i \in 1..Len(queue[m]) /\ Waits(m, i, t)
      <3> SUFFICES ASSUME NEW m \in Nodes, NEW i \in 1..Len(queue'[m]), NEW t \in Threads,
                          Waits(m, i, t)'
                   PROVE  i \in 1..Len(queue[m]) /\ Waits(m, i, t)
        BY Zenon
      <3>1. CASE m # n
        BY <3>1, <2>2, Zenon DEF Waits
      <3>2. CASE m = n /\ i = Len(queue[n]) + 1
        BY <3>2, <2>2 DEF Waits, GenerationClient
      <3>3. CASE m = n /\ i # Len(queue[n]) + 1
        BY <3>3, <2>1, <2>2 DEF Waits
      <3> QED
        BY <3>1, <3>2, <3>3, Zenon
    <2>5. OneEntry'
      BY <1>2, <2>4 DEF IInv, OneEntry
    <2> QED
      BY <1>3, <2>3, <2>5, Zenon DEF IInv
  <1> QED
    BY <1>5, <1>6, Zenon DEF AcceptGeneration

\* The steps that fail a call.
LEMMA CallFailsIInv ==
  ASSUME IInv, NEW t \in Threads, CallBroken(t) \/ CallTimeout(t)
  PROVE  IInv'
  <1>1. TypeOK
    BY Zenon DEF IInv
  <1>2. job[t].kind = "call" /\ FailCall(t) /\ UNCHANGED <<phase, made, generations>>
    BY Zenon DEF CallBroken, CallTimeout
  <1>3. job[t].left \in 1..Calls
    BY <1>1, <1>2, JobFields, Zenon
  <1>4. made' \in [Threads -> Nat]
    BY <1>1, <1>2, Zenon DEF TypeOK
  <1> QED
    BY <1>2, <1>3, <1>4, FailCallIInv, Zenon

\* A thread takes the first client of the queue; a stage connection moves from
\* the queue to the thread.
LEMMA TakeClientIInv ==
  ASSUME IInv, NEW w \in Threads, TakeClient(w)
  PROVE  IInv'
  <1> DEFINE n == Node(w)
             client == Head(queue[n])
  <1>1. TypeOK
    BY Zenon DEF IInv
  <1>2. /\ n \in Nodes /\ job[w] = Free /\ queue[n] # <<>>
        /\ queue' = [queue EXCEPT ![n] = Tail(@)] /\ UNCHANGED <<phase, made, generations>>
    BY ThreadNode, Zenon DEF TakeClient
  <1>3. queue[n] \in Seq(Clients) /\ Len(queue[n]) \in Nat /\ Len(queue[n]) > 0
    BY <1>1, <1>2 DEF TypeOK
  <1>4. /\ client = queue[n][1] /\ client \in Clients
        /\ Tail(queue[n]) \in Seq(Clients) /\ Len(Tail(queue[n])) = Len(queue[n]) - 1
        /\ \A i \in 1..(Len(queue[n]) - 1) : Tail(queue[n])[i] = queue[n][i + 1]
    BY <1>2, <1>3
  <1>5. /\ queue' \in [Nodes -> Seq(Clients)] /\ queue'[n] = Tail(queue[n])
        /\ \A m \in Nodes \ {n} : queue'[m] = queue[m]
    BY <1>1, <1>2, <1>4, Zenon DEF TypeOK
  <1>6. \A m \in Nodes : Len(queue'[m]) <= QueueCapacity
    <2>1. \A m \in Nodes : Len(queue[m]) <= QueueCapacity
      BY <1>1, Zenon DEF TypeOK
    <2>2. Len(queue'[n]) <= QueueCapacity
      BY <1>2, <1>3, <1>4, <1>5, <2>1, Bounds
    <2> QED
      BY <1>5, <2>1, <2>2, Zenon
  <1> DEFINE old(m, i) == IF m = n THEN i + 1 ELSE i
  <1>7. \A m \in Nodes : \A i \in 1..Len(queue'[m]) :
          /\ old(m, i) \in 1..Len(queue[m]) /\ ~(m = n /\ old(m, i) = 1)
          /\ \A t \in Threads : Waits(m, i, t)' <=> Waits(m, old(m, i), t)
    <2> SUFFICES ASSUME NEW m \in Nodes, NEW i \in 1..Len(queue'[m])
                 PROVE  /\ old(m, i) \in 1..Len(queue[m]) /\ ~(m = n /\ old(m, i) = 1)
                        /\ \A t \in Threads : Waits(m, i, t)' <=> Waits(m, old(m, i), t)
      BY Zenon
    <2>1. CASE m = n
      <3>1. i \in 1..(Len(queue[n]) - 1)
        BY <2>1, <1>3, <1>4, <1>5, Zenon
      <3>2. i + 1 \in 1..Len(queue[n]) /\ i + 1 # 1 /\ queue'[m][i] = queue[m][i + 1]
        BY <3>1, <2>1, <1>3, <1>4, <1>5
      <3> QED
        BY <3>2, <2>1, Zenon DEF Waits
    <2>2. CASE m # n
      BY <2>2, <1>5, Zenon DEF Waits
    <2> QED
      BY <2>1, <2>2, Zenon
  <1>8. \A m, x \in Nodes : \A i \in 1..Len(queue'[m]), j \in 1..Len(queue'[x]) :
           m = x /\ old(m, i) = old(x, j) => i = j
    <2> SUFFICES ASSUME NEW m \in Nodes, NEW i \in 1..Len(queue'[m]),
                        NEW j \in 1..Len(queue'[m]), old(m, i) = old(m, j)
                 PROVE  i = j
      BY Zenon
    <2>1. i \in Int /\ j \in Int
      BY <1>5
    <2> QED
      BY <2>1
  <1>8a. \A m, x \in Nodes : \A i \in 1..Len(queue'[m]), j \in 1..Len(queue'[x]) :
           \A v \in Threads : Waits(m, i, v)' /\ Waits(x, j, v)' => m = x /\ i = j
    <2> SUFFICES ASSUME NEW m \in Nodes, NEW x \in Nodes, NEW i \in 1..Len(queue'[m]),
                        NEW j \in 1..Len(queue'[x]), NEW v \in Threads,
                        Waits(m, i, v)', Waits(x, j, v)'
                 PROVE  m = x /\ i = j
      BY Zenon
    <2> HIDE DEF old
    <2>1. /\ old(m, i) \in 1..Len(queue[m]) /\ old(x, j) \in 1..Len(queue[x])
          /\ Waits(m, old(m, i), v) /\ Waits(x, old(x, j), v)
      BY <1>7, Zenon
    <2>2. m = x /\ old(m, i) = old(x, j)
      BY <2>1, Zenon DEF IInv, OneEntry
    <2> QED
      BY <1>8, <2>2, Zenon
  <1>9. CASE client.kind = "stage" /\ job' = [job EXCEPT ![w] = Reading(client.from, FALSE)]
             /\ link' = [link EXCEPT ![client.from] = [@ EXCEPT !.server = "held"]]
    <2> DEFINE t == client.from
    <2>1. t \in Threads
      BY <1>4, <1>9 DEF Clients, GenerationClient, DeadClient
    <2>2. 1 \in 1..Len(queue[n]) /\ Waits(n, 1, t)
      BY <1>3, <1>4, <1>9 DEF Waits
    <2>3. link[t].server = "queued" /\ link[t].client = "open"
      BY <1>2, <2>1, <2>2, Zenon DEF IInv, OneEntry
    <2>4. /\ \A u \in Threads : ~Serves(u, t)
      BY <2>1, <2>3, Zenon DEF IInv, OneServer, Serves
    <2>5. /\ link' \in [Threads -> Links] /\ \A u \in Threads \ {t} : link'[u] = link[u]
          /\ link'[t].server = "held" /\ link'[t].client = "open"
          /\ link'[t].req = link[t].req /\ link'[t].reply = link[t].reply
      BY <1>1, <1>9, <2>1, <2>3, LinkFields, ZenonT(40) DEF TypeOK, Links
    <2>6. /\ job' \in [Threads -> Jobs] /\ \A u \in Threads \ {w} : job'[u] = job[u]
          /\ job'[w].kind = "read" /\ job'[w].from = t /\ ~job'[w].kept
      <3>1. Reading(t, FALSE) \in Jobs
        BY <2>1, JobValues, Zenon
      <3>2. /\ Reading(t, FALSE).kind = "read" /\ Reading(t, FALSE).from = t
            /\ ~Reading(t, FALSE).kept
        BY Zenon DEF Reading
      <3> QED
        BY <1>1, <1>9, <3>1, <3>2, Zenon DEF TypeOK
    <2>7. TypeOK'
      BY <1>1, <1>2, <1>5, <1>6, <2>5, <2>6, Zenon DEF TypeOK
    <2>8. job[w].kind = "free"
      BY <1>2, JobKinds, Zenon
    <2>9. /\ \A u, v \in Threads : Executes(u, v)' <=> Executes(u, v)
          /\ \A u, v \in Threads : Executes(u, v) => job'[u].no = job[u].no
          /\ \A v \in Threads : job'[v].kind = "call" <=> job[v].kind = "call"
      BY <2>6, <2>8, Zenon DEF Executes
    <2>10. \A v \in Threads : link'[v].req = link[v].req /\ link'[v].reply = link[v].reply
      BY <2>5, Zenon
    <2>11. OneVoice'
      BY <1>2, <2>9, <2>10 DEF IInv, OneVoice
    <2>12. \A u, v \in Threads : /\ Serves(u, v)' => (Serves(u, v) /\ u # w /\ v # t)
                                                     \/ (u = w /\ v = t)
      BY <2>4, <2>6, <2>8, Zenon DEF Serves
    <2>13. OneServer'
      <3>1. \A u, v \in Threads : Serves(u, v)' =>
              /\ link'[v].client = "open"
              /\ job'[u].kind = "read" => link'[v].server = "held"
              /\ job'[u].kind = "exec" => link'[v].server = "busy"
        BY <2>5, <2>6, <2>12 DEF IInv, OneServer
      <3>2. \A u, x, v \in Threads : Serves(u, v)' /\ Serves(x, v)' => u = x
        BY <2>12, Zenon DEF IInv, OneServer
      <3> QED
        BY <3>1, <3>2, Zenon DEF OneServer
    <2>14. OneEntry'
      <3>1. \A m \in Nodes : \A i \in 1..Len(queue'[m]) : \A v \in Threads :
              Waits(m, i, v)' => v # t
        BY <1>2, <1>7, <2>1, <2>2 DEF IInv, OneEntry
      <3>2. \A m \in Nodes : \A i \in 1..Len(queue'[m]) : \A v \in Threads :
              Waits(m, i, v)' => link'[v].server = "queued" /\ link'[v].client = "open"
        BY <1>7, <2>5, <3>1 DEF IInv, OneEntry
      <3> QED
        BY <1>8a, <3>2, Zenon DEF OneEntry
    <2>15. \A u, v \in Threads : Keeps(u, v)' => Keeps(u, v) /\ v # t
      BY <2>4, <2>6, Zenon DEF Keeps, Serves
    <2>16. WithinLease'
      BY <2>5, <2>9, <2>15, ZenonT(40) DEF IInv, WithinLease
    <2> QED
      BY <2>7, <2>11, <2>13, <2>14, <2>16, Zenon DEF IInv
  <1>10. ASSUME NEW new \in {Generating(Calls), Dead}, job' = [job EXCEPT ![w] = new],
                UNCHANGED link
         PROVE  IInv'
    <2>1. new \in Jobs /\ new.kind \notin {"call", "read", "exec"}
      <3>1. Calls \in 0..Calls
        BY Bounds
      <3> QED
        BY <3>1, JobValues, JobKinds, Zenon
    <2>2. job' \in [Threads -> Jobs] /\ job'[w] = new /\ \A u \in Threads \ {w} : job'[u] = job[u]
      BY <1>1, <1>10, <2>1, Zenon DEF TypeOK
    <2>3. TypeOK'
      BY <1>1, <1>2, <1>5, <1>6, <1>10, <2>2, Zenon DEF TypeOK
    <2>4. job[w].kind = "free"
      BY <1>2, JobKinds, Zenon
    <2>5. OneVoice' /\ OneServer' /\ WithinLease'
      BY <1>2, <1>10, <2>1, <2>2, <2>4, QuietIInv, Zenon
    <2>6. OneEntry'
      <3>1. \A m \in Nodes : \A i \in 1..Len(queue'[m]) : \A v \in Threads :
              Waits(m, i, v)' => link'[v].server = "queued" /\ link'[v].client = "open"
        BY <1>7, <1>10 DEF IInv, OneEntry
      <3> QED
        BY <1>8a, <3>1, Zenon DEF OneEntry
    <2> QED
      BY <2>3, <2>5, <2>6, Zenon DEF IInv
  <1> QED
    BY <1>9, <1>10, Zenon DEF TakeClient

-------------------------------------------------------------------------------
\* A thread that is about to call has nothing on its connection.
LEMMA NothingSent ==
  ASSUME IInv, NEW t \in Threads, job[t].kind = "gen"
  PROVE  link[t].req = 0 /\ link[t].reply = 0 /\ \A u \in Threads : ~Executes(u, t)
  BY Zenon DEF IInv, OneVoice

\* A call on a kept connection: the lease bounds how long the peer has waited.
LEMMA InvokeKeptIInv ==
  ASSUME IInv, NEW t \in Threads, InvokeKept(t)
  PROVE  IInv'
  <1>1. TypeOK
    BY Zenon DEF IInv
  <1>2. /\ job[t].kind = "gen" /\ job[t].left > 0 /\ link[t].used < Lease
        /\ made' = [made EXCEPT ![t] = @ + 1] /\ UNCHANGED <<phase, generations>>
    BY Zenon DEF InvokeKept, Usable
  <1>3. job[t].left \in 1..Calls
    BY <1>1, <1>2, JobFields, Bounds
  <1>4. /\ made' \in [Threads -> Nat] /\ made[t] \in Nat /\ made'[t] = made[t] + 1
        /\ \A u \in Threads \ {t} : made'[u] = made[u]
    BY <1>1, <1>2 DEF TypeOK
  <1>5. CASE FailCall(t)
    BY <1>2, <1>3, <1>4, <1>5, FailCallIInv, Zenon
  <1>6. CASE /\ link[t].client = "open"
             /\ link' = [link EXCEPT ![t] = [@ EXCEPT !.req = made'[t], !.reqAge = 0]]
             /\ job' = [job EXCEPT ![t] = Calling(job[t].left)] /\ UNCHANGED queue
    <2> DEFINE l == [link[t] EXCEPT !.req = made'[t], !.reqAge = 0]
    <2>1. link[t] \in Links
      BY <1>1, LinkFields, Zenon
    <2>2. l \in Links
      BY <1>4, <2>1, LinkAsked, Zenon
    <2>3. /\ l.req = made'[t] /\ l.reqAge = 0 /\ l.reply = link[t].reply /\ l.idle = link[t].idle
          /\ l.server = link[t].server /\ l.client = link[t].client
      BY <2>1, Zenon DEF Links
    <2>4. link' = [link EXCEPT ![t] = l]
      BY <1>6, Zenon
    <2> HIDE DEF l
    <2>5. /\ link' \in [Threads -> Links] /\ link'[t] = l
          /\ \A u \in Threads \ {t} : link'[u] = link[u]
      BY <1>1, <2>2, <2>4, Zenon DEF TypeOK
    <2>6. /\ job' \in [Threads -> Jobs] /\ job'[t].kind = "call"
          /\ \A u \in Threads \ {t} : job'[u] = job[u]
      BY <1>1, <1>3, <1>6, JobValues, JobKinds, Zenon DEF TypeOK
    <2>7. TypeOK'
      BY <1>1, <1>2, <1>4, <1>6, <2>5, <2>6, Zenon DEF TypeOK
    <2>8. link[t].req = 0 /\ link[t].reply = 0 /\ \A u \in Threads : ~Executes(u, t)
      BY <1>2, NothingSent, Zenon
    <2>9. /\ \A u, v \in Threads : Executes(u, v)' <=> Executes(u, v)
          /\ \A u, v \in Threads : Executes(u, v) => job'[u].no = job[u].no
      BY <1>2, <2>6, Zenon DEF Executes
    <2>10. OneVoice'
      BY <1>4, <2>3, <2>5, <2>6, <2>8, <2>9 DEF IInv, OneVoice
    <2>11. \A u, v \in Threads : /\ Serves(u, v)' <=> Serves(u, v)
                                 /\ Serves(u, v) => job'[u] = job[u]
      BY <1>2, <2>6, Zenon DEF Serves
    <2>12. \A v \in Threads : link'[v].client = link[v].client /\ link'[v].server = link[v].server
      BY <2>3, <2>5, Zenon
    <2>13. OneServer'
      BY <2>11, <2>12 DEF IInv, OneServer
    <2>14. OneEntry'
      BY <1>6, <2>12, QueuesKept, Zenon DEF IInv
    <2>15. \A u, v \in Threads : Keeps(u, v)' <=> Keeps(u, v)
      BY <1>2, <2>6, Zenon DEF Keeps
    <2>16. /\ link[t].used \in 0..Lease /\ link[t].idle \in 0..Idle
      BY <1>1, LinkFields, Zenon
    <2>17. \A u \in Threads : Keeps(u, t) => link[t].idle <= Delay + Lease - 1 + 0
      <3> SUFFICES ASSUME NEW u \in Threads, Keeps(u, t)
                   PROVE  link[t].idle <= Delay + Lease - 1 + 0
        BY Zenon
      <3>1. link[t].idle <= Delay + link[t].used \/ link[t].used >= Lease
        BY <2>8, Zenon DEF IInv, WithinLease
      <3> QED
        BY <1>2, <2>16, <3>1, Bounds
    <2>18. link[t].server # "expired"
      <3>1. ~(link[t].used >= Lease)
        BY <1>2, <2>16, Bounds
      <3> QED
        BY <3>1, Zenon DEF IInv, WithinLease
    <2>19. made'[t] # 0
      BY <1>4
    <2>20. WithinLease'
      BY <2>3, <2>5, <2>6, <2>8, <2>15, <2>17, <2>18, <2>19 DEF IInv, WithinLease
    <2> QED
      BY <2>7, <2>10, <2>13, <2>14, <2>20, Zenon DEF IInv
  <1> QED
    BY <1>5, <1>6, Zenon DEF InvokeKept

\* An answer that is read leaves the connection empty and its lease new.
LEMMA ReceiveIInv ==
  ASSUME IInv, NEW t \in Threads, Receive(t)
  PROVE  IInv'
  <1>1. TypeOK
    BY Zenon DEF IInv
  <1>2. /\ job[t].kind = "call" /\ link[t].reply # 0
        /\ UNCHANGED <<phase, made, generations>>
    BY Zenon DEF Receive
  <1>3. job[t].left \in 1..Calls
    BY <1>1, <1>2, JobFields, Zenon
  <1>4. CASE FailCall(t)
    BY <1>1, <1>2, <1>3, <1>4, FailCallIInv, Zenon DEF TypeOK
  <1>5. ASSUME link' = [link EXCEPT ![t] = [@ EXCEPT !.reply = 0, !.used = 0]], UNCHANGED queue,
               NEW new \in Answered(job[t].left), job' = [job EXCEPT ![t] = new]
        PROVE  IInv'
    <2> DEFINE l == [link[t] EXCEPT !.reply = 0, !.used = 0]
    <2>1. link[t] \in Links
      BY <1>1, LinkFields, Zenon
    <2>2. l \in Links
      BY <2>1, LinkReceived, Zenon
    <2>3. /\ l.req = link[t].req /\ l.reply = 0 /\ l.used = 0 /\ l.idle = link[t].idle
          /\ l.server = link[t].server /\ l.client = link[t].client
      BY <2>1, Zenon DEF Links
    <2>4. link' = [link EXCEPT ![t] = l]
      BY <1>5, Zenon
    <2> HIDE DEF l
    <2>5. /\ link' \in [Threads -> Links] /\ link'[t] = l
          /\ \A u \in Threads \ {t} : link'[u] = link[u]
      BY <1>1, <2>2, <2>4, Zenon DEF TypeOK
    <2>6. new \in Jobs /\ new.kind = "gen"
      <3>1. job[t].left - 1 \in 0..Calls
        BY <1>3, Bounds
      <3> QED
        BY <1>3, <1>5, <3>1, JobValues, JobKinds, AfterFailureJob DEF Answered
    <2>7. /\ job' \in [Threads -> Jobs] /\ job'[t].kind = "gen"
          /\ \A u \in Threads \ {t} : job'[u] = job[u]
      BY <1>1, <1>5, <2>6, Zenon DEF TypeOK
    <2>8. TypeOK'
      BY <1>1, <1>2, <1>5, <2>5, <2>7, Zenon DEF TypeOK
    <2>9. link[t].req = 0 /\ \A u \in Threads : ~Executes(u, t)
      BY <1>2, Zenon DEF IInv, OneVoice
    <2>10. /\ \A u, v \in Threads : Executes(u, v)' <=> Executes(u, v)
           /\ \A u, v \in Threads : Executes(u, v) => job'[u].no = job[u].no
      BY <1>2, <2>7, Zenon DEF Executes
    <2>11. OneVoice'
      BY <1>2, <2>3, <2>5, <2>7, <2>9, <2>10 DEF IInv, OneVoice
    <2>12. \A u, v \in Threads : /\ Serves(u, v)' <=> Serves(u, v)
                                 /\ Serves(u, v) => job'[u] = job[u]
      BY <1>2, <2>7, Zenon DEF Serves
    <2>13. \A v \in Threads : link'[v].client = link[v].client /\ link'[v].server = link[v].server
      BY <2>3, <2>5, Zenon
    <2>14. OneServer'
      BY <2>12, <2>13 DEF IInv, OneServer
    <2>15. OneEntry'
      BY <1>5, <2>13, QueuesKept, Zenon DEF IInv
    <2>16. \A u, v \in Threads : Keeps(u, v)' <=> Keeps(u, v)
      BY <1>2, <2>7, Zenon DEF Keeps
    <2>17. \A u \in Threads : Keeps(u, t) => link[t].idle <= Delay + 0
      <3> SUFFICES ASSUME NEW u \in Threads, Keeps(u, t)
                   PROVE  link[t].idle <= Delay + 0
        BY Zenon
      <3>1. link[t].idle <= link[t].replyAge
        BY <1>2, Zenon DEF IInv, WithinLease
      <3>2. link[t].replyAge \in 0..Delay /\ link[t].idle \in 0..Idle
        BY <1>1, LinkFields, Zenon
      <3> QED
        BY <3>1, <3>2, Bounds
    <2>18. link[t].server # "expired"
      BY <1>2, Zenon DEF IInv, WithinLease
    <2>19. WithinLease'
      <3>1. /\ link'[t].req = 0 /\ link'[t].reply = 0 /\ link'[t].used = 0
            /\ link'[t].idle = link[t].idle /\ link'[t].server # "expired"
        BY <2>3, <2>5, <2>9, <2>18, Zenon
      <3>2. \A v \in Threads \ {t} : link'[v] = link[v] /\ job'[v].kind = job[v].kind
        BY <2>5, <2>7, Zenon
      <3>3. job'[t].kind # "call"
        BY <2>7, Zenon
      <3> QED
        BY <2>16, <2>17, <3>1, <3>2, <3>3 DEF IInv, WithinLease
    <2> QED
      BY <2>8, <2>11, <2>14, <2>15, <2>19, Zenon DEF IInv
  <1> QED
    BY <1>4, <1>5, Zenon DEF Receive

\* A call on a new connection: nothing of the old one is left, here or there.
LEMMA InvokeDialledIInv ==
  ASSUME IInv, NEW t \in Threads, InvokeDialled(t)
  PROVE  IInv'
  <1> DEFINE p == Peer(Node(t))
             cleared == QueueWithout({t})
  <1>1. TypeOK
    BY Zenon DEF IInv
  <1>2. /\ job[t].kind = "gen" /\ job[t].left > 0
        /\ made' = [made EXCEPT ![t] = @ + 1] /\ UNCHANGED <<phase, generations>>
    BY Zenon DEF InvokeDialled
  <1>3. job[t].left \in 1..Calls
    BY <1>1, <1>2, JobFields, Bounds
  <1>4. /\ made' \in [Threads -> Nat] /\ made[t] \in Nat /\ made'[t] = made[t] + 1
        /\ \A u \in Threads \ {t} : made'[u] = made[u]
    BY <1>1, <1>2 DEF TypeOK
  <1>5. CASE FailCall(t)
    BY <1>2, <1>3, <1>4, <1>5, FailCallIInv, Zenon
  <1>6. CASE /\ Len(cleared[p]) < QueueCapacity
             /\ link' = [link EXCEPT ![t] = Sent(made'[t])]
             /\ queue' = [cleared EXCEPT ![p] = Append(@, StageClient(t))]
             /\ job' = [JobsWithout({t}) EXCEPT ![t] = Calling(job[t].left)]
    <2>1. /\ link' \in [Threads -> Links] /\ \A u \in Threads \ {t} : link'[u] = link[u]
          /\ link'[t].req = made'[t] /\ link'[t].reply = 0
          /\ link'[t].server = "queued" /\ link'[t].client = "open"
      BY <1>1, <1>4, <1>6, NewLinks, Zenon DEF TypeOK
    <2>2. /\ job' \in [Threads -> Jobs] /\ job'[t].kind = "call"
          /\ \A u \in Threads \ {t} : job'[u] = JobsWithout({t})[u]
      BY <1>1, <1>3, <1>6, JobsWithoutServe, JobValues, JobKinds
    <2>3. \A u \in Threads \ {t} :
             \/ job'[u] = job[u] /\ ~Serves(u, t)
             \/ job'[u].kind \notin {"call", "read", "exec"} /\ Serves(u, t)
      BY <1>1, <2>2, JobsWithoutServe, JobKinds DEF Serves
    <2>4. \A u, v \in Threads : /\ Serves(u, v)' <=> Serves(u, v) /\ v # t
                                /\ Serves(u, v)' => job'[u] = job[u] /\ u # t
      BY <1>2, <2>2, <2>3, Zenon DEF Serves
    <2>5. /\ \A u, v \in Threads : Executes(u, v)' <=> Executes(u, v) /\ v # t
          /\ \A u, v \in Threads : Executes(u, v)' => job'[u].no = job[u].no
      BY <2>4, Zenon DEF Serves, Executes
    <2>6. \A v \in Threads \ {t} : job'[v].kind = "call" <=> job[v].kind = "call"
      BY <2>3, Zenon DEF Serves
    <2>7. OneVoice'
      BY <1>4, <2>1, <2>2, <2>5, <2>6 DEF IInv, OneVoice
    <2>8. OneServer'
      BY <2>1, <2>4 DEF IInv, OneServer
    <2>9. \A u, v \in Threads : Keeps(u, v)' <=> Keeps(u, v) /\ v # t
      BY <2>4 DEF Serves, Keeps
    <2>10. WithinLease'
      BY <2>1, <2>6, <2>9 DEF IInv, WithinLease
    <2>11. /\ cleared \in [Nodes -> Seq(Clients)]
           /\ \A n \in Nodes : Len(cleared[n]) = Len(queue[n]) /\ Len(queue[n]) \in Nat
           /\ \A n \in Nodes : \A i \in 1..Len(queue[n]) : \A v \in Threads :
                 cleared[n][i].kind = "stage" /\ cleared[n][i].from = v => Waits(n, i, v) /\ v # t
      <3>1. cleared \in [Nodes -> Seq(Clients)]
        BY <1>1, QueueWithoutType, Zenon
      <3>2. \A n \in Nodes : Len(cleared[n]) = Len(queue[n]) /\ Len(queue[n]) \in Nat
        BY <1>1, QueueWithoutMoves DEF TypeOK
      <3>3. \A n \in Nodes : \A i \in 1..Len(queue[n]) : \A v \in Threads :
              cleared[n][i].kind = "stage" /\ cleared[n][i].from = v => Waits(n, i, v) /\ v # t
        BY <1>1, QueueWithoutMoves DEF Waits, DeadClient
      <3> QED
        BY <3>1, <3>2, <3>3, Zenon
    <2> HIDE DEF cleared, p
    <2>12. StageClient(t) \in Clients /\ StageClient(t).from = t /\ StageClient(t).kind = "stage"
      BY Zenon DEF Clients, StageClient
    <2>13. \A n \in Nodes \ {p} : queue'[n] = cleared[n]
      BY <1>6, <2>11, Zenon
    <2>14. p \in Nodes => /\ queue'[p] = Append(cleared[p], StageClient(t))
                          /\ queue'[p] \in Seq(Clients) /\ Len(queue'[p]) = Len(queue[p]) + 1
                          /\ \A i \in 1..Len(queue[p]) : queue'[p][i] = cleared[p][i]
                          /\ queue'[p][Len(queue[p]) + 1] = StageClient(t)
      BY <1>6, <2>11, <2>12
    <2>15. queue' \in [Nodes -> Seq(Clients)]
      <3>1. \A n \in Nodes : queue'[n] \in Seq(Clients)
        BY <2>11, <2>13, <2>14, Zenon
      <3>2. queue' = [n \in Nodes |-> queue'[n]]
        BY <1>6, <2>11, ZenonT(40)
      <3> QED
        BY <3>1, <3>2, Zenon
    <2>16. \A n \in Nodes : Len(queue'[n]) <= QueueCapacity
      <3>1. \A n \in Nodes : Len(queue[n]) <= QueueCapacity
        BY <1>1, Zenon DEF TypeOK
      <3>2. p \in Nodes => Len(queue'[p]) <= QueueCapacity
        BY <1>6, <2>11, <2>14, Bounds
      <3> QED
        BY <2>11, <2>13, <3>1, <3>2, Zenon
    <2>17. TypeOK'
      BY <1>1, <1>2, <1>4, <2>1, <2>2, <2>15, <2>16, Zenon DEF TypeOK
    <2>18. ASSUME NEW n \in Nodes, NEW i \in 1..Len(queue'[n]), NEW v \in Threads, Waits(n, i, v)'
           PROVE  \/ i \in 1..Len(queue[n]) /\ Waits(n, i, v) /\ v # t
                  \/ n = p /\ i = Len(queue[p]) + 1 /\ v = t
      <3>0. queue'[n][i].kind = "stage" /\ queue'[n][i].from = v
        BY <2>18, Zenon DEF Waits
      <3>1. CASE n # p
        BY <3>0, <3>1, <2>11, <2>13, Zenon
      <3>2. CASE n = p /\ i = Len(queue[p]) + 1
        BY <3>0, <3>2, <2>12, <2>14, Zenon
      <3>3. CASE n = p /\ i # Len(queue[p]) + 1
        <4>1. i \in 1..Len(queue[p])
          BY <3>3, <2>11, <2>14
        <4> QED
          BY <4>1, <3>0, <3>3, <2>11, <2>14, Zenon
      <3> QED
        BY <3>1, <3>2, <3>3, Zenon
    <2>19. OneEntry'
      <3>1. \A n \in Nodes : \A i \in 1..Len(queue'[n]) : \A v \in Threads :
              Waits(n, i, v)' => link'[v].server = "queued" /\ link'[v].client = "open"
        BY <2>1, <2>18 DEF IInv, OneEntry
      <3>2. \A n, m \in Nodes : \A i \in 1..Len(queue'[n]), j \in 1..Len(queue'[m]) :
              \A v \in Threads : Waits(n, i, v)' /\ Waits(m, j, v)' => n = m /\ i = j
        BY <2>18 DEF IInv, OneEntry
      <3> QED
        BY <3>1, <3>2, Zenon DEF OneEntry
    <2> QED
      BY <2>7, <2>8, <2>10, <2>17, <2>19, Zenon DEF IInv
  <1> QED
    BY <1>5, <1>6, Zenon DEF InvokeDialled

\* Time passes: the idle time at the peer grows no faster than the age of the
\* message on its way, or than the time the connection is unused.
LEMMA TickIInv ==
  ASSUME IInv, Tick
  PROVE  IInv'
  <1>1. TypeOK
    BY Zenon DEF IInv
  <1>2. UNCHANGED <<phase, queue, job, made, generations>>
    BY Zenon DEF Tick
  <1>3. ASSUME NEW t \in Threads
        PROVE  /\ link'[t] \in Links
               /\ link'[t].client = link[t].client /\ link'[t].server = link[t].server
               /\ link'[t].req = link[t].req /\ link'[t].reply = link[t].reply
               /\ link'[t].reqAge = IF link[t].req # 0 THEN UpTo(Delay, link[t].reqAge) ELSE 0
               /\ link'[t].replyAge = IF link[t].reply # 0 THEN UpTo(Delay, link[t].replyAge) ELSE 0
               /\ link'[t].used = IF link[t].client # "closed" /\ job[t].kind # "call"
                                  THEN UpTo(Lease, link[t].used) ELSE link[t].used
               /\ link'[t].idle = IF link[t].server = "held" THEN UpTo(Idle, link[t].idle) ELSE 0
    <2> DEFINE a == IF link[t].req # 0 THEN UpTo(Delay, link[t].reqAge) ELSE 0
               b == IF link[t].reply # 0 THEN UpTo(Delay, link[t].replyAge) ELSE 0
               c == IF link[t].client # "closed" /\ job[t].kind # "call"
                    THEN UpTo(Lease, link[t].used) ELSE link[t].used
               d == IF link[t].server = "held" THEN UpTo(Idle, link[t].idle) ELSE 0
    <2>1. link'[t] = [link[t] EXCEPT !.reqAge = a, !.replyAge = b, !.used = c, !.idle = d]
      <3>1. link'[t] = Older(t)
        BY Zenon DEF Tick
      <3> QED
        BY <3>1, Zenon DEF Older
    <2>2. /\ link[t] \in Links
          /\ link[t].reqAge \in 0..Delay /\ link[t].replyAge \in 0..Delay
          /\ link[t].used \in 0..Lease /\ link[t].idle \in 0..Idle
      BY <1>1, LinkFields, Zenon
    <2>3. a \in 0..Delay /\ b \in 0..Delay
      BY <2>2, Bounds DEF UpTo
    <2>4. c \in 0..Lease
      BY <2>2, Bounds DEF UpTo
    <2>5. d \in 0..Idle
      BY <2>2, Bounds DEF UpTo
    <2> HIDE DEF a, b, c, d
    <2>6. link'[t] \in Links
      <3>1. \A l \in Links : [l EXCEPT !.reqAge = a, !.replyAge = b, !.used = c, !.idle = d] \in Links
        BY <2>3, <2>4, <2>5, LinkOlder, Zenon
      <3> QED
        BY <2>1, <2>2, <3>1, Zenon
    <2>7. /\ link'[t].reqAge = a /\ link'[t].replyAge = b /\ link'[t].used = c /\ link'[t].idle = d
          /\ link'[t].client = link[t].client /\ link'[t].server = link[t].server
          /\ link'[t].req = link[t].req /\ link'[t].reply = link[t].reply
      BY <2>1, <2>2, Zenon DEF Links
    <2> QED
      BY <2>6, <2>7, Zenon DEF a, b, c, d
  <1>4. link' \in [Threads -> Links]
    <2>1. link' = [t \in Threads |-> link'[t]]
      BY Zenon DEF Tick
    <2> QED
      BY <2>1, <1>3, Zenon
  <1>5. TypeOK'
    BY <1>1, <1>2, <1>4, Zenon DEF TypeOK
  <1>6. OneVoice'
    <2>1. \A t \in Threads : link'[t].req = link[t].req /\ link'[t].reply = link[t].reply
      BY <1>3, Zenon
    <2>2. \A w, t \in Threads : Executes(w, t)' <=> Executes(w, t)
      BY <1>2, Zenon DEF Executes
    <2> QED
      BY <1>2, <2>1, <2>2 DEF IInv, OneVoice
  <1>7. OneServer'
    <2>1. \A t \in Threads : link'[t].client = link[t].client /\ link'[t].server = link[t].server
      BY <1>3, Zenon
    <2>2. \A w, t \in Threads : Serves(w, t)' <=> Serves(w, t)
      BY <1>2, Zenon DEF Serves
    <2> QED
      BY <1>2, <2>1, <2>2, Zenon DEF IInv, OneServer
  <1>8. OneEntry'
    BY <1>2, <1>3, QueuesKept, Zenon DEF IInv
  <1>9. WithinLease'
    <2>1. ASSUME NEW w \in Threads, NEW t \in Threads, Keeps(w, t)
          PROVE  /\ link'[t].reply # 0 => link'[t].idle <= link'[t].replyAge
                 /\ link'[t].req # 0 => link'[t].idle <= Delay + Lease - 1 + link'[t].reqAge
                 /\ link'[t].req = 0 /\ link'[t].reply = 0 =>
                       /\ job[t].kind # "call"
                       /\ link'[t].idle <= Delay + link'[t].used \/ link'[t].used >= Lease
      <3>1. link[t].server = "held" /\ link[t].client = "open"
        BY <2>1, Zenon DEF IInv, OneServer, Keeps, Serves
      <3>2. /\ link[t].reply # 0 => link[t].idle <= link[t].replyAge
            /\ link[t].req # 0 => link[t].idle <= Delay + Lease - 1 + link[t].reqAge
            /\ link[t].req = 0 /\ link[t].reply = 0 =>
                  /\ job[t].kind # "call"
                  /\ link[t].idle <= Delay + link[t].used \/ link[t].used >= Lease
        BY <2>1, Zenon DEF IInv, WithinLease
      <3>3. /\ link[t].reqAge \in 0..Delay /\ link[t].replyAge \in 0..Delay
            /\ link[t].used \in 0..Lease /\ link[t].idle \in 0..Idle
        BY <1>1, LinkFields, Zenon
      <3>4. /\ ~(link[t].req # 0 /\ link[t].reqAge = Delay)
            /\ ~(job[t].kind = "call" /\ link[t].reply # 0 /\ link[t].replyAge = Delay)
        BY <3>1, Zenon DEF Tick
      <3>5. link[t].reply # 0 => job[t].kind = "call"
        BY Zenon DEF IInv, OneVoice
      <3>6. link'[t].idle <= link[t].idle + 1 /\ link'[t].idle \in Int
        BY <1>3, <3>3, Bounds DEF UpTo
      <3>7. ASSUME link'[t].reply # 0
            PROVE  link'[t].idle <= link'[t].replyAge
        <4>1. link'[t].replyAge = link[t].replyAge + 1
          BY <1>3, <3>3, <3>4, <3>5, <3>7, Bounds DEF UpTo
        <4>2. link[t].idle <= link[t].replyAge
          BY <1>3, <3>2, <3>7, Zenon
        <4> QED
          BY <4>1, <4>2, <3>3, <3>6, Bounds
      <3>8. ASSUME link'[t].req # 0
            PROVE  link'[t].idle <= Delay + Lease - 1 + link'[t].reqAge
        <4>1. link'[t].reqAge = link[t].reqAge + 1
          BY <1>3, <3>3, <3>4, <3>8, Bounds DEF UpTo
        <4>2. link[t].idle <= Delay + Lease - 1 + link[t].reqAge
          BY <1>3, <3>2, <3>8, Zenon
        <4> QED
          BY <4>1, <4>2, <3>3, <3>6, Bounds
      <3>9. ASSUME link'[t].req = 0, link'[t].reply = 0
            PROVE  /\ job[t].kind # "call"
                   /\ link'[t].idle <= Delay + link'[t].used \/ link'[t].used >= Lease
        <4>1. /\ job[t].kind # "call"
              /\ link[t].idle <= Delay + link[t].used \/ link[t].used >= Lease
          BY <1>3, <3>2, <3>9, Zenon
        <4>2. link'[t].used = UpTo(Lease, link[t].used)
          BY <1>3, <3>1, <4>1, Zenon
        <4> QED
          BY <4>1, <4>2, <3>3, <3>6, Bounds DEF UpTo
      <3> QED
        BY <3>7, <3>8, <3>9, Zenon
    <2>2. ASSUME NEW t \in Threads, link[t].server = "expired"
          PROVE  /\ job[t].kind # "call" /\ link'[t].used >= Lease
                 /\ link[t].req = 0 /\ link[t].reply = 0
      <3>1. /\ job[t].kind # "call" /\ link[t].used >= Lease
            /\ link[t].req = 0 /\ link[t].reply = 0
        BY <2>2, Zenon DEF IInv, WithinLease
      <3>2. link[t].used \in 0..Lease
        BY <1>1, LinkFields, Zenon
      <3>3. link'[t].used >= Lease
        BY <1>3, <3>1, <3>2, Bounds DEF UpTo
      <3> QED
        BY <3>1, <3>3, Zenon
    <2>3. \A w, t \in Threads : Keeps(w, t)' <=> Keeps(w, t)
      BY <1>2, Zenon DEF Keeps
    <2> QED
      BY <1>2, <1>3, <2>1, <2>2, <2>3 DEF WithinLease
  <1> QED
    BY <1>5, <1>6, <1>7, <1>8, <1>9, Zenon DEF IInv

-------------------------------------------------------------------------------
\* shutdown closes the open connections for both ends.
LEMMA InterruptIInv ==
  ASSUME IInv, NEW n \in Nodes, Interrupt(n)
  PROVE  IInv'
  <1> DEFINE ts == {t \in ThreadsOf(n) : link[t].client = "open"}
  <1>1. TypeOK
    BY Zenon DEF IInv
  <1>2. /\ ts \in SUBSET Threads /\ queue' = QueueWithout(ts) /\ job' = JobsWithout(ts)
        /\ UNCHANGED <<made, generations>> /\ phase' \in [Nodes -> Phases]
    BY <1>1, Zenon DEF Interrupt, TypeOK, Phases, ThreadsOf
  <1>3. /\ link' \in [Threads -> Links]
        /\ \A t \in ts : link'[t].req = 0 /\ link'[t].reply = 0 /\ link'[t].server = "none"
        /\ \A t \in Threads \ ts : link'[t] = link[t]
    <2>1. ASSUME NEW t \in Threads
          PROVE  [Unconnected EXCEPT !.client = "shut", !.used = link[t].used] \in Links
      <3>1. link[t].used \in 0..Lease
        BY <1>1, LinkFields, Zenon
      <3>2. \A l \in Links : [l EXCEPT !.client = "shut", !.used = link[t].used] \in Links
        BY <3>1, LinkShut, Zenon
      <3> QED
        BY <3>2, NewLinks, Zenon
    <2>2. \A age : /\ [Unconnected EXCEPT !.client = "shut", !.used = age].req = 0
                   /\ [Unconnected EXCEPT !.client = "shut", !.used = age].reply = 0
                   /\ [Unconnected EXCEPT !.client = "shut", !.used = age].server = "none"
      BY Zenon DEF Unconnected
    <2> DEFINE shut(t) == [Unconnected EXCEPT !.client = "shut", !.used = link[t].used]
    <2>3. link' = [t \in Threads |-> IF t \in ts THEN shut(t) ELSE link[t]]
      BY ZenonT(40) DEF Interrupt
    <2>4. \A t \in Threads : /\ shut(t) \in Links /\ shut(t).req = 0
                             /\ shut(t).reply = 0 /\ shut(t).server = "none"
      BY <2>1, <2>2, ZenonT(40)
    <2> HIDE DEF shut
    <2> QED
      BY <1>1, <1>2, <2>3, <2>4, Zenon DEF TypeOK
  <1> HIDE DEF ts
  <1>4. job' \in [Threads -> Jobs]
    BY <1>1, <1>2, JobsWithoutServe, Zenon
  <1>5. TypeOK'
    BY <1>1, <1>2, <1>3, <1>4, QueueWithoutType, Zenon DEF TypeOK
  <1>6. \A u \in Threads :
           \/ job'[u] = job[u] /\ ~(\E t \in ts : Serves(u, t))
           \/ job'[u].kind \notin {"call", "read", "exec"} /\ \E t \in ts : Serves(u, t)
    BY <1>1, <1>2, JobKinds, Zenon DEF JobsWithout
  <1>7. OneVoice' /\ OneServer' /\ OneEntry' /\ WithinLease'
    BY <1>2, <1>3, <1>6, ClosedIInv, Zenon
  <1> QED
    BY <1>5, <1>7, Zenon DEF IInv

\* The end of the process closes all its connections.
LEMMA ExitIInv ==
  ASSUME IInv, NEW n \in Nodes, Exit(n)
  PROVE  IInv'
  <1> DEFINE ts == {t \in Threads : Node(t) = n}
  <1>1. TypeOK
    BY Zenon DEF IInv
  <1>2. /\ ts \in SUBSET Threads /\ queue' = QueueWithout(ts) /\ job' = JobsWithout(ts)
        /\ UNCHANGED <<made, generations>> /\ phase' \in [Nodes -> Phases]
    BY <1>1, Zenon DEF Exit, TypeOK, Phases, ThreadsOf
  <1>3. /\ link' \in [Threads -> Links]
        /\ \A t \in ts : link'[t].req = 0 /\ link'[t].reply = 0 /\ link'[t].server = "none"
        /\ \A t \in Threads \ ts : link'[t] = link[t]
    BY <1>1, NewLinks, Zenon DEF Exit, TypeOK
  <1> HIDE DEF ts
  <1>4. job' \in [Threads -> Jobs]
    BY <1>1, <1>2, JobsWithoutServe, Zenon
  <1>5. TypeOK'
    BY <1>1, <1>2, <1>3, <1>4, QueueWithoutType, Zenon DEF TypeOK
  <1>6. \A u \in Threads :
           \/ job'[u] = job[u] /\ ~(\E t \in ts : Serves(u, t))
           \/ job'[u].kind \notin {"call", "read", "exec"} /\ \E t \in ts : Serves(u, t)
    BY <1>1, <1>2, JobKinds, Zenon DEF JobsWithout
  <1>7. OneVoice' /\ OneServer' /\ OneEntry' /\ WithinLease'
    BY <1>2, <1>3, <1>6, ClosedIInv, Zenon
  <1> QED
    BY <1>5, <1>7, Zenon DEF IInv

\* The clients that wait for this worker and the ones it serves are dropped.
LEMMA CloseClientsIInv ==
  ASSUME IInv, NEW n \in Nodes, CloseClients(n)
  PROVE  IInv'
  <1> DEFINE waiting == {queue[n][i].from : i \in {k \in DOMAIN queue[n] : queue[n][k].kind = "stage"}}
             served == {t \in Threads : \E w \in ThreadsOf(n) : Serves(w, t)}
  <1>1. TypeOK
    BY Zenon DEF IInv
  <1>2. /\ queue' = [queue EXCEPT ![n] = <<>>] /\ UNCHANGED <<made, generations>>
        /\ phase' \in [Nodes -> Phases]
        /\ link' = [t \in Threads |-> IF t \in waiting \cup served
                                     THEN [link[t] EXCEPT !.server = "closed"] ELSE link[t]]
        /\ job' = [w \in Threads |-> IF Node(w) # n THEN job[w]
                     ELSE IF \E t \in served : Serves(w, t) THEN Dead ELSE Cancelled(job[w])]
    BY <1>1, Zenon DEF CloseClients, TypeOK, Phases
  <1>3. queue[n] \in Seq(Clients) /\ DOMAIN queue[n] = 1..Len(queue[n])
    BY <1>1 DEF TypeOK
  <1>4. \A t \in Threads : t \in waiting <=> \E i \in 1..Len(queue[n]) : Waits(n, i, t)
    BY <1>3, Zenon DEF Waits
  <1>5. \A w \in Threads, t \in Threads : Serves(w, t) /\ Node(w) = n => t \in served
    BY Zenon DEF ThreadsOf
  <1>6. \A t \in served : t \in Threads /\ \E w \in Threads : Node(w) = n /\ Serves(w, t)
    BY Zenon DEF ThreadsOf
  <1> HIDE DEF waiting, served
  <1>7. /\ link' \in [Threads -> Links]
        /\ \A t \in Threads : t \in waiting \cup served => link'[t].server = "closed"
        /\ \A t \in Threads : t \notin waiting \cup served => link'[t] = link[t]
        /\ \A t \in Threads : link'[t].req = link[t].req /\ link'[t].reply = link[t].reply
    <2>1. \A t \in Threads : link[t] \in Links
      BY <1>1, Zenon DEF TypeOK
    <2> QED
      BY <1>2, <2>1, ZenonT(40) DEF Links
  <1>8. ASSUME NEW u \in Threads
        PROVE  /\ job'[u] \in Jobs
               /\ job'[u].kind = "call" <=> job[u].kind = "call"
               /\ job'[u].kind \in {"read", "exec"} =>
                     job'[u] = job[u] /\ (Node(u) # n \/ ~(\E t \in served : Serves(u, t)))
               /\ Node(u) # n => job'[u] = job[u]
    <2>1. /\ Cancelled(job[u]) \in Jobs /\ Cancelled(job[u]).kind = job[u].kind
          /\ job[u].kind \in {"read", "exec"} => Cancelled(job[u]) = job[u]
      <3>1. job[u] \in Jobs /\ 1 \in 0..Calls /\ 1 \in 1..Calls
        BY <1>1, JobFields, Bounds
      <3> QED
        BY <3>1, JobValues, JobKinds, Zenon DEF Cancelled
    <2>2. (\E t \in served : Serves(u, t)) => job[u].kind # "call"
      BY Zenon DEF Serves
    <2>3. Dead \in Jobs /\ Dead.kind = "dead"
      BY JobValues, JobKinds, Zenon
    <2>4. job[u] \in Jobs
      BY <1>1, JobFields, Zenon
    <2> QED
      BY <1>2, <2>1, <2>2, <2>3, <2>4, Zenon
  <1>9. job' \in [Threads -> Jobs]
    <2>1. job' = [u \in Threads |-> job'[u]]
      BY <1>2, Zenon
    <2> QED
      BY <1>8, <2>1, Zenon
  <1>10. /\ queue' \in [Nodes -> Seq(Clients)] /\ queue'[n] = <<>>
         /\ \A m \in Nodes \ {n} : queue'[m] = queue[m]
    <2>1. <<>> \in Seq(Clients)
      OBVIOUS
    <2> QED
      BY <1>1, <1>2, <2>1, Zenon DEF TypeOK
  <1>11. TypeOK'
    <2>1. \A m \in Nodes : Len(queue[m]) <= QueueCapacity
      BY <1>1, Zenon DEF TypeOK
    <2>2. Len(queue'[n]) <= QueueCapacity
      BY <1>10, Bounds
    <2>3. \A m \in Nodes : Len(queue'[m]) <= QueueCapacity
      BY <1>10, <2>1, <2>2, Zenon
    <2> QED
      BY <1>1, <1>2, <1>7, <1>9, <1>10, <2>3, Zenon DEF TypeOK
  <1>12. \A u, v \in Threads : Serves(u, v)' => /\ Serves(u, v) /\ job'[u] = job[u]
                                               /\ Node(u) # n /\ v \notin waiting \cup served
    <2> SUFFICES ASSUME NEW u \in Threads, NEW v \in Threads, Serves(u, v)'
                 PROVE  /\ Serves(u, v) /\ job'[u] = job[u]
                        /\ Node(u) # n /\ v \notin waiting \cup served
      BY Zenon
    <2>1. job'[u].kind \in {"read", "exec"} /\ job'[u].from = v
      BY Zenon DEF Serves
    <2>2. Serves(u, v) /\ job'[u] = job[u]
      BY <1>8, <2>1, Zenon DEF Serves
    <2>3. Node(u) # n
      BY <1>5, <1>8, <2>1, <2>2, Zenon
    <2>4. v \notin served
      BY <1>6, <2>2, <2>3, Zenon DEF IInv, OneServer
    <2>5. link[v].server \in {"held", "busy"}
      BY <2>2, Zenon DEF IInv, OneServer, Serves
    <2>6. v \notin waiting
      BY <1>4, <2>5, Zenon DEF IInv, OneEntry
    <2> QED
      BY <2>2, <2>3, <2>4, <2>6, Zenon
  <1>13. /\ \A u, v \in Threads : Executes(u, v)' => Executes(u, v) /\ job'[u].no = job[u].no
         /\ \A u, v \in Threads : Keeps(u, v)' => Keeps(u, v) /\ v \notin waiting \cup served
    BY <1>12, Zenon DEF Serves, Executes, Keeps
  <1>14. OneVoice'
    BY <1>2, <1>7, <1>8, <1>13 DEF IInv, OneVoice
  <1>15. OneServer'
    BY <1>7, <1>12 DEF IInv, OneServer
  <1>16. WithinLease'
    BY <1>7, <1>8, <1>13, ZenonT(40) DEF IInv, WithinLease
  <1>17. ASSUME NEW m \in Nodes, NEW i \in 1..Len(queue'[m]), NEW v \in Threads, Waits(m, i, v)'
         PROVE  /\ i \in 1..Len(queue[m]) /\ Waits(m, i, v) /\ v \notin waiting \cup served
    <2>1. m # n
      BY <1>10
    <2>2. i \in 1..Len(queue[m]) /\ Waits(m, i, v)
      BY <1>10, <1>17, <2>1, Zenon DEF Waits
    <2>3. v \notin waiting
      BY <1>4, <2>1, <2>2, Zenon DEF IInv, OneEntry
    <2>4. link[v].server = "queued"
      BY <2>2, Zenon DEF IInv, OneEntry
    <2>5. v \notin served
      BY <1>6, <2>4 DEF IInv, OneServer, Serves
    <2> QED
      BY <2>2, <2>3, <2>5, Zenon
  <1>18. OneEntry'
    <2>1. \A m \in Nodes : \A i \in 1..Len(queue'[m]) : \A v \in Threads :
            Waits(m, i, v)' => link'[v].server = "queued" /\ link'[v].client = "open"
      BY <1>7, <1>17 DEF IInv, OneEntry
    <2>2. \A m, x \in Nodes : \A i \in 1..Len(queue'[m]), j \in 1..Len(queue'[x]) :
            \A v \in Threads : Waits(m, i, v)' /\ Waits(x, j, v)' => m = x /\ i = j
      BY <1>17 DEF IInv, OneEntry
    <2> QED
      BY <2>1, <2>2, Zenon DEF OneEntry
  <1> QED
    BY <1>11, <1>14, <1>15, <1>16, <1>18, Zenon DEF IInv

-------------------------------------------------------------------------------
\* Nothing is connected when the workers start.
LEMMA InitIInv == Init => IInv
  <1> SUFFICES ASSUME Init PROVE IInv
    BY Zenon
  <1>1. TypeOK
    BY JobValues, NewLinks, Bounds DEF Init, TypeOK, Phases
  <1>2. /\ \A t \in Threads : job[t].kind = "free"
        /\ \A t \in Threads : link[t].req = 0 /\ link[t].reply = 0 /\ link[t].server = "none"
        /\ \A n \in Nodes : Len(queue[n]) = 0
    BY JobKinds, NewLinks, Zenon DEF Init
  <1>3. OneVoice
    BY <1>2, Zenon DEF OneVoice, Executes
  <1>4. OneServer
    BY <1>2, Zenon DEF OneServer, Serves
  <1>5. OneEntry
    BY <1>2 DEF OneEntry
  <1>6. WithinLease
    BY <1>2, Zenon DEF WithinLease, Keeps
  <1> QED
    BY <1>1, <1>3, <1>4, <1>5, <1>6, Zenon DEF IInv

\* A step that changes nothing keeps the invariant.
LEMMA StutterIInv == IInv /\ UNCHANGED vars => IInv'
  <1> SUFFICES ASSUME IInv, UNCHANGED vars PROVE IInv'
    BY Zenon
  <1>1. UNCHANGED <<phase, queue, job, link, made, generations>>
    BY Zenon DEF vars
  <1>2. TypeOK'
    BY <1>1, Zenon DEF IInv, TypeOK
  <1>3. OneVoice' /\ OneServer' /\ WithinLease'
    BY <1>1, QuietIInv, Zenon
  <1>4. OneEntry'
    BY <1>1, QueuesKept, Zenon DEF IInv
  <1> QED
    BY <1>2, <1>3, <1>4, Zenon DEF IInv

\* Every step keeps the inductive invariant.
LEMMA StepIInv == IInv /\ [Next]_vars => IInv'
  <1> SUFFICES ASSUME IInv, [Next]_vars PROVE IInv'
    BY Zenon
  <1>1. CASE UNCHANGED vars
    BY <1>1, StutterIInv, Zenon
  <1>2. ASSUME NEW t \in Threads, Work(t) PROVE IInv'
    BY <1>2, TakeClientIInv, ReadRequestIInv, SendReplyIInv, SendErrorIInv, IdleTimeoutIInv,
       FinishIInv, InvokeKeptIInv, InvokeDialledIInv, ReceiveIInv, CallFailsIInv, Zenon DEF Work
  <1>3. ASSUME NEW n \in Nodes,
               AcceptGeneration(n) \/ Interrupt(n) \/ CloseClients(n) \/ Exit(n)
        PROVE  IInv'
    BY <1>3, AcceptGenerationIInv, InterruptIInv, CloseClientsIInv, ExitIInv, Zenon
  <1>4. CASE Tick
    BY <1>4, TickIInv, Zenon
  <1> QED
    BY <1>1, <1>2, <1>3, <1>4, Zenon DEF Next

\* The inductive invariant holds in every reachable state.
LEMMA Invariance == Spec => []IInv
  BY InitIInv, StepIInv, PTL DEF Spec

\* Type correctness, with the bound on the queue of clients, for any number of
\* threads and any capacity.
THEOREM TypeCorrect == Spec => []TypeOK
  BY Invariance, PTL DEF IInv

\* A peer never gives up a connection while a request is on its way to it,
\* whatever the lease and the transit time, as long as the lease and two transits
\* fit into the idle timeout.
THEOREM LeaseCorrect == Spec => []LeaseOutlivesNoPeer
  <1>1. IInv => LeaseOutlivesNoPeer
    BY Zenon DEF IInv, WithinLease, LeaseOutlivesNoPeer
  <1> QED
    BY <1>1, Invariance, PTL

\* A call reads its own answer, after any history of timeouts, errors and
\* shutdowns on the connections of its thread.
THEOREM AnswersCorrect == Spec => []AnswersOwnCall
  <1>1. IInv => AnswersOwnCall
    BY Zenon DEF IInv, OneVoice, Executes, AnswersOwnCall
  <1> QED
    BY <1>1, Invariance, PTL
===============================================================================
