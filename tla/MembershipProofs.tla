--------------------------- MODULE MembershipProofs ---------------------------
(***************************************************************************)
(* Proofs about Membership, for any finite set of nodes, any seeds and any *)
(* number of starts and losses.  The inductive invariant is IInv: every    *)
(* record, in a store or on its way into one, is at least as old as the    *)
(* silence of the process it is about, and a running process is not        *)
(* silent.  For two nodes that lose no message PairInv also bounds every   *)
(* record from above, by where the loops of the two nodes are.             *)
(***************************************************************************)
EXTENDS Membership, FiniteSetTheorems, TLAPS

\* No record in members claims to be fresher than its process, silent since s[x].
Honest(members, s) == \A x \in Nodes : members[x] # Unknown => members[x].age >= s[x]

\* One view per node, all of them honest
HonestViews(views, s) == views \in [Nodes -> Members] /\ \A n \in Nodes : Honest(views[n], s)

Views == HonestViews(store, silence) /\ HonestViews(got, silence) /\ HonestViews(heard, silence)

Processes ==
    /\ up \subseteq Nodes
    /\ started \in [Nodes -> 0..MaxStarts] /\ starts \in 0..MaxStarts
    /\ pref \in [Nodes -> Nat]
    /\ silence \in [Nodes -> 0..MaxAge]
    /\ \A n \in up : silence[n] = 0 /\ started[n] \in 1..MaxStarts

Passes ==
    /\ pc \in [Nodes -> Pcs] /\ \A n \in Nodes : n \in up <=> pc[n] # "down"
    /\ todo \in [Nodes -> SUBSET Nodes] /\ overrun \subseteq up

IInv == Views /\ Processes /\ Passes /\ lost \in 0..MaxLost

-------------------------------------------------------------------------------
\* The bounds are numbers.
LEMMA MaxAgeNat == MaxAge \in Nat /\ StaleAfter \in Nat /\ MaxStarts \in Nat /\ MaxLost \in Nat
  BY ConfigAssumption DEF MaxAge

\* A record is not the mark of an unknown member.
LEMMA RecordIsKnown == \A r \in Record : r # Unknown
  <1>1. \A r \in Record : r.age \in 0..MaxAge
    BY DEF Record
  <1>2. Unknown.age = -1
    BY DEF Unknown
  <1> QED
    BY <1>1, <1>2, MaxAgeNat

\* A store that knows nobody
LEMMA NoMembersType == NoMembers \in Members /\ \A x \in Nodes : NoMembers[x] = Unknown
  BY DEF NoMembers, Members

\* mergeMember keeps the time of the incoming record and capabilities of both.
LEMMA MergeEffect ==
  ASSUME NEW existing \in Record, NEW incoming \in Record
  PROVE  /\ mergeMember(existing, incoming) \in Record
         /\ mergeMember(existing, incoming).age = incoming.age
         /\ mergeMember(existing, incoming).start = incoming.start
         /\ mergeMember(existing, incoming).rich = (incoming.rich \/ existing.rich)
  <1> DEFINE p == IF incoming.pref = 0 THEN existing.pref ELSE incoming.pref
             r == incoming.rich \/ existing.rich
             m1 == [incoming EXCEPT !.pref = p]
             m2 == [m1 EXCEPT !.rich = r]
  <1>1. p \in Nat /\ r \in BOOLEAN
    BY DEF Record
  <1>2. mergeMember(existing, incoming) = m2
    BY DEF mergeMember, Record
  <1> HIDE DEF p, r
  <1>3. m1 \in Record /\ m1.age = incoming.age /\ m1.start = incoming.start
    BY <1>1 DEF Record
  <1> HIDE DEF m1
  <1>4. m2 \in Record /\ m2.age = m1.age /\ m2.start = m1.start /\ m2.rich = r
    BY <1>1, <1>3 DEF Record
  <1> QED
    BY <1>2, <1>3, <1>4 DEF r

\* Upsert stores the incoming record, merged with the one it knew.
LEMMA UpsertEffect ==
  ASSUME NEW members \in Members, NEW x \in Nodes, NEW incoming \in Record
  PROVE  /\ Upsert(members, x, incoming) \in Members
         /\ Upsert(members, x, incoming)[x] \in Record
         /\ Upsert(members, x, incoming)[x].age = incoming.age
         /\ Upsert(members, x, incoming)[x].start = incoming.start
         /\ Upsert(members, x, incoming)[x].rich =
               (incoming.rich \/ (members[x] # Unknown /\ members[x].rich))
         /\ \A y \in Nodes \ {x} : Upsert(members, x, incoming)[y] = members[y]
  <1> DEFINE r == IF members[x] = Unknown THEN incoming ELSE mergeMember(members[x], incoming)
  <1>1. /\ r \in Record /\ r.age = incoming.age /\ r.start = incoming.start
        /\ r.rich = (incoming.rich \/ (members[x] # Unknown /\ members[x].rich))
    <2>1. CASE members[x] = Unknown
      BY <2>1 DEF Record
    <2>2. CASE members[x] # Unknown
      BY <2>2, MergeEffect DEF Members
    <2> QED
      BY <2>1, <2>2
  <1>2. Upsert(members, x, incoming) = [members EXCEPT ![x] = r]
    BY DEF Upsert
  <1> HIDE DEF r
  <1> QED
    BY <1>1, <1>2 DEF Members

\* Prune and visibleMembers only drop records.
LEMMA PruneEffect ==
  ASSUME NEW members \in Members, NEW self
  PROVE  /\ Prune(members, self) \in Members
         /\ \A x \in Nodes : Prune(members, self)[x] \in {members[x], Unknown}
         /\ visibleMembers(members) \in Members
         /\ \A x \in Nodes : visibleMembers(members)[x] \in {members[x], Unknown}
  BY DEF Prune, visibleMembers, Members

\* Time passes: ages grow up to MaxAge, nothing else changes.
LEMMA OlderEffect ==
  ASSUME NEW members \in Members
  PROVE  /\ Older(members) \in Members
         /\ \A x \in Nodes :
               /\ Older(members)[x] = Unknown <=> members[x] = Unknown
               /\ members[x] # Unknown =>
                    /\ Older(members)[x].rich = members[x].rich
                    /\ Older(members)[x].start = members[x].start
                    /\ Older(members)[x].age = IF members[x].age = MaxAge THEN MaxAge
                                               ELSE members[x].age + 1
  <1> DEFINE older(x) == IF members[x] = Unknown \/ members[x].age = MaxAge THEN members[x]
                         ELSE [members[x] EXCEPT !.age = members[x].age + 1]
  <1>1. ASSUME NEW x \in Nodes
        PROVE  /\ older(x) \in Record \cup {Unknown}
               /\ older(x) = Unknown <=> members[x] = Unknown
               /\ members[x] # Unknown =>
                    /\ older(x).rich = members[x].rich
                    /\ older(x).start = members[x].start
                    /\ older(x).age = IF members[x].age = MaxAge THEN MaxAge
                                      ELSE members[x].age + 1
    <2>1. CASE members[x] = Unknown
      BY <2>1
    <2>2. CASE members[x] # Unknown
      <3>1. members[x] \in Record /\ members[x].age \in 0..MaxAge
        BY <2>2 DEF Members, Record
      <3>2. CASE members[x].age = MaxAge
        BY <2>2, <3>1, <3>2
      <3>3. CASE members[x].age # MaxAge
        <4>1. members[x].age + 1 \in 0..MaxAge
          BY <3>1, <3>3, MaxAgeNat
        <4>2. older(x) = [members[x] EXCEPT !.age = members[x].age + 1]
          BY <2>2, <3>3
        <4>3. older(x) \in Record /\ older(x).rich = members[x].rich
              /\ older(x).start = members[x].start /\ older(x).age = members[x].age + 1
          BY <3>1, <4>1, <4>2 DEF Record
        <4> QED
          BY <2>2, <3>3, <4>3, RecordIsKnown
      <3> QED
        BY <3>2, <3>3
    <2> QED
      BY <2>1, <2>2
  <1>2. Older(members) = [x \in Nodes |-> older(x)]
    BY DEF Older
  <1> HIDE DEF older
  <1> QED
    BY <1>1, <1>2 DEF Members

\* What a running node announces of itself, and its mDNS answer, are true now.
LEMMA SelfMember ==
  ASSUME IInv, NEW n \in up
  PROVE  /\ selfMember(n) \in Record /\ selfMember(n).age = 0 /\ selfMember(n).rich
         /\ selfMember(n).start = started[n]
         /\ LightRecord(n) \in Record /\ LightRecord(n).age = 0
         /\ LightRecord(n).start = started[n]
         /\ silence[n] = 0
  <1>1. n \in Nodes /\ started[n] \in 1..MaxStarts /\ pref[n] \in Nat /\ silence[n] = 0
    BY DEF IInv, Processes
  <1>2. 0 \in 0..MaxAge
    BY MaxAgeNat
  <1> QED
    BY <1>1, <1>2 DEF selfMember, LightRecord, Record

\* What is stored when p hears an announcement of n
LEMMA SelfUpsert ==
  ASSUME IInv, NEW n \in up, NEW p \in Nodes
  PROVE  /\ n \in Nodes /\ store[p] \in Members
         /\ Upsert(store[p], n, selfMember(n)) \in Members
         /\ Upsert(store[p], n, selfMember(n))[n] \in Record
         /\ Upsert(store[p], n, selfMember(n))[n].age = 0
         /\ Upsert(store[p], n, selfMember(n))[n].start = started[n]
         /\ Upsert(store[p], n, selfMember(n))[n].rich
         /\ \A y \in Nodes \ {n} : Upsert(store[p], n, selfMember(n))[y] = store[p][y]
  <1> DEFINE self == selfMember(n)
             u == Upsert(store[p], n, self)
  <1>1. n \in Nodes /\ store[p] \in Members
    BY DEF IInv, Processes, Views, HonestViews
  <1>2. self \in Record /\ self.age = 0 /\ self.rich /\ self.start = started[n]
    BY SelfMember
  <1> HIDE DEF self
  <1>3. /\ u \in Members /\ u[n] \in Record /\ u[n].age = self.age /\ u[n].start = self.start
        /\ u[n].rich = (self.rich \/ (store[p][n] # Unknown /\ store[p][n].rich))
        /\ \A y \in Nodes \ {n} : u[y] = store[p][y]
    BY <1>1, <1>2, UpsertEffect, Zenon
  <1> HIDE DEF u
  <1>4. u[n].rich
    BY <1>2, <1>3, Zenon
  <1>5. u[n].age = 0 /\ u[n].start = started[n]
    BY <1>2, <1>3
  <1> QED
    BY <1>1, <1>3, <1>4, <1>5, Zenon DEF u, self

-------------------------------------------------------------------------------
(* Two nodes that lose no message *)

\* n announces itself to x in every pass.
Asks(n, x) == MDNS \/ x \in Seeds[n]

InPass(n) == pc[n] \in {"static", "browse", "mdns", "merge"}

\* The pass of n will not turn to x any more.
Asked(n, x) ==
    \/ pc[n] = "merge"
    \/ pc[n] = "mdns" /\ x \notin todo[n]
    \/ pc[n] = "static" /\ ~MDNS /\ x \notin todo[n]

\* The ticks that the pass of n has lasted.
Lasted(n) == IF n \in overrun THEN 1 ELSE 0

\* A record of the running process of x, and one that is not older than age.
Current(member, x) == member # Unknown /\ member.start = started[x]
Within(member, x, age) == Current(member, x) => member.age <= age

\* Where the discovery loop of n can be.
Schedule(n) ==
    /\ n \notin todo[n] /\ \A x \in todo[n] : Asks(n, x)
    /\ pc[n] \in {"browse", "mdns"} => MDNS
    /\ pc[n] \in {"browse", "merge"} => todo[n] = {}
    /\ ~InPass(n) => n \notin overrun
    /\ started[n] <= starts

\* Who can know of whom, and of which process.
Dated(member) == member # Unknown => member.start <= starts
Origin(n, x) ==
    /\ n # x /\ store[n][x] # Unknown => Asks(n, x) \/ Asks(x, n)
    /\ n # x /\ got[n][x] # Unknown => Asks(n, x)
    /\ ~InPass(n) => got[n][x] = Unknown
    /\ Dated(store[n][x]) /\ Dated(got[n][x]) /\ Dated(heard[n][x])

\* What does not depend on time
Known == \A n \in Nodes : Schedule(n) /\ \A x \in Nodes : Origin(n, x)

\* A node has seen itself in this interval, or is about to.
SelfSeen(x) ==
    /\ Current(store[x][x], x)
    /\ store[x][x].age <= IF pc[x] = "due" THEN 1 ELSE Lasted(x)

\* n asks x: what it collected, and what it stored when its last pass ended.
AsksFresh(n, x) ==
    /\ Within(got[n][x], x, 1 + Lasted(n))
    /\ Within(store[n][x], x, IF pc[n] = "wait" THEN 1 ELSE 2 + Lasted(n))
    /\ Asked(n, x) /\ ~Current(got[n][x], x) => Within(store[n][x], x, Lasted(n))

\* n only hears of x when x asks.
HearsFresh(n, x) ==
    Within(store[n][x], x, IF pc[x] = "wait" THEN 0
                           ELSE IF InPass(x) /\ n \notin todo[x] THEN Lasted(x)
                           ELSE 1 + Lasted(x))

\* How old the record of x in the views of n can be
PairFresh(n, x) == IF Asks(n, x) THEN AsksFresh(n, x) ELSE HearsFresh(n, x)

\* Everything that running nodes know of each other is fresh enough.
Fresh == \A x \in up : SelfSeen(x) /\ \A n \in up \ {x} : PairFresh(n, x)

\* The inductive invariant of two nodes
PairInv == lost = 0 => Known /\ Fresh

\* There are at most two nodes.
AtMostTwo == \A n, p, q \in Nodes : n # p => q \in {n, p}

\* Counting them says the same.
LEMMA TwoNodes == Cardinality(Nodes) <= 2 => AtMostTwo
  <1> SUFFICES ASSUME Cardinality(Nodes) <= 2, NEW n \in Nodes, NEW p \in Nodes, NEW q \in Nodes,
                      n # p, q \notin {n, p}
               PROVE  FALSE
    BY DEF AtMostTwo
  <1>1. IsFiniteSet({n, p, q}) /\ Cardinality({n, p, q}) <= Cardinality(Nodes)
    <2>1. {n, p, q} \subseteq Nodes
      OBVIOUS
    <2> QED
      BY <2>1, ConfigAssumption, FS_Subset, Zenon
  <1>2. Cardinality({n}) = 1 /\ IsFiniteSet({n})
    BY FS_Singleton, Zenon
  <1>3. Cardinality({n} \cup {p}) = 2 /\ IsFiniteSet({n} \cup {p})
    BY <1>2, FS_AddElement
  <1>4. Cardinality(({n} \cup {p}) \cup {q}) = 3
    BY <1>3, FS_AddElement
  <1>5. ({n} \cup {p}) \cup {q} = {n, p, q}
    OBVIOUS
  <1>6. Cardinality(Nodes) \in Nat
    BY ConfigAssumption, FS_CardinalityType
  <1> QED
    BY <1>1, <1>4, <1>5, <1>6

\* The records of a view
LEMMA ViewTypes ==
  ASSUME IInv, NEW n \in Nodes
  PROVE  /\ store[n] \in Members /\ got[n] \in Members /\ heard[n] \in Members
         /\ \A x \in Nodes :
              /\ store[n][x] # Unknown => store[n][x] \in Record /\ store[n][x].age \in Nat
                                          /\ store[n][x].start \in Nat
              /\ got[n][x] # Unknown => got[n][x] \in Record /\ got[n][x].age \in Nat
                                        /\ got[n][x].start \in Nat
              /\ heard[n][x] # Unknown => heard[n][x] \in Record /\ heard[n][x].age \in Nat
                                          /\ heard[n][x].start \in Nat
  <1>1. store[n] \in Members /\ got[n] \in Members /\ heard[n] \in Members
    BY DEF IInv, Views, HonestViews
  <1>2. \A r \in Record : r.age \in Nat /\ r.start \in Nat
    BY MaxAgeNat DEF Record
  <1> QED
    BY <1>1, <1>2 DEF Members

\* A process that starts knows itself, and nobody knows it.
LEMMA StartPair ==
  ASSUME IInv, Known, Fresh, NEW n \in Nodes, Start(n)
  PROVE  Known' /\ Fresh'
  <1>1. /\ n \notin up /\ pc[n] = "down" /\ up \subseteq Nodes /\ starts \in Nat
        /\ \A x \in Nodes : started[x] \in Nat
    BY MaxAgeNat DEF Start, IInv, Processes, Passes
  <1>2. /\ up' = up \cup {n} /\ starts' = starts + 1 /\ pc'[n] = "due" /\ started'[n] = starts + 1
        /\ \A a \in Nodes \ {n} : pc'[a] = pc[a] /\ started'[a] = started[a]
        /\ todo' = todo /\ got' = got /\ heard' = heard /\ overrun' = overrun
    BY Zenon DEF Start, IInv, Processes, Passes, passVars
  <1>3. /\ store'[n][n] # Unknown /\ store'[n][n].age = 0 /\ store'[n][n].start = starts + 1
        /\ \A x \in Nodes \ {n} : store'[n][x] = Unknown
        /\ \A a \in Nodes \ {n} : store'[a] = store[a]
    <2>1. PICK p \in Preferences[n] :
            store' = [store EXCEPT ![n] = [NoMembers EXCEPT ![n] =
                        [age |-> 0, start |-> starts + 1, pref |-> p, rich |-> TRUE]]]
      BY Zenon DEF Start
    <2> DEFINE self == [age |-> 0, start |-> starts + 1, pref |-> p, rich |-> TRUE]
               own == [NoMembers EXCEPT ![n] = self]
    <2>2. self.age = 0 /\ self.start = starts + 1
      BY Zenon
    <2>3. self # Unknown
      BY <2>2, Zenon DEF Unknown
    <2>4. store' = [store EXCEPT ![n] = own]
      BY <2>1, Zenon
    <2> HIDE DEF self
    <2>5. own[n] = self /\ \A x \in Nodes \ {n} : own[x] = Unknown
      BY NoMembersType, Zenon DEF Members
    <2> HIDE DEF own
    <2>6. store'[n] = own /\ \A a \in Nodes \ {n} : store'[a] = store[a]
      BY <2>4, Zenon DEF IInv, Views, HonestViews
    <2> QED
      BY <2>2, <2>3, <2>5, <2>6, Zenon
  <1>4. \A a \in Nodes : InPass(a)' = InPass(a) /\ Lasted(a)' = Lasted(a)
    BY <1>1, <1>2 DEF InPass, Lasted
  <1>5. ASSUME NEW a \in Nodes PROVE Schedule(a)'
    <2>1. Schedule(a)
      BY Zenon DEF Known
    <2> QED
      BY <1>1, <1>2, <1>4, <2>1 DEF Schedule, InPass
  <1>6. ASSUME NEW a \in Nodes, NEW x \in Nodes PROVE Origin(a, x)'
    <2>1. Origin(a, x)
      BY Zenon DEF Known
    <2> QED
      BY <1>1, <1>2, <1>3, <1>4, ViewTypes, <2>1 DEF Origin, Dated
  <1>7. ASSUME NEW a \in up, NEW x \in Nodes PROVE Asked(a, x)' = Asked(a, x)
    BY <1>1, <1>2, Zenon DEF Asked
  <1>8. ASSUME NEW x \in up' PROVE SelfSeen(x)'
    BY <1>1, <1>2, <1>3, <1>4 DEF Fresh, SelfSeen, Current, Lasted
  <1>9. ASSUME NEW x \in up', NEW a \in up' \ {x} PROVE PairFresh(a, x)'
    <2>1. CASE x = n
      <3>1. ~Current(store[a][n], n)' /\ ~Current(got[a][n], n)'
        BY <1>1, <1>2, <1>3, <2>1, ViewTypes DEF Known, Origin, Dated, Current
      <3> QED
        BY <2>1, <3>1, Zenon DEF PairFresh, AsksFresh, HearsFresh, Within
    <2>2. CASE a = n
      <3>1. ~Current(store[n][x], x)' /\ ~Current(got[n][x], x)'
        BY <1>1, <1>2, <1>3, <2>2, Zenon DEF Known, Origin, InPass, Current
      <3> QED
        BY <2>2, <3>1, Zenon DEF PairFresh, AsksFresh, HearsFresh, Within
    <2>3. CASE a # n /\ x # n
      BY <1>1, <1>2, <1>3, <1>4, <1>7, <2>3, Zenon
         DEF Fresh, PairFresh, AsksFresh, HearsFresh, Within, Current
    <2> QED
      BY <2>1, <2>2, <2>3, Zenon
  <1> QED
    BY <1>5, <1>6, <1>8, <1>9, Zenon DEF Known, Fresh

\* A process ends: there is one view less.
LEMMA CrashPair ==
  ASSUME IInv, Known, Fresh, NEW n \in Nodes, Crash(n)
  PROVE  Known' /\ Fresh'
  <1>1. up \subseteq Nodes
    BY Zenon DEF IInv, Processes
  <1>2. /\ up' = up \ {n} /\ starts' = starts /\ started' = started /\ overrun' = overrun \ {n}
        /\ pc'[n] = "down" /\ todo'[n] = {}
        /\ \A a \in Nodes \ {n} :
              pc'[a] = pc[a] /\ todo'[a] = todo[a] /\ store'[a] = store[a]
              /\ got'[a] = got[a] /\ heard'[a] = heard[a]
    BY Zenon DEF Crash, IInv, Passes, Views, HonestViews
  <1>3. \A x \in Nodes : store'[n][x] = Unknown /\ got'[n][x] = Unknown /\ heard'[n][x] = Unknown
    <2>1. store'[n] = NoMembers /\ got'[n] = NoMembers /\ heard'[n] = NoMembers
      BY Zenon DEF Crash, IInv, Views, HonestViews
    <2> QED
      BY <2>1, NoMembersType, Zenon
  <1>4. \A a \in Nodes \ {n} : InPass(a)' = InPass(a) /\ Lasted(a)' = Lasted(a)
    BY <1>1, <1>2, Zenon DEF InPass, Lasted
  <1>5. ASSUME NEW a \in Nodes PROVE Schedule(a)'
    BY <1>1, <1>2, <1>4, Zenon DEF Known, Schedule, InPass
  <1>6. ASSUME NEW a \in Nodes, NEW x \in Nodes PROVE Origin(a, x)'
    <2>1. Origin(a, x)
      BY Zenon DEF Known
    <2> QED
      BY <1>2, <1>3, <1>4, <2>1 DEF Origin, Dated
  <1>7. ASSUME NEW a \in up', NEW x \in Nodes PROVE Asked(a, x)' = Asked(a, x)
    BY <1>1, <1>2, Zenon DEF Asked
  <1>8. ASSUME NEW x \in up' PROVE SelfSeen(x)'
    <2>1. SelfSeen(x)
      BY <1>2, Zenon DEF Fresh
    <2> QED
      BY <1>1, <1>2, <1>4, <2>1 DEF SelfSeen, Current
  <1>9. ASSUME NEW x \in up', NEW a \in up' \ {x} PROVE PairFresh(a, x)'
    <2>1. PairFresh(a, x)
      BY <1>2, Zenon DEF Fresh
    <2> QED
      BY <1>1, <1>2, <1>4, <1>7, <2>1 DEF PairFresh, AsksFresh, HearsFresh, Within, Current
  <1> QED
    BY <1>5, <1>6, <1>8, <1>9, Zenon DEF Known, Fresh

\* A pass starts: the node has seen itself, and turns to its seeds.
LEMMA RefreshStartPair ==
  ASSUME IInv, Known, Fresh, NEW n \in Nodes, RefreshStart(n)
  PROVE  Known' /\ Fresh'
  <1>1. up \subseteq Nodes /\ n \in up /\ pc[n] = "due" /\ starts \in Nat
    BY MaxAgeNat DEF RefreshStart, IInv, Processes, Passes
  <1>2. /\ up' = up /\ starts' = starts /\ started' = started /\ overrun' = overrun
        /\ heard' = heard /\ pc'[n] = "static" /\ todo'[n] = Seeds[n] \ {n}
        /\ \A a \in Nodes \ {n} :
              pc'[a] = pc[a] /\ todo'[a] = todo[a] /\ store'[a] = store[a] /\ got'[a] = got[a]
    BY Zenon DEF RefreshStart, IInv, Passes, Views, HonestViews, processVars, passVars
  <1>3. \A x \in Nodes : got'[n][x] = Unknown
    <2>1. got'[n] = NoMembers
      BY Zenon DEF RefreshStart, IInv, Views, HonestViews
    <2> QED
      BY <2>1, NoMembersType, Zenon
  <1>4. /\ store'[n][n] # Unknown /\ store'[n][n].age = 0 /\ store'[n][n].start = started[n]
        /\ \A x \in Nodes \ {n} : store'[n][x] \in {store[n][x], Unknown}
    <2> DEFINE u == Upsert(store[n], n, selfMember(n))
    <2>1. /\ u \in Members /\ u[n] \in Record /\ u[n].age = 0 /\ u[n].start = started[n]
          /\ \A x \in Nodes \ {n} : u[x] = store[n][x]
      BY <1>1, SelfUpsert, Zenon
    <2>2. store'[n] = Prune(u, n)
      BY Zenon DEF RefreshStart, IInv, Views, HonestViews
    <2> HIDE DEF u
    <2>3. Prune(u, n)[n] = u[n] /\ \A x \in Nodes : Prune(u, n)[x] \in {u[x], Unknown}
      BY <2>1, PruneEffect, Zenon DEF Prune
    <2> QED
      BY <2>1, <2>2, <2>3, RecordIsKnown, Zenon
  <1>5. n \notin overrun
    BY <1>1, Zenon DEF Known, Schedule, InPass
  <1>6. \A a \in Nodes \ {n} : InPass(a)' = InPass(a)
    BY <1>1, <1>2, Zenon DEF InPass
  <1>7. \A a \in Nodes : Lasted(a)' = Lasted(a)
    BY <1>1, <1>2, Zenon DEF Lasted
  <1>8. ASSUME NEW a \in Nodes PROVE Schedule(a)'
    BY <1>1, <1>2, <1>5, <1>6, Zenon DEF Known, Schedule, InPass, Asks
  <1>9. ASSUME NEW a \in Nodes, NEW x \in Nodes PROVE Origin(a, x)'
    <2>1. Origin(a, x)
      BY Zenon DEF Known
    <2>2. started[n] <= starts
      BY Zenon DEF Known, Schedule
    <2> QED
      BY <1>2, <1>3, <1>4, <1>6, <2>1, <2>2 DEF Origin, Dated, InPass
  <1>10. ASSUME NEW a \in up \ {n}, NEW x \in Nodes PROVE Asked(a, x)' = Asked(a, x)
    BY <1>1, <1>2, Zenon DEF Asked
  <1>11. ASSUME NEW x \in up' PROVE SelfSeen(x)'
    BY <1>1, <1>2, <1>4, <1>5, <1>7 DEF Fresh, SelfSeen, Current, Lasted
  <1>12. ASSUME NEW x \in up', NEW a \in up' \ {x} PROVE PairFresh(a, x)'
    <2>1. CASE a = n
      <3>1. CASE Asks(n, x)
        <4>1. ~Asked(n, x)'
          BY <1>1, <1>2, <2>1, <3>1, Zenon DEF Asked, Asks
        <4>2. Within(store[n][x], x, 2 + Lasted(n))'
          BY <1>1, <1>2, <1>4, <1>7, <2>1, <3>1, Zenon
             DEF Fresh, PairFresh, AsksFresh, Within, Current
        <4> QED
          BY <1>1, <1>2, <1>3, <2>1, <3>1, <4>1, <4>2, Zenon
             DEF PairFresh, AsksFresh, Within, Current
      <3>2. CASE ~Asks(n, x)
        BY <1>1, <1>2, <1>4, <1>6, <1>7, <2>1, <3>2
           DEF Fresh, PairFresh, HearsFresh, Within, Current
      <3> QED
        BY <3>1, <3>2, Zenon
    <2>2. CASE x = n
      <3>1. CASE Asks(a, n)
        BY <1>1, <1>2, <1>7, <1>10, <2>2, <3>1, Zenon
           DEF Fresh, PairFresh, AsksFresh, Within, Current
      <3>2. CASE ~Asks(a, n) /\ Asks(n, a)
        <4>1. a \in todo'[n] \/ MDNS
          BY <1>1, <1>2, <2>2, <3>2, Zenon DEF Asks
        <4> QED
          BY <1>1, <1>2, <1>5, <1>7, <2>2, <3>2, <4>1, Zenon
             DEF Fresh, PairFresh, HearsFresh, Within, Current, InPass, Lasted, Asks
      <3>3. CASE ~Asks(a, n) /\ ~Asks(n, a)
        <4>1. store'[a][n] = Unknown
          BY <1>1, <1>2, <2>2, <3>3, Zenon DEF Known, Origin
        <4> QED
          BY <2>2, <3>3, <4>1, Zenon DEF PairFresh, HearsFresh, Within, Current
      <3> QED
        BY <3>1, <3>2, <3>3, Zenon
    <2>3. CASE a # n /\ x # n
      <3>1. PairFresh(a, x)
        BY <1>2, Zenon DEF Fresh
      <3> QED
        BY <1>1, <1>2, <1>6, <1>7, <1>10, <2>3, <3>1
           DEF PairFresh, AsksFresh, HearsFresh, Within, Current
    <2> QED
      BY <2>1, <2>2, <2>3, Zenon
  <1> QED
    BY <1>8, <1>9, <1>11, <1>12, Zenon DEF Known, Fresh

\* Peer p stores n as seen now, and n gets the record that p holds of itself.
LEMMA AnswerEffect ==
  ASSUME IInv, Known, Fresh, NEW n \in Nodes, NEW p \in Nodes, AnnounceAnswered(n, p)
  PROVE  /\ n \in up /\ p \in up /\ n # p /\ Asks(n, p) /\ pc[n] \in {"static", "mdns"}
         /\ store'[p][n] # Unknown /\ store'[p][n].age = 0 /\ store'[p][n].start = started[n]
         /\ \A x \in Nodes \ {n} : store'[p][x] = store[p][x]
         /\ \A a \in Nodes \ {p} : store'[a] = store[a]
         /\ got'[n][p] = store[p][p] /\ store[p][p] # Unknown
         /\ store[p][p].start = started[p] /\ store[p][p].age <= 1
         /\ got'[n][n] \in {got[n][n], Unknown, store'[p][n]}
         /\ \A a \in Nodes \ {n} : got'[a] = got[a]
  <1> DEFINE u == Upsert(store[p], n, selfMember(n))
             view == visibleMembers(u)
  <1>1. n \in up /\ p \in up /\ pc[n] \in {"static", "mdns"} /\ p \in todo[n]
    BY Zenon DEF AnnounceAnswered, Announcing, IInv, Passes
  <1>2. n # p /\ Asks(n, p)
    BY <1>1, Zenon DEF Known, Schedule
  <1>3. /\ u \in Members /\ u[n] \in Record /\ u[n].age = 0 /\ u[n].start = started[n]
        /\ \A x \in Nodes \ {n} : u[x] = store[p][x]
    BY <1>1, SelfUpsert, Zenon
  <1>4. store'[p] = u /\ \A a \in Nodes \ {p} : store'[a] = store[a]
    BY Zenon DEF AnnounceAnswered, HandleAnnounce, IInv, Views, HonestViews
  <1>5. /\ \A x \in Nodes : got'[n][x] = IF view[x] = Unknown THEN got[n][x] ELSE view[x]
        /\ \A a \in Nodes \ {n} : got'[a] = got[a]
    BY Zenon DEF AnnounceAnswered, Hydrated, IInv, Views, HonestViews
  <1>6. store[p][p] # Unknown /\ store[p][p].start = started[p] /\ store[p][p].age <= 1
    BY <1>1, ViewTypes DEF Fresh, SelfSeen, Current, Lasted
  <1> HIDE DEF u
  <1>7. view[p] = u[p] /\ view[n] \in {u[n], Unknown}
    <2>1. ~IsStale(u[p])
      <3>1. store[p][p].age \in Nat
        BY <1>6, ViewTypes, Zenon
      <3> QED
        BY <1>2, <1>3, <1>6, <3>1, ConfigAssumption DEF IsStale
    <2> QED
      BY <1>3, <2>1, PruneEffect, Zenon DEF visibleMembers
  <1> HIDE DEF view
  <1> QED
    BY <1>1, <1>2, <1>3, <1>4, <1>5, <1>6, <1>7, RecordIsKnown, Zenon

\* An announcement leaves both with a record of the other that is as fresh as it
\* can be.
LEMMA AnnounceAnsweredPair ==
  ASSUME IInv, AtMostTwo, Known, Fresh, NEW n \in Nodes, NEW p \in Nodes, AnnounceAnswered(n, p)
  PROVE  Known' /\ Fresh'
  <1>1. /\ n \in up /\ p \in up /\ n # p /\ Asks(n, p) /\ pc[n] \in {"static", "mdns"}
        /\ up \subseteq Nodes /\ \A a \in Nodes : a \in {n, p}
    BY AnswerEffect DEF AtMostTwo, IInv, Processes
  <1>2. /\ store'[p][n] # Unknown /\ store'[p][n].age = 0 /\ store'[p][n].start = started[n]
        /\ store'[p][p] = store[p][p] /\ store'[n] = store[n]
        /\ got'[n][p] = store[p][p] /\ store[p][p] # Unknown
        /\ store[p][p].start = started[p] /\ store[p][p].age <= 1
        /\ got'[n][n] \in {got[n][n], Unknown, store'[p][n]} /\ got'[p] = got[p]
    BY <1>1, AnswerEffect
  <1>3. /\ up' = up /\ starts' = starts /\ started' = started /\ overrun' = overrun
        /\ heard' = heard /\ pc' = pc /\ todo'[n] = todo[n] \ {p} /\ todo'[p] = todo[p]
    BY <1>1, Zenon DEF AnnounceAnswered, IInv, Passes, processVars, passVars
  <1>4. \A a \in Nodes : InPass(a)' = InPass(a) /\ Lasted(a)' = Lasted(a) /\ Lasted(a) \in {0, 1}
    BY <1>3, Zenon DEF InPass, Lasted
  <1>5. ASSUME NEW a \in Nodes PROVE Schedule(a)'
    BY <1>1, <1>3, <1>4, Zenon DEF Known, Schedule
  <1>6. ASSUME NEW a \in Nodes, NEW x \in Nodes PROVE Origin(a, x)'
    <2>1. started[n] <= starts
      BY Zenon DEF Known, Schedule
    <2>2. Dated(store[p][n])' /\ Dated(store[p][p])
      BY <1>2, <1>3, <2>1, Zenon DEF Known, Origin, Dated
    <2>3. InPass(n)
      BY <1>1, Zenon DEF InPass
    <2> QED
      <3>1. Origin(a, x) /\ Origin(p, p)
        BY Zenon DEF Known
      <3>2. CASE a = n
        BY <1>1, <1>2, <1>3, <1>4, <2>2, <2>3, <3>1, <3>2 DEF Origin, Dated
      <3>3. CASE a = p
        BY <1>1, <1>2, <1>3, <1>4, <2>2, <3>1, <3>3 DEF Origin, Dated
      <3> QED
        BY <1>1, <3>2, <3>3, Zenon
  <1>7. ASSUME NEW x \in up' PROVE SelfSeen(x)'
    <2>1. SelfSeen(x)
      BY <1>3, Zenon DEF Fresh
    <2> QED
      BY <1>1, <1>2, <1>3, <1>4, <2>1 DEF SelfSeen, Current
  <1>8. AsksFresh(n, p)'
    <2>1. AsksFresh(n, p)
      BY <1>1, Zenon DEF Fresh, PairFresh
    <2> QED
      <3>1. store[p][p].age \in Nat
        BY <1>2, ViewTypes
      <3>2. Within(got[n][p], p, 1 + Lasted(n))' /\ Current(got[n][p], p)'
        BY <1>1, <1>2, <1>3, <1>4, <3>1 DEF Within, Current
      <3>3. Within(store[n][p], p, IF pc[n] = "wait" THEN 1 ELSE 2 + Lasted(n))'
        BY <1>2, <1>3, <1>4, <2>1 DEF AsksFresh, Within, Current
      <3> QED
        BY <3>2, <3>3 DEF AsksFresh
  <1>9. PairFresh(p, n)'
    <2>1. Asked(p, n)' = Asked(p, n)
      BY <1>3, Zenon DEF Asked
    <2>2. PairFresh(p, n)
      BY <1>1, Zenon DEF Fresh
    <2> QED
      BY <1>1, <1>2, <1>3, <1>4, <2>1, <2>2 DEF PairFresh, AsksFresh, HearsFresh, Within, Current
  <1>10. PairFresh(n, p)'
    BY <1>1, <1>8, Zenon DEF PairFresh
  <1> QED
    BY <1>1, <1>3, <1>5, <1>6, <1>7, <1>9, <1>10 DEF Known, Fresh

\* Without losses, only a node that is down does not hear an announcement.
LEMMA AnnounceUnheardPair ==
  ASSUME IInv, AtMostTwo, Known, Fresh, NEW n \in Nodes, NEW p \in Nodes, AnnounceUnheard(n, p),
         lost = 0, lost' = 0
  PROVE  Known' /\ Fresh'
  <1>1. /\ n \in up /\ p \notin up /\ p \in todo[n] /\ pc[n] \in {"static", "mdns"}
        /\ up \subseteq Nodes
    BY DEF AnnounceUnheard, Announcing, IInv, Processes, Passes
  <1>2. n # p /\ Asks(n, p) /\ \A a \in Nodes : a \in {n, p}
    BY <1>1, Zenon DEF Known, Schedule, AtMostTwo
  <1>3. /\ up' = up /\ starts' = starts /\ started' = started /\ overrun' = overrun
        /\ heard' = heard /\ store' = store /\ pc' = pc /\ got'[p] = got[p]
        /\ todo'[n] = todo[n] \ {p} /\ todo'[p] = todo[p]
    BY <1>2, Zenon DEF AnnounceUnheard, IInv, Passes, Views, HonestViews, processVars, passVars
  <1>4. got'[n][n] = got[n][n] /\ got'[n][p] \in {got[n][p], heard[n][p]}
    <2>1. got'[n] = Unhydrated(n, p) /\ got[n] \in Members
      BY Zenon DEF AnnounceUnheard, IInv, Views, HonestViews
    <2> QED
      BY <1>2, <2>1, Zenon DEF Unhydrated, Members
  <1>5. \A a \in Nodes : InPass(a)' = InPass(a) /\ Lasted(a)' = Lasted(a)
    BY <1>3, Zenon DEF InPass, Lasted
  <1>6. ASSUME NEW a \in Nodes PROVE Schedule(a)'
    BY <1>1, <1>2, <1>3, <1>5, Zenon DEF Known, Schedule
  <1>7. ASSUME NEW a \in Nodes, NEW x \in Nodes PROVE Origin(a, x)'
    <2>1. InPass(n)
      BY <1>1, Zenon DEF InPass
    <2> QED
      <3>1. Origin(a, x)
        BY Zenon DEF Known
      <3> QED
        BY <1>2, <1>3, <1>4, <1>5, <2>1, <3>1 DEF Origin, Dated
  <1>8. ASSUME NEW x \in up' PROVE SelfSeen(x)'
    BY <1>1, <1>3, <1>5, Zenon DEF Fresh, SelfSeen, Current
  <1>9. \A x \in up' : up' \ {x} = {}
    BY <1>1, <1>2, <1>3
  <1> QED
    BY <1>6, <1>7, <1>8, <1>9, Zenon DEF Known, Fresh

\* The loop moves on when it has turned to all it was to ask.
LEMMA MoveOnPair ==
  ASSUME IInv, Known, Fresh, NEW n \in Nodes, StaticDone(n) \/ HydrateDone(n)
  PROVE  Known' /\ Fresh'
  <1>1. /\ up \subseteq Nodes /\ n \in up /\ pc[n] \in {"static", "mdns"} /\ todo[n] = {}
        /\ pc'[n] \in {"browse", "merge"} /\ (pc'[n] = "browse" => MDNS)
        /\ pc'[n] = "merge" => pc[n] = "mdns" \/ ~MDNS
    BY Zenon DEF StaticDone, HydrateDone, IInv, Processes, Passes
  <1>2. /\ up' = up /\ starts' = starts /\ started' = started /\ overrun' = overrun
        /\ heard' = heard /\ store' = store /\ got' = got /\ todo' = todo
        /\ \A a \in Nodes \ {n} : pc'[a] = pc[a]
    BY Zenon DEF StaticDone, HydrateDone, IInv, Passes, processVars, passVars
  <1>3. \A a \in Nodes : InPass(a)' = InPass(a) /\ Lasted(a)' = Lasted(a)
    BY <1>1, <1>2 DEF InPass, Lasted
  <1>4. \A a, x \in Nodes : Asked(a, x)' => Asked(a, x)
    BY <1>1, <1>2, Zenon DEF Asked
  <1>5. ASSUME NEW a \in Nodes PROVE Schedule(a)'
    BY <1>1, <1>2, <1>3, Zenon DEF Known, Schedule
  <1>6. ASSUME NEW a \in Nodes, NEW x \in Nodes PROVE Origin(a, x)'
    BY <1>2, <1>3, Zenon DEF Known, Origin, Dated
  <1>7. ASSUME NEW x \in up' PROVE SelfSeen(x)'
    BY <1>1, <1>2, <1>3, Zenon DEF Fresh, SelfSeen, Current
  <1>8. ASSUME NEW x \in up', NEW a \in up' \ {x} PROVE PairFresh(a, x)'
    BY <1>1, <1>2, <1>3, <1>4, Zenon DEF Fresh, PairFresh, AsksFresh, HearsFresh, Within, Current
  <1> QED
    BY <1>5, <1>6, <1>7, <1>8, Zenon DEF Known, Fresh

\* Without losses, every running peer answers the mDNS query.
LEMMA BrowsePair ==
  ASSUME IInv, Known, Fresh, NEW n \in Nodes, Browse(n), lost = 0, lost' = 0
  PROVE  Known' /\ Fresh'
  <1>1. PICK answered \in SUBSET Advertisers(n) :
          /\ lost' = lost + Cardinality(Advertisers(n) \ answered)
          /\ todo' = [todo EXCEPT ![n] = answered]
          /\ heard' = [heard EXCEPT ![n] =
               [x \in Nodes |-> IF x \in answered THEN LightRecord(x) ELSE Unknown]]
    BY Zenon DEF Browse
  <1>2. /\ up \subseteq Nodes /\ n \in up /\ pc[n] = "browse" /\ pc'[n] = "mdns" /\ MDNS
        /\ \A a \in Nodes \ {n} : pc'[a] = pc[a]
    BY Zenon DEF Browse, IInv, Processes, Passes, Known, Schedule
  <1>3. answered = up \ {n}
    <2>1. IsFiniteSet(Advertisers(n) \ answered)
      BY <1>2, ConfigAssumption, FS_Subset, Zenon DEF Advertisers
    <2>2. Cardinality(Advertisers(n) \ answered) \in Nat
      BY <2>1, FS_CardinalityType, Zenon
    <2>3. Cardinality(Advertisers(n) \ answered) = 0
      BY <1>1, <2>2
    <2>4. Advertisers(n) \ answered = {}
      BY <2>1, <2>3, FS_EmptySet, Zenon
    <2> QED
      BY <1>1, <2>4, Zenon DEF Advertisers
  <1>4. /\ up' = up /\ starts' = starts /\ started' = started /\ overrun' = overrun
        /\ store' = store /\ got' = got
        /\ todo'[n] = up \ {n} /\ \A a \in Nodes \ {n} : todo'[a] = todo[a]
    BY <1>1, <1>3, Zenon DEF Browse, IInv, Passes, processVars
  <1>5. /\ \A a \in Nodes \ {n} : heard'[a] = heard[a]
        /\ \A x \in Nodes : heard'[n][x] \in {LightRecord(x), Unknown}
    BY <1>1, Zenon DEF IInv, Views, HonestViews
  <1>6. \A a \in Nodes : InPass(a)' = InPass(a) /\ Lasted(a)' = Lasted(a)
    BY <1>2, <1>4 DEF InPass, Lasted
  <1>7. ASSUME NEW a \in Nodes PROVE Schedule(a)'
    BY <1>2, <1>4, <1>6, Zenon DEF Known, Schedule, Asks
  <1>8. ASSUME NEW a \in Nodes, NEW x \in Nodes PROVE Origin(a, x)'
    <2>1. LightRecord(x).start <= starts
      BY Zenon DEF LightRecord, Known, Schedule
    <2>2. Dated(heard[a][x])'
      BY <1>4, <1>5, <2>1 DEF Known, Origin, Dated
    <2> QED
      BY <1>2, <1>4, <1>6, <2>2, Zenon DEF Known, Origin, Dated
  <1>9. ASSUME NEW x \in up' PROVE SelfSeen(x)'
    BY <1>2, <1>4, <1>6, Zenon DEF Fresh, SelfSeen, Current
  <1>10. ASSUME NEW x \in up', NEW a \in up' \ {x} PROVE PairFresh(a, x)'
    <2>1. Asks(a, x) /\ AsksFresh(a, x)
      BY <1>2, <1>4, Zenon DEF Asks, Fresh, PairFresh
    <2>2. Asked(a, x)' => Asked(a, x)
      BY <1>2, <1>4, Zenon DEF Asked
    <2> QED
      BY <1>2, <1>4, <1>6, <2>1, <2>2, Zenon DEF PairFresh, AsksFresh, Within, Current
  <1> QED
    BY <1>7, <1>8, <1>9, <1>10, Zenon DEF Known, Fresh

\* The merge takes over what the pass collected.
LEMMA MergedRecord ==
  ASSUME IInv, NEW n \in Nodes, NEW x \in Nodes
  PROVE  LET merged == mergeDiscoveredMembers(n)[x] IN
           IF x = n \/ got[n][x] = Unknown THEN merged = store[n][x]
           ELSE merged # Unknown /\ merged.age = got[n][x].age /\ merged.start = got[n][x].start
  <1>1. mergeDiscoveredMembers(n)[x] = IF x = n \/ got[n][x] = Unknown THEN store[n][x]
                                       ELSE Upsert(store[n], x, got[n][x])[x]
    BY Zenon DEF mergeDiscoveredMembers
  <1>2. CASE x = n \/ got[n][x] = Unknown
    BY <1>1, <1>2, Zenon
  <1>3. CASE ~(x = n \/ got[n][x] = Unknown)
    <2> DEFINE r == got[n][x]
               u == Upsert(store[n], x, r)[x]
    <2>1. store[n] \in Members /\ r \in Record
      BY <1>3, ViewTypes, Zenon
    <2> HIDE DEF r
    <2>2. u \in Record /\ u.age = r.age /\ u.start = r.start
      BY <2>1, UpsertEffect, Zenon
    <2> QED
      BY <1>1, <1>3, <2>2, RecordIsKnown, Zenon DEF r
  <1> QED
    BY <1>2, <1>3, Zenon

\* A pass ends: what n did not collect from a peer it asked, the peer sent itself.
LEMMA RefreshEndPair ==
  ASSUME IInv, Known, Fresh, NEW n \in Nodes, RefreshEnd(n)
  PROVE  Known' /\ Fresh'
  <1>1. /\ up \subseteq Nodes /\ n \in up /\ pc[n] = "merge" /\ todo[n] = {}
        /\ pc'[n] = (IF n \in overrun THEN "due" ELSE "wait")
    BY Zenon DEF RefreshEnd, IInv, Processes, Passes, Known, Schedule
  <1>2. /\ up' = up /\ starts' = starts /\ started' = started /\ overrun' = overrun \ {n}
        /\ todo' = todo
        /\ \A a \in Nodes \ {n} :
              pc'[a] = pc[a] /\ store'[a] = store[a] /\ got'[a] = got[a] /\ heard'[a] = heard[a]
    BY Zenon DEF RefreshEnd, IInv, Passes, Views, HonestViews, processVars
  <1>3. \A x \in Nodes : got'[n][x] = Unknown /\ heard'[n][x] = Unknown
    <2>1. got'[n] = NoMembers /\ heard'[n] = NoMembers
      BY Zenon DEF RefreshEnd, IInv, Views, HonestViews
    <2> QED
      BY <2>1, NoMembersType, Zenon
  <1>4. \A x \in Nodes :
          IF x = n \/ got[n][x] = Unknown THEN store'[n][x] = store[n][x]
          ELSE /\ store'[n][x] # Unknown /\ store'[n][x].age = got[n][x].age
               /\ store'[n][x].start = got[n][x].start
    <2>1. store'[n] = mergeDiscoveredMembers(n)
      BY Zenon DEF RefreshEnd, IInv, Views, HonestViews
    <2> QED
      BY <2>1, MergedRecord
  <1>5. \A a \in Nodes \ {n} : InPass(a)' = InPass(a) /\ Lasted(a)' = Lasted(a)
    BY <1>2, Zenon DEF InPass, Lasted
  <1>6. InPass(n) /\ ~InPass(n)' /\ Lasted(n)' = 0
    BY <1>1, <1>2, Zenon DEF InPass, Lasted
  <1>7. ASSUME NEW a \in Nodes PROVE Schedule(a)'
    BY <1>1, <1>2, <1>5, Zenon DEF Known, Schedule
  <1>8. ASSUME NEW a \in Nodes, NEW x \in Nodes PROVE Origin(a, x)'
    <2>1. Origin(a, x)
      BY Zenon DEF Known
    <2> QED
      BY <1>2, <1>3, <1>4, <1>5, <1>6, <2>1 DEF Origin, Dated
  <1>9. ASSUME NEW x \in up' PROVE SelfSeen(x)'
    <2>1. SelfSeen(x)
      BY <1>2, Zenon DEF Fresh
    <2> QED
      BY <1>1, <1>2, <1>4, <1>5, <1>6, <2>1 DEF SelfSeen, Current, Lasted
  <1>10. ASSUME NEW x \in up', NEW a \in up' \ {x} PROVE PairFresh(a, x)'
    <2>1. CASE a = n
      <3>1. CASE Asks(n, x)
        <4>1. AsksFresh(n, x)
          BY <1>1, <1>2, <2>1, <3>1, Zenon DEF Fresh, PairFresh
        <4>2. Asked(n, x) /\ ~Asked(n, x)'
          BY <1>1, Zenon DEF Asked
        <4>3. x \in Nodes /\ x # n
          BY <1>1, <1>2, <2>1, Zenon
        <4>4. Current(store[n][x], x)' => store'[n][x].age <= 1 + Lasted(n)
          <5>1. CASE got[n][x] = Unknown
            <6>1. Within(store[n][x], x, Lasted(n)) /\ store'[n][x] = store[n][x]
              BY <1>4, <4>1, <4>2, <4>3, <5>1, Zenon DEF AsksFresh, Current
            <6> QED
              BY <1>2, <4>3, <6>1, ViewTypes DEF Within, Current, Lasted
          <5>2. CASE got[n][x] # Unknown
            BY <1>2, <1>4, <4>1, <4>3, <5>2, Zenon DEF AsksFresh, Within, Current
          <5> QED
            BY <5>1, <5>2, Zenon
        <4>5. ~Current(got[n][x], x)'
          BY <1>3, <4>3, Zenon DEF Current
        <4> QED
          BY <1>1, <1>6, <2>1, <3>1, <4>2, <4>4, <4>5 DEF PairFresh, AsksFresh, Within, Lasted
      <3>2. CASE ~Asks(n, x)
        <4>1. store'[n][x] = store[n][x]
          BY <1>1, <1>2, <1>4, <2>1, <3>2, Zenon DEF Known, Origin
        <4> QED
          BY <1>1, <1>2, <1>5, <2>1, <3>2, <4>1, Zenon
             DEF Fresh, PairFresh, HearsFresh, Within, Current
      <3> QED
        BY <3>1, <3>2, Zenon
    <2>2. CASE x = n
      <3>1. CASE Asks(a, n)
        <4>1. Asked(a, n)' = Asked(a, n)
          BY <1>1, <1>2, <2>2, Zenon DEF Asked
        <4> QED
          BY <1>1, <1>2, <1>5, <2>2, <3>1, <4>1, Zenon
             DEF Fresh, PairFresh, AsksFresh, Within, Current
      <3>2. CASE ~Asks(a, n)
        <4>1. Within(store[a][n], n, Lasted(n))
          BY <1>1, <1>2, <1>6, <2>2, <3>2, Zenon DEF Fresh, PairFresh, HearsFresh
        <4>2. store'[a][n] = store[a][n] /\ started' = started
          BY <1>1, <1>2, <2>2, Zenon
        <4>3. Current(store[a][n], n)' => store'[a][n].age <= Lasted(n)
          BY <4>1, <4>2, Zenon DEF Within, Current
        <4>4. HearsFresh(a, n)'
          BY <1>1, <1>6, <4>3 DEF HearsFresh, Within, Lasted
        <4> QED
          BY <2>2, <3>2, <4>4, Zenon DEF PairFresh
      <3> QED
        BY <3>1, <3>2, Zenon
    <2>3. CASE a # n /\ x # n
      <3>1. Asked(a, x)' = Asked(a, x)
        BY <1>1, <1>2, <2>3, Zenon DEF Asked
      <3> QED
        BY <1>1, <1>2, <1>5, <2>3, <3>1, Zenon
           DEF Fresh, PairFresh, AsksFresh, HearsFresh, Within, Current
    <2> QED
      BY <2>1, <2>2, <2>3, Zenon
  <1> QED
    BY <1>7, <1>8, <1>9, <1>10, Zenon DEF Known, Fresh

\* An interval passes: what is stored grows older, and so does the pass.
LEMMA TickPair ==
  ASSUME IInv, Known, Fresh, Tick, IInv'
  PROVE  Known' /\ Fresh'
  <1>1. /\ up \subseteq Nodes /\ overrun = {} /\ \A a \in up : pc[a] = "wait" \/ InPass(a)
        /\ \A a \in Nodes : a \in up <=> pc[a] # "down"
    BY Zenon DEF Tick, IInv, Processes, Passes, Pcs, InPass
  <1>2. /\ up' = up /\ starts' = starts /\ started' = started /\ todo' = todo
        /\ \A a \in Nodes : pc'[a] = IF pc[a] = "wait" THEN "due" ELSE pc[a]
        /\ overrun' = {a \in up : pc[a] # "wait"}
    BY Zenon DEF Tick, processVars
  <1>3. ASSUME NEW views \in [Nodes -> Members], NEW a \in Nodes, NEW x \in Nodes
        PROVE  /\ Older(views[a])[x] = Unknown <=> views[a][x] = Unknown
               /\ views[a][x] # Unknown =>
                    /\ Older(views[a])[x].start = views[a][x].start
                    /\ Older(views[a])[x].age <= views[a][x].age + 1
    <2>1. views[a] \in Members
      BY Zenon
    <2>2. views[a][x] # Unknown => views[a][x].age \in Nat
      BY <2>1, MaxAgeNat DEF Members, Record
    <2> QED
      BY <2>1, <2>2, OlderEffect
  <1>4. \A a, x \in Nodes :
          /\ store'[a][x] = Unknown <=> store[a][x] = Unknown
          /\ got'[a][x] = Unknown <=> got[a][x] = Unknown
          /\ heard'[a][x] = Unknown <=> heard[a][x] = Unknown
          /\ store[a][x] # Unknown => /\ store'[a][x].start = store[a][x].start
                                      /\ store'[a][x].age <= store[a][x].age + 1
          /\ got[a][x] # Unknown => /\ got'[a][x].start = got[a][x].start
                                    /\ got'[a][x].age <= got[a][x].age + 1
          /\ heard[a][x] # Unknown => heard'[a][x].start = heard[a][x].start
    <2>1. \A a \in Nodes : /\ store'[a] = Older(store[a]) /\ got'[a] = Older(got[a])
                           /\ heard'[a] = Older(heard[a])
      BY Zenon DEF Tick
    <2>2. store \in [Nodes -> Members] /\ got \in [Nodes -> Members] /\ heard \in [Nodes -> Members]
      BY Zenon DEF IInv, Views, HonestViews
    <2> QED
      BY <1>3, <2>1, <2>2
  <1>5. \A a \in Nodes : InPass(a)' = InPass(a)
    BY <1>2 DEF InPass
  <1>6. \A a \in up : Lasted(a) = 0 /\ Lasted(a)' = (IF pc[a] = "wait" THEN 0 ELSE 1)
    BY <1>1, <1>2, Zenon DEF Lasted
  <1>7. IInv'
    OBVIOUS
  <1>8. ASSUME NEW a \in Nodes PROVE Schedule(a)'
    BY <1>1, <1>2, <1>5, Zenon DEF Known, Schedule, InPass
  <1>9. ASSUME NEW a \in Nodes, NEW x \in Nodes PROVE Origin(a, x)'
    <2>1. Origin(a, x)
      BY Zenon DEF Known
    <2> QED
      BY <1>2, <1>4, <1>5, <2>1 DEF Origin, Dated
  <1>10. ASSUME NEW a \in Nodes, NEW x \in Nodes, NEW k \in Nat
         PROVE  /\ Within(store[a][x], x, k) => Within(store[a][x], x, k + 1)'
                /\ Within(got[a][x], x, k) => Within(got[a][x], x, k + 1)'
    <2>1. /\ store[a][x] # Unknown => store[a][x].age \in Nat
          /\ got[a][x] # Unknown => got[a][x].age \in Nat
      BY ViewTypes, Zenon
    <2>2. /\ store'[a][x] # Unknown => store'[a][x].age \in Nat
          /\ got'[a][x] # Unknown => got'[a][x].age \in Nat
      BY <1>7, MaxAgeNat DEF IInv, Views, HonestViews, Members, Record
    <2> QED
      BY <1>2, <1>4, <2>1, <2>2 DEF Current, Within
  <1>11. \A a, x \in Nodes : /\ Current(store[a][x], x)' <=> Current(store[a][x], x)
                             /\ Current(got[a][x], x)' <=> Current(got[a][x], x)
    BY <1>2, <1>4, Zenon DEF Current
  <1>12. ASSUME NEW x \in up' PROVE SelfSeen(x)'
    <2>1. x \in Nodes /\ SelfSeen(x)
      BY <1>1, <1>2, Zenon DEF Fresh
    <2>2. Current(store[x][x], x) /\ Within(store[x][x], x, 0)
      BY <1>1, <1>2, <1>6, <2>1, Zenon DEF SelfSeen, Within, InPass
    <2>3. Current(store[x][x], x)' /\ Within(store[x][x], x, 0 + 1)'
      BY <1>10, <1>11, <2>1, <2>2, Zenon
    <2> QED
      BY <1>2, <1>6, <2>1, <2>3 DEF SelfSeen, Within
  <1>13. ASSUME NEW x \in up', NEW a \in up' \ {x} PROVE PairFresh(a, x)'
    <2>1. x \in Nodes /\ a \in Nodes /\ PairFresh(a, x) /\ a \in up /\ x \in up
      BY <1>1, <1>2, Zenon DEF Fresh
    <2>2. CASE Asks(a, x) /\ pc[a] = "wait"
      <3>1. Within(store[a][x], x, 1)
        BY <2>1, <2>2, Zenon DEF PairFresh, AsksFresh
      <3>2. Within(store[a][x], x, 1 + 1)'
        BY <1>10, <2>1, <3>1, Zenon
      <3>3. pc'[a] = "due" /\ Lasted(a)' = 0 /\ ~Asked(a, x)'
        BY <1>2, <1>6, <2>1, <2>2, Zenon DEF Asked
      <3>4. ~Current(got[a][x], x)'
        BY <1>11, <2>1, <2>2, Zenon DEF Known, Origin, InPass, Current
      <3> QED
        BY <2>2, <3>2, <3>3, <3>4 DEF PairFresh, AsksFresh, Within
    <2>3. CASE Asks(a, x) /\ pc[a] # "wait"
      <3>1. pc'[a] = pc[a] /\ Lasted(a) = 0 /\ Lasted(a)' = 1 /\ Asked(a, x)' = Asked(a, x)
        BY <1>2, <1>6, <2>1, <2>3, Zenon DEF Asked
      <3>2. /\ Within(got[a][x], x, 1) /\ Within(store[a][x], x, 2)
            /\ Asked(a, x) /\ ~Current(got[a][x], x) => Within(store[a][x], x, 0)
        BY <2>1, <2>3, <3>1 DEF PairFresh, AsksFresh
      <3>3. /\ Within(got[a][x], x, 1 + 1)' /\ Within(store[a][x], x, 2 + 1)'
            /\ Asked(a, x) /\ ~Current(got[a][x], x) => Within(store[a][x], x, 0 + 1)'
        BY <1>10, <2>1, <3>2, Zenon
      <3> QED
        BY <1>11, <2>1, <2>3, <3>1, <3>3 DEF PairFresh, AsksFresh, Within
    <2>4. CASE ~Asks(a, x)
      <3>1. HearsFresh(a, x) /\ Lasted(x) = 0 /\ x \in up
        BY <1>6, <2>1, <2>4, Zenon DEF PairFresh
      <3>2. PICK k \in {0, 1} :
              k = IF pc[x] = "wait" \/ (InPass(x) /\ a \notin todo[x]) THEN 0 ELSE 1
        BY Zenon
      <3>3. Within(store[a][x], x, k + 1)'
        <4>1. Within(store[a][x], x, k)
          BY <3>1, <3>2 DEF HearsFresh, InPass
        <4> QED
          BY <1>10, <2>1, <4>1, Zenon
      <3>4. HearsFresh(a, x)'
        <4>1. CASE pc[x] = "wait"
          <5>1. pc'[x] = "due" /\ ~InPass(x)' /\ Lasted(x)' = 0 /\ k = 0
            BY <1>2, <1>6, <2>1, <3>2, <4>1, Zenon DEF InPass
          <5> QED
            BY <3>3, <5>1 DEF HearsFresh, Within
        <4>2. CASE pc[x] # "wait"
          <5>1. /\ pc'[x] = pc[x] /\ InPass(x) /\ InPass(x)' /\ Lasted(x)' = 1 /\ todo' = todo
                /\ k = IF a \notin todo[x] THEN 0 ELSE 1
            BY <1>1, <1>2, <1>5, <1>6, <2>1, <3>2, <4>2, Zenon
          <5> QED
            BY <3>3, <4>2, <5>1 DEF HearsFresh, Within
        <4> QED
          BY <4>1, <4>2, Zenon
      <3> QED
        BY <2>4, <3>4, Zenon DEF PairFresh
    <2> QED
      BY <2>2, <2>3, <2>4, Zenon
  <1> QED
    BY <1>8, <1>9, <1>12, <1>13, Zenon DEF Known, Fresh

\* Nothing changes.
LEMMA StutterPair ==
  ASSUME Known, Fresh, UNCHANGED vars
  PROVE  Known' /\ Fresh'
  <1>1. UNCHANGED <<up, started, starts, overrun, heard, store, pc, todo, got, lost>>
    BY Zenon DEF vars, processVars, passVars
  <1>2. ASSUME NEW n \in Nodes, NEW x \in Nodes, Schedule(n), Origin(n, x)
        PROVE  Schedule(n)' /\ Origin(n, x)'
    BY <1>1, <1>2 DEF Schedule, Origin, Dated, InPass
  <1>3. ASSUME NEW x \in up, SelfSeen(x) PROVE SelfSeen(x)'
    BY <1>1, <1>3 DEF SelfSeen, Current, Lasted
  <1>4. ASSUME NEW n \in up, NEW x \in up, PairFresh(n, x) PROVE PairFresh(n, x)'
    BY <1>1, <1>4, Zenon
       DEF PairFresh, AsksFresh, HearsFresh, Within, Current, Asked, InPass, Lasted
  <1> QED
    BY <1>1, <1>2, <1>3, <1>4, Zenon DEF Known, Fresh

\* No record of the other running node is older than three intervals.
LEMMA PairFreshBound ==
  ASSUME IInv, PairInv
  PROVE  LiveMembersStayFresh
  <1> SUFFICES ASSUME lost = 0, StaleAfter >= 3, NEW n \in up, NEW x \in up,
                      Current(store[n][x], x)
               PROVE  ~IsStale(store[n][x])
    BY Zenon DEF LiveMembersStayFresh, Current
  <1>1. n \in Nodes /\ store[n][x].age \in Nat /\ Fresh
    BY ViewTypes, Zenon DEF IInv, Processes, PairInv, Current
  <1>2. store[n][x].age <= 3
    <2>1. CASE n = x
      BY <1>1, <2>1 DEF Fresh, SelfSeen, Lasted
    <2>2. CASE n # x
      <3>1. PairFresh(n, x)
        BY <1>1, <2>2, Zenon DEF Fresh
      <3> QED
        BY <1>1, <3>1 DEF PairFresh, AsksFresh, HearsFresh, Within, Lasted
    <2> QED
      BY <2>1, <2>2, Zenon
  <1> QED
    BY <1>1, <1>2, ConfigAssumption DEF IsStale

-------------------------------------------------------------------------------
(* The invariant of any number of nodes *)

\* Storing an announcement keeps a view honest: the announcer is running.
LEMMA UpsertHonest ==
  ASSUME IInv, NEW n \in up, NEW members \in Members, Honest(members, silence)
  PROVE  /\ Upsert(members, n, selfMember(n)) \in Members
         /\ Honest(Upsert(members, n, selfMember(n)), silence)
  <1>1. n \in Nodes
    BY DEF IInv, Processes
  <1> QED
    BY <1>1, SelfMember, UpsertEffect DEF Honest

\* One node's view is replaced by an honest one.
LEMMA ReplaceView ==
  ASSUME NEW s, NEW views, HonestViews(views, s), NEW n \in Nodes,
         NEW members \in Members, Honest(members, s)
  PROVE  HonestViews([views EXCEPT ![n] = members], s)
  <1>1. [views EXCEPT ![n] = members] \in [Nodes -> Members]
    BY DEF HonestViews
  <1>2. \A k \in Nodes : [views EXCEPT ![n] = members][k] = IF k = n THEN members ELSE views[k]
    BY DEF HonestViews
  <1> QED
    BY <1>1, <1>2 DEF HonestViews

\* A view without records is honest.
LEMMA NoMembersHonest == \A s : NoMembers \in Members /\ Honest(NoMembers, s)
  BY NoMembersType DEF Honest

\* A view that drops records of an honest one is honest.
LEMMA PruneHonest ==
  ASSUME NEW s, NEW members \in Members, Honest(members, s), NEW self
  PROVE  /\ Prune(members, self) \in Members /\ Honest(Prune(members, self), s)
         /\ visibleMembers(members) \in Members /\ Honest(visibleMembers(members), s)
  BY PruneEffect DEF Honest

\* The reply of p, the failed announce and the merge hold honest records only.
LEMMA HydratedHonest ==
  ASSUME IInv, NEW n \in up, NEW p \in Nodes
  PROVE  Hydrated(n, p) \in Members /\ Honest(Hydrated(n, p), silence)
  <1> DEFINE view == visibleMembers(Upsert(store[p], n, selfMember(n)))
  <1>1. /\ store[p] \in Members /\ Honest(store[p], silence) /\ n \in Nodes
        /\ got[n] \in Members /\ Honest(got[n], silence)
    BY DEF IInv, Views, HonestViews, Processes
  <1>2. view \in Members /\ Honest(view, silence)
    BY <1>1, UpsertHonest, PruneHonest
  <1>3. Hydrated(n, p) = [x \in Nodes |-> IF view[x] = Unknown THEN got[n][x] ELSE view[x]]
    BY DEF Hydrated
  <1> HIDE DEF view
  <1> QED
    BY <1>1, <1>2, <1>3 DEF Members, Honest

\* The same for the record that is kept when an announce fails
LEMMA UnhydratedHonest ==
  ASSUME IInv, NEW n \in Nodes, NEW p \in Nodes
  PROVE  Unhydrated(n, p) \in Members /\ Honest(Unhydrated(n, p), silence)
  <1>1. /\ got[n] \in Members /\ Honest(got[n], silence)
        /\ heard[n] \in Members /\ Honest(heard[n], silence)
    BY DEF IInv, Views, HonestViews
  <1> QED
    BY <1>1 DEF Unhydrated, Members, Honest

\* The same for the merge, which moreover keeps what is rich
LEMMA MergedEffect ==
  ASSUME IInv, NEW n \in Nodes, NEW x \in Nodes
  PROVE  /\ mergeDiscoveredMembers(n) \in Members
         /\ Honest(mergeDiscoveredMembers(n), silence)
         /\ store[n][x] # Unknown /\ store[n][x].rich => mergeDiscoveredMembers(n)[x].rich
  <1> DEFINE merged(y) == IF y = n \/ got[n][y] = Unknown THEN store[n][y]
                          ELSE Upsert(store[n], y, got[n][y])[y]
  <1>1. /\ got[n] \in Members /\ Honest(got[n], silence)
        /\ store[n] \in Members /\ Honest(store[n], silence)
    BY DEF IInv, Views, HonestViews
  <1>2. ASSUME NEW y \in Nodes
        PROVE  /\ merged(y) \in Record \cup {Unknown}
               /\ merged(y) # Unknown => merged(y).age >= silence[y]
               /\ store[n][y] # Unknown /\ store[n][y].rich => merged(y).rich
    <2>1. CASE y = n \/ got[n][y] = Unknown
      BY <1>1, <2>1 DEF Members, Honest
    <2>2. CASE ~(y = n \/ got[n][y] = Unknown)
      <3>1. got[n][y] \in Record /\ got[n][y].age >= silence[y]
        BY <1>1, <2>2 DEF Members, Honest
      <3>2. /\ merged(y) \in Record /\ merged(y).age = got[n][y].age
            /\ merged(y).rich =
                  (got[n][y].rich \/ (store[n][y] # Unknown /\ store[n][y].rich))
        BY <1>1, <2>2, <3>1, UpsertEffect, Zenon
      <3> QED
        BY <3>1, <3>2, Zenon
    <2> QED
      BY <2>1, <2>2
  <1>3. mergeDiscoveredMembers(n) = [y \in Nodes |-> merged(y)]
    BY DEF mergeDiscoveredMembers
  <1> HIDE DEF merged
  <1> QED
    BY <1>2, <1>3 DEF Members, Honest

-------------------------------------------------------------------------------
\* No process runs, nobody knows anything.
LEMMA InitIInv == Init => IInv
  <1> SUFFICES ASSUME Init PROVE IInv
    OBVIOUS
  <1>1. Views
    BY NoMembersHonest DEF Init, Views, HonestViews
  <1>2. Processes
    <2>1. 0 \in 0..MaxStarts /\ MaxAge \in 0..MaxAge
      BY MaxAgeNat
    <2> QED
      BY <2>1 DEF Init, Processes
  <1>3. Passes
    BY DEF Init, Passes, Pcs
  <1>4. lost \in 0..MaxLost
    BY MaxAgeNat DEF Init
  <1> QED
    BY <1>1, <1>2, <1>3, <1>4 DEF IInv

\* A start: the process is seen from now on, and knows only itself.
LEMMA StartIInv ==
  ASSUME IInv, NEW n \in Nodes, Start(n)
  PROVE  IInv'
  <1>1. starts + 1 \in 1..MaxStarts /\ starts + 1 \in 0..MaxStarts
    BY MaxAgeNat DEF Start, IInv, Processes
  <1>2. 0 \in 0..MaxAge
    BY MaxAgeNat
  <1>3. Processes'
    <2>1. up' = up \cup {n} /\ starts' = starts + 1
          /\ started' = [started EXCEPT ![n] = starts + 1]
          /\ silence' = [silence EXCEPT ![n] = 0]
      BY DEF Start
    <2>2. PICK p \in Preferences[n] : pref' = [pref EXCEPT ![n] = p]
      BY Zenon DEF Start
    <2>3. p \in Nat
      BY ConfigAssumption, <2>2
    <2>4. pref' \in [Nodes -> Nat]
      BY <2>2, <2>3 DEF IInv, Processes
    <2> QED
      BY <1>1, <1>2, <2>1, <2>4 DEF IInv, Processes
  <1>4. Passes'
    BY DEF Start, IInv, Passes, Pcs, passVars
  <1>5. ASSUME NEW views, HonestViews(views, silence)
        PROVE  HonestViews(views, silence')
    <2>1. \A x \in Nodes : silence'[x] = IF x = n THEN 0 ELSE silence[x]
      BY DEF Start, IInv, Processes
    <2>2. ASSUME NEW k \in Nodes, NEW x \in Nodes, views[k][x] # Unknown
          PROVE  views[k][x].age >= silence'[x]
      <3>1. views[k][x] \in Record /\ views[k][x].age >= silence[x]
        BY <1>5, <2>2 DEF HonestViews, Honest, Members
      <3>2. views[k][x].age \in 0..MaxAge
        BY <3>1 DEF Record
      <3> QED
        BY <2>1, <3>1, <3>2, MaxAgeNat
    <2> QED
      BY <1>5, <2>2 DEF HonestViews, Honest
  <1>6. HonestViews(store', silence')
    <2>1. PICK p \in Preferences[n] :
            store' = [store EXCEPT ![n] = [NoMembers EXCEPT ![n] =
                        [age |-> 0, start |-> starts + 1, pref |-> p, rich |-> TRUE]]]
      BY Zenon DEF Start
    <2> DEFINE self == [age |-> 0, start |-> starts + 1, pref |-> p, rich |-> TRUE]
               own == [NoMembers EXCEPT ![n] = self]
    <2>2. self \in Record /\ self.age = 0
      BY <1>1, <1>2, ConfigAssumption DEF Record
    <2>3. silence'[n] = 0
      BY DEF Start, IInv, Processes
    <2>4. store' = [store EXCEPT ![n] = own]
      BY <2>1
    <2> HIDE DEF self
    <2>5. own \in Members /\ Honest(own, silence')
      BY <2>2, <2>3, NoMembersType DEF Members, Honest
    <2> HIDE DEF own
    <2>6. HonestViews(store, silence')
      BY <1>5 DEF IInv, Views
    <2> QED
      BY <2>4, <2>5, <2>6, ReplaceView, Zenon
  <1>7. Views'
    <2>1. got' = got /\ heard' = heard
      BY DEF Start, passVars
    <2>2. HonestViews(got, silence') /\ HonestViews(heard, silence')
      BY <1>5 DEF IInv, Views
    <2> QED
      BY <1>6, <2>1, <2>2 DEF Views
  <1>8. lost' \in 0..MaxLost
    BY DEF Start, IInv
  <1> QED
    BY <1>3, <1>4, <1>7, <1>8 DEF IInv

\* A process ends: its views are gone, its silence is not yet counted.
LEMMA CrashIInv ==
  ASSUME IInv, NEW n \in Nodes, Crash(n)
  PROVE  IInv'
  <1>1. Processes'
    BY DEF Crash, IInv, Processes
  <1>2. Passes'
    BY DEF Crash, IInv, Passes, Pcs
  <1>3. Views'
    <2>1. silence' = silence
      BY DEF Crash
    <2> QED
      BY <2>1, NoMembersHonest, ReplaceView, Zenon DEF Crash, IInv, Views
  <1>4. lost' \in 0..MaxLost
    BY DEF Crash, IInv
  <1> QED
    BY <1>1, <1>2, <1>3, <1>4 DEF IInv

\* What all discovery steps leave alone
LEMMA SameProcesses ==
  ASSUME IInv, UNCHANGED <<processVars, silence>>
  PROVE  Processes'
  BY DEF IInv, Processes, processVars

\* The node refreshes its own record and prunes stale ones.
LEMMA RefreshStartIInv ==
  ASSUME IInv, NEW n \in Nodes, RefreshStart(n)
  PROVE  IInv'
  <1>1. n \in up
    BY DEF RefreshStart, IInv, Passes
  <1>2. Passes'
    <2>1. Seeds[n] \ {n} \in SUBSET Nodes
      BY ConfigAssumption
    <2> QED
      BY <2>1 DEF RefreshStart, IInv, Passes, Pcs, processVars, passVars
  <1>3. Views'
    <2> DEFINE refreshed == Prune(Upsert(store[n], n, selfMember(n)), n)
    <2>1. store[n] \in Members /\ Honest(store[n], silence)
      BY DEF IInv, Views, HonestViews
    <2>2. refreshed \in Members /\ Honest(refreshed, silence)
      BY <1>1, <2>1, UpsertHonest, PruneHonest
    <2>3. /\ store' = [store EXCEPT ![n] = refreshed] /\ got' = [got EXCEPT ![n] = NoMembers]
          /\ heard' = heard /\ silence' = silence
      BY DEF RefreshStart, passVars
    <2> HIDE DEF refreshed
    <2>4. HonestViews(store', silence) /\ HonestViews(got', silence)
      BY <2>2, <2>3, NoMembersHonest, ReplaceView, Zenon DEF IInv, Views
    <2> QED
      BY <2>3, <2>4 DEF IInv, Views
  <1> QED
    BY <1>2, <1>3, SameProcesses DEF RefreshStart, IInv

\* The three outcomes of an announcement of n to p
LEMMA AnnounceIInv ==
  ASSUME IInv, NEW n \in Nodes, NEW p \in Nodes,
         AnnounceAnswered(n, p) \/ AnnounceUnheard(n, p) \/ ReplyLost(n, p)
  PROVE  IInv'
  <1>1. n \in up
    BY DEF AnnounceAnswered, AnnounceUnheard, ReplyLost, Announcing, IInv, Passes
  <1>2. /\ UNCHANGED <<processVars, passVars, pc, silence>>
        /\ todo' = [todo EXCEPT ![n] = todo[n] \ {p}]
    BY DEF AnnounceAnswered, AnnounceUnheard, ReplyLost
  <1>3. Passes'
    BY <1>2 DEF IInv, Passes, processVars, passVars
  <1>4. lost' \in 0..MaxLost
    BY MaxAgeNat DEF AnnounceAnswered, AnnounceUnheard, ReplyLost, IInv
  <1>5. HonestViews(store', silence)
    <2>1. store[p] \in Members /\ Honest(store[p], silence)
      BY DEF IInv, Views, HonestViews
    <2>2. \/ store' = store
          \/ store' = [store EXCEPT ![p] = Upsert(store[p], n, selfMember(n))]
      BY DEF AnnounceAnswered, AnnounceUnheard, ReplyLost, HandleAnnounce
    <2>3. HonestViews([store EXCEPT ![p] = Upsert(store[p], n, selfMember(n))], silence)
      BY <1>1, <2>1, UpsertHonest, ReplaceView, Zenon DEF IInv, Views
    <2> QED
      BY <2>2, <2>3 DEF IInv, Views
  <1>6. HonestViews(got', silence)
    <2>1. \/ got' = [got EXCEPT ![n] = Hydrated(n, p)]
          \/ got' = [got EXCEPT ![n] = Unhydrated(n, p)]
      BY DEF AnnounceAnswered, AnnounceUnheard, ReplyLost
    <2>2. HonestViews([got EXCEPT ![n] = Hydrated(n, p)], silence)
      BY <1>1, HydratedHonest, ReplaceView, Zenon DEF IInv, Views
    <2>3. HonestViews([got EXCEPT ![n] = Unhydrated(n, p)], silence)
      BY UnhydratedHonest, ReplaceView, Zenon DEF IInv, Views
    <2> QED
      BY <2>1, <2>2, <2>3, Zenon
  <1>7. Views'
    BY <1>2, <1>5, <1>6 DEF IInv, Views, passVars
  <1> QED
    BY <1>2, <1>3, <1>4, <1>7, SameProcesses DEF IInv

\* The steps that only move the loop on
LEMMA MoveOnIInv ==
  ASSUME IInv, NEW n \in Nodes, StaticDone(n) \/ HydrateDone(n)
  PROVE  IInv'
  <1>1. /\ UNCHANGED <<processVars, passVars, store, todo, got, lost, silence>>
        /\ pc[n] # "down"
        /\ \E next \in {"browse", "merge"} : pc' = [pc EXCEPT ![n] = next]
    BY DEF StaticDone, HydrateDone
  <1>2. Passes'
    BY <1>1 DEF IInv, Passes, Pcs, processVars, passVars
  <1>3. Views'
    BY <1>1 DEF IInv, Views, passVars
  <1> QED
    BY <1>1, <1>2, <1>3, SameProcesses DEF IInv

\* mDNS answers come from running peers.
LEMMA BrowseIInv ==
  ASSUME IInv, NEW n \in Nodes, Browse(n)
  PROVE  IInv'
  <1>1. PICK answered \in SUBSET Advertisers(n) :
          /\ lost + Cardinality(Advertisers(n) \ answered) <= MaxLost
          /\ lost' = lost + Cardinality(Advertisers(n) \ answered)
          /\ todo' = [todo EXCEPT ![n] = answered]
          /\ heard' = [heard EXCEPT ![n] =
               [x \in Nodes |-> IF x \in answered THEN LightRecord(x) ELSE Unknown]]
    BY Zenon DEF Browse
  <1>2. answered \subseteq up /\ up \subseteq Nodes /\ n \in up
    BY DEF Advertisers, IInv, Processes, Passes, Browse
  <1>3. lost' \in 0..MaxLost
    <2>1. IsFiniteSet(Advertisers(n) \ answered)
      BY <1>2, ConfigAssumption, FS_Subset, Zenon DEF Advertisers
    <2>2. Cardinality(Advertisers(n) \ answered) \in Nat
      BY <2>1, FS_CardinalityType
    <2> QED
      BY <1>1, <2>2, MaxAgeNat DEF IInv
  <1>4. Passes'
    BY <1>1, <1>2 DEF Browse, IInv, Passes, Pcs, processVars
  <1>5. HonestViews(heard', silence)
    <2> DEFINE answers == [x \in Nodes |-> IF x \in answered THEN LightRecord(x) ELSE Unknown]
    <2>1. \A x \in answered : LightRecord(x) \in Record /\ LightRecord(x).age >= silence[x]
      <3>1. \A x \in answered : LightRecord(x) \in Record /\ LightRecord(x).age = 0
                               /\ silence[x] = 0
        BY <1>2, SelfMember
      <3> QED
        BY <3>1
    <2>2. answers \in Members /\ Honest(answers, silence)
      BY <2>1 DEF Members, Honest
    <2> HIDE DEF answers
    <2>3. heard' = [heard EXCEPT ![n] = answers]
      BY <1>1 DEF answers
    <2> QED
      BY <2>2, <2>3, ReplaceView, Zenon DEF IInv, Views
  <1>6. Views'
    BY <1>5 DEF Browse, IInv, Views
  <1> QED
    BY <1>3, <1>4, <1>6, SameProcesses DEF Browse, IInv

\* The pass ends with the merge of what was collected.
LEMMA RefreshEndIInv ==
  ASSUME IInv, NEW n \in Nodes, RefreshEnd(n)
  PROVE  IInv'
  <1>1. Passes'
    BY DEF RefreshEnd, IInv, Passes, Pcs, processVars
  <1>2. HonestViews(store', silence)
    BY MergedEffect, ReplaceView, Zenon DEF RefreshEnd, IInv, Views
  <1>3. HonestViews(got', silence) /\ HonestViews(heard', silence)
    BY NoMembersHonest, ReplaceView, Zenon DEF RefreshEnd, IInv, Views
  <1>4. Views'
    BY <1>2, <1>3 DEF RefreshEnd, Views
  <1> QED
    BY <1>1, <1>4, SameProcesses DEF RefreshEnd, IInv

\* An interval passes: records grow older with the silence they are about.
LEMMA TickIInv ==
  ASSUME IInv, Tick
  PROVE  IInv'
  <1> DEFINE later(x) == IF x \in up \/ silence[x] = MaxAge THEN silence[x] ELSE silence[x] + 1
  <1>1. \A x \in Nodes : silence'[x] = later(x)
    BY DEF Tick
  <1>2. silence' \in [Nodes -> 0..MaxAge]
    <2>1. \A x \in Nodes : later(x) \in 0..MaxAge
      BY MaxAgeNat DEF IInv, Processes
    <2> QED
      BY <2>1 DEF Tick
  <1>3. Processes'
    BY <1>1, <1>2 DEF Tick, IInv, Processes, processVars
  <1>4. Passes'
    BY DEF Tick, IInv, Passes, Pcs, processVars
  <1>5. ASSUME NEW views, HonestViews(views, silence)
        PROVE  HonestViews([n \in Nodes |-> Older(views[n])], silence')
    <2>1. \A n \in Nodes : views[n] \in Members /\ Older(views[n]) \in Members
      BY <1>5, OlderEffect DEF HonestViews
    <2>2. ASSUME NEW n \in Nodes, NEW x \in Nodes, Older(views[n])[x] # Unknown
          PROVE  Older(views[n])[x].age >= silence'[x]
      <3>1. /\ views[n][x] # Unknown
            /\ Older(views[n])[x].age = IF views[n][x].age = MaxAge THEN MaxAge
                                         ELSE views[n][x].age + 1
        BY <2>1, <2>2, OlderEffect
      <3>2. views[n][x].age >= silence[x]
        BY <1>5, <3>1 DEF HonestViews, Honest
      <3>3. views[n][x].age \in 0..MaxAge
        BY <2>1, <3>1 DEF Members, Record
      <3>4. silence[x] \in 0..MaxAge /\ (silence'[x] = silence[x] \/ silence'[x] = silence[x] + 1)
        BY <1>1 DEF IInv, Processes
      <3>5. silence'[x] \in 0..MaxAge
        BY <1>2
      <3> QED
        BY <3>1, <3>2, <3>3, <3>4, <3>5, MaxAgeNat
    <2> QED
      BY <2>1, <2>2 DEF HonestViews, Honest
  <1>6. Views'
    <2>1. /\ store' = [n \in Nodes |-> Older(store[n])]
          /\ got' = [n \in Nodes |-> Older(got[n])]
          /\ heard' = [n \in Nodes |-> Older(heard[n])]
      BY DEF Tick
    <2> QED
      BY <1>5, <2>1, Zenon DEF IInv, Views
  <1>7. lost' \in 0..MaxLost
    BY DEF Tick, IInv
  <1> QED
    BY <1>3, <1>4, <1>6, <1>7 DEF IInv

\* Nothing changes.
LEMMA StutterIInv ==
  ASSUME IInv, UNCHANGED vars
  PROVE  IInv'
  <1>1. UNCHANGED <<up, started, pref, starts, overrun, heard, store, pc, todo, got, lost, silence>>
    BY DEF vars, processVars, passVars
  <1> QED
    BY <1>1 DEF IInv, Views, Processes, Passes

\* The invariant of the proofs holds.
THEOREM Invariance == Spec => []IInv
  <1>1. Init => IInv
    BY InitIInv
  <1>2. IInv /\ [Next]_vars => IInv'
    <2> SUFFICES ASSUME IInv, [Next]_vars PROVE IInv'
      OBVIOUS
    <2>1. ASSUME NEW n \in Nodes, DiscoveryStep(n) PROVE IInv'
      <3>1. CASE Announce(n)
        BY <3>1, AnnounceIInv DEF Announce
      <3> QED
        BY <2>1, <3>1, RefreshStartIInv, MoveOnIInv, BrowseIInv, RefreshEndIInv
           DEF DiscoveryStep
    <2> QED
      BY <2>1, StartIInv, CrashIInv, TickIInv, StutterIInv DEF Next
  <1> QED
    BY <1>1, <1>2, PTL DEF Spec

\* Every variable keeps its type.
THEOREM TypeCorrect == Spec => []TypeOK
  <1>1. IInv => TypeOK
    BY DEF IInv, Views, HonestViews, Processes, Passes, TypeOK
  <1> QED
    BY <1>1, Invariance, PTL

\* However announcements, replies, mDNS answers, merges, crashes and restarts
\* interleave, no node holds a record that is fresher than the process it is
\* about: mergeDiscoveredMembers keeps the remote last_seen.
THEOREM ResurrectionImpossible == Spec => []NoResurrection
  <1>1. IInv => NoResurrection
    BY DEF IInv, Views, HonestViews, Honest, NoResurrection
  <1> QED
    BY <1>1, Invariance, PTL

-------------------------------------------------------------------------------
\* What RichRecordsStay says of one store
KeepsRich(before, after) ==
    \A x \in Nodes : before[x] # Unknown /\ after[x] # Unknown /\ before[x].rich => after[x].rich

\* A store that Upsert, Prune and the passing of time change keeps what is rich.
LEMMA UpsertKeepsRich ==
  ASSUME IInv, NEW n \in up, NEW p \in Nodes
  PROVE  /\ KeepsRich(store[p], Upsert(store[p], n, selfMember(n)))
         /\ KeepsRich(store[p], Prune(Upsert(store[p], n, selfMember(n)), p))
  <1> DEFINE u == Upsert(store[p], n, selfMember(n))
  <1>1. store[p] \in Members /\ n \in Nodes
    BY SelfUpsert
  <1>2. u \in Members /\ u[n].rich /\ \A y \in Nodes \ {n} : u[y] = store[p][y]
    BY SelfUpsert, Zenon
  <1> HIDE DEF u
  <1>3. KeepsRich(store[p], u)
    BY <1>1, <1>2 DEF KeepsRich
  <1>4. \A x \in Nodes : Prune(u, p)[x] \in {u[x], Unknown}
    BY <1>2, PruneEffect
  <1>5. KeepsRich(store[p], Prune(u, p))
    BY <1>3, <1>4 DEF KeepsRich
  <1> QED
    BY <1>3, <1>5 DEF u

\* A step that changes one store, and keeps what is rich in it, keeps it in all.
LEMMA OneStoreKeepsRich ==
  ASSUME IInv, NEW n \in Nodes, NEW members,
         store' = [store EXCEPT ![n] = members], KeepsRich(store[n], members)
  PROVE  \A k \in Nodes : KeepsRich(store[k], store'[k])
  <1>1. \A k \in Nodes : store'[k] = IF k = n THEN members ELSE store[k]
    BY DEF IInv, Views, HonestViews
  <1>2. \A k \in Nodes : KeepsRich(store[k], store[k])
    BY DEF KeepsRich
  <1> QED
    BY <1>1, <1>2

\* No step of Discover or its loop, no announcement and no tick makes a store
\* forget the capabilities of a member it keeps: mergeRichFields takes them from
\* the stored record when an mDNS answer has none.
THEOREM RichCorrect == Spec => RichRecordsStay
  <1> DEFINE Kept == \A k \in Nodes : KeepsRich(store[k], store'[k])
  <1>1. ASSUME IInv, [Next]_vars PROVE Kept
    <2>1. CASE store' = store
      BY <2>1 DEF KeepsRich
    <2>2. ASSUME NEW n \in Nodes, Start(n) PROVE Kept
      <3>1. PICK p \in Preferences[n] :
              store' = [store EXCEPT ![n] = [NoMembers EXCEPT ![n] =
                          [age |-> 0, start |-> starts + 1, pref |-> p, rich |-> TRUE]]]
        BY <2>2, Zenon DEF Start
      <3> DEFINE self == [age |-> 0, start |-> starts + 1, pref |-> p, rich |-> TRUE]
                 own == [NoMembers EXCEPT ![n] = self]
      <3>2. self.rich
        OBVIOUS
      <3>3. store' = [store EXCEPT ![n] = own]
        BY <3>1
      <3> HIDE DEF self
      <3>4. KeepsRich(store[n], own)
        BY <3>2, NoMembersType DEF KeepsRich, Members
      <3> HIDE DEF own
      <3> QED
        BY <1>1, <3>3, <3>4, OneStoreKeepsRich, Zenon
    <2>3. ASSUME NEW n \in Nodes, Crash(n) PROVE Kept
      <3>1. KeepsRich(store[n], NoMembers)
        BY NoMembersType DEF KeepsRich
      <3> QED
        BY <1>1, <2>3, <3>1, OneStoreKeepsRich, Zenon DEF Crash
    <2>4. ASSUME NEW n \in Nodes, RefreshStart(n) PROVE Kept
      <3>1. n \in up
        BY <1>1, <2>4 DEF RefreshStart, IInv, Passes
      <3> QED
        BY <1>1, <2>4, <3>1, UpsertKeepsRich, OneStoreKeepsRich, Zenon DEF RefreshStart
    <2>5. ASSUME NEW n \in Nodes, Announce(n) PROVE Kept
      <3>1. PICK p \in Nodes :
              AnnounceAnswered(n, p) \/ AnnounceUnheard(n, p) \/ ReplyLost(n, p)
        BY <2>5 DEF Announce
      <3>2. n \in up
        BY <1>1, <3>1
           DEF AnnounceAnswered, AnnounceUnheard, ReplyLost, Announcing, IInv, Passes
      <3>3. \/ store' = store
            \/ store' = [store EXCEPT ![p] = Upsert(store[p], n, selfMember(n))]
        BY <3>1 DEF AnnounceAnswered, AnnounceUnheard, ReplyLost, HandleAnnounce
      <3> QED
        BY <1>1, <2>1, <3>2, <3>3, UpsertKeepsRich, OneStoreKeepsRich, Zenon
    <2>6. ASSUME NEW n \in Nodes, RefreshEnd(n) PROVE Kept
      <3>1. KeepsRich(store[n], mergeDiscoveredMembers(n))
        BY <1>1, MergedEffect, Zenon DEF KeepsRich
      <3> QED
        BY <1>1, <2>6, <3>1, OneStoreKeepsRich, Zenon DEF RefreshEnd
    <2>7. CASE Tick
      <3>1. \A n \in Nodes : store[n] \in Members /\ store'[n] = Older(store[n])
        BY <1>1, <2>7 DEF Tick, IInv, Views, HonestViews
      <3> QED
        BY <3>1, OlderEffect DEF KeepsRich
    <2>8. ASSUME NEW n \in Nodes, StaticDone(n) \/ Browse(n) \/ HydrateDone(n)
          PROVE  store' = store
      BY <2>8 DEF StaticDone, Browse, HydrateDone
    <2>9. CASE UNCHANGED vars
      BY <2>1, <2>9 DEF vars
    <2> HIDE DEF Kept
    <2> QED
      BY <1>1, <2>1, <2>2, <2>3, <2>4, <2>5, <2>6, <2>7, <2>8, <2>9, Zenon
         DEF Next, DiscoveryStep
  <1>2. IInv /\ [Next]_vars =>
          [\A n, x \in Nodes :
             store[n][x] # Unknown /\ store'[n][x] # Unknown /\ store[n][x].rich
                => store'[n][x].rich]_vars
    BY <1>1 DEF KeepsRich
  <1> QED
    BY <1>2, Invariance, PTL DEF Spec, RichRecordsStay

\* The invariant of two nodes holds, whoever asks whom.
LEMMA PairInductive ==
  ASSUME IInv, AtMostTwo, PairInv, [Next]_vars
  PROVE  PairInv'
  <1> SUFFICES ASSUME lost' = 0 PROVE Known' /\ Fresh'
    BY Zenon DEF PairInv
  <1>1. CASE UNCHANGED vars
    <2>1. lost = 0
      BY <1>1, Zenon DEF vars, processVars, passVars
    <2> QED
      BY <1>1, <2>1, StutterPair, Zenon DEF PairInv
  <1>2. ASSUME NEW n \in Nodes, NEW p \in Nodes, ReplyLost(n, p) PROVE FALSE
    BY <1>2, MaxAgeNat DEF ReplyLost, IInv
  <1>3. ASSUME Next PROVE lost = 0
    <2>1. ASSUME NEW n \in Nodes, Browse(n) PROVE lost = 0
      <3>1. up \subseteq Nodes /\ lost \in Nat
        BY MaxAgeNat DEF IInv, Processes
      <3>2. PICK answered \in SUBSET Advertisers(n) :
              lost' = lost + Cardinality(Advertisers(n) \ answered)
        BY <2>1, Zenon DEF Browse
      <3>3. IsFiniteSet(Advertisers(n) \ answered)
        BY <3>1, ConfigAssumption, FS_Subset, Zenon DEF Advertisers
      <3>4. Cardinality(Advertisers(n) \ answered) \in Nat
        BY <3>3, FS_CardinalityType, Zenon
      <3> QED
        BY <3>1, <3>2, <3>4
    <2>2. ASSUME NEW n \in Nodes, NEW p \in Nodes, AnnounceUnheard(n, p) PROVE lost = 0
      BY <2>2, MaxAgeNat DEF AnnounceUnheard, IInv
    <2> QED
      BY <1>2, <1>3, <2>1, <2>2, Zenon
         DEF Next, DiscoveryStep, Announce, Start, Crash, RefreshStart, AnnounceAnswered,
             StaticDone, HydrateDone, RefreshEnd, Tick
  <1>4. CASE Next
    <2>1. Known /\ Fresh /\ lost = 0
      BY <1>3, <1>4, Zenon DEF PairInv
    <2>2. ASSUME NEW n \in Nodes, Announce(n) PROVE Known' /\ Fresh'
      BY <1>2, <2>1, <2>2, AnnounceAnsweredPair, AnnounceUnheardPair, Zenon DEF Announce
    <2>3. ASSUME NEW n \in Nodes, DiscoveryStep(n) PROVE Known' /\ Fresh'
      BY <2>1, <2>2, <2>3, RefreshStartPair, MoveOnPair, BrowsePair, RefreshEndPair, Zenon
         DEF DiscoveryStep
    <2> QED
      BY <1>4, <2>1, <2>3, StartPair, CrashPair, TickIInv, TickPair, Zenon DEF Next
  <1> QED
    BY <1>1, <1>4, Zenon

\* Of two nodes that lose no message neither ever takes the other for stale while
\* it runs, whichever of them has seeds and whether mDNS is on: Upsert may move a
\* last_seen back, but what it moves it to is not older than three intervals.
THEOREM FreshCorrect == Spec => []LiveMembersStayFresh
  <1>1. CASE Cardinality(Nodes) <= 2
    <2>1. AtMostTwo
      BY <1>1, TwoNodes, Zenon
    <2>2. Init => PairInv
      <3> SUFFICES ASSUME Init PROVE Known /\ Fresh
        BY Zenon DEF PairInv
      <3>1. \A n, x \in Nodes : /\ store[n][x] = Unknown /\ got[n][x] = Unknown
                                /\ heard[n][x] = Unknown
        BY NoMembersType, Zenon DEF Init
      <3> QED
        BY <3>1 DEF Init, Known, Schedule, Origin, Dated, InPass, Fresh
    <2>3. IInv /\ PairInv /\ [Next]_vars => PairInv'
      BY <2>1, PairInductive, Zenon
    <2>4. IInv /\ PairInv => LiveMembersStayFresh
      BY PairFreshBound, Zenon
    <2> QED
      BY <2>2, <2>3, <2>4, Invariance, PTL DEF Spec
  <1>2. CASE ~(Cardinality(Nodes) <= 2)
    <2>1. LiveMembersStayFresh
      BY <1>2, Zenon DEF LiveMembersStayFresh
    <2> QED
      BY <2>1, PTL
  <1> QED
    BY <1>1, <1>2, Zenon
===============================================================================
