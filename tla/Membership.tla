------------------------------ MODULE Membership ------------------------------
(***************************************************************************)
(* Membership, discovery and election of the node processes                *)
(* (internal/membership, internal/discovery, internal/election, the        *)
(* discovery loop of internal/node/app.go and the announce handler of      *)
(* internal/facade).  Every node keeps its own store of members, learns of *)
(* others by announcing itself to them, and elects the leader from its own *)
(* store: there are no votes.                                              *)
(*                                                                         *)
(* A tick is one discovery interval.  Clocks run at one rate and agree, so *)
(* a last_seen is kept as its age in ticks, and ages past StaleAfter are   *)
(* not told apart.  started_at is the rank of a process start among all    *)
(* starts.  Valid, normalised records of one cluster; role auto is         *)
(* resolved when the configuration is read.                                *)
(***************************************************************************)
EXTENDS Integers, FiniteSets

CONSTANTS
    Nodes,       \* node ids, numbers in their string order
    Seeds,       \* static seeds of every node (nodes)
    MDNS,        \* whether mDNS discovery is enabled
    RoleRank,    \* membership.RoleRank of every node's role; 0 may not lead
    Preferences, \* the values of leader_preference a node may be started with
    StaleAfter,  \* in ticks
    MaxStarts,   \* bound on process starts
    MaxLost      \* bound on announcements or replies lost on the way

ASSUME ConfigAssumption ==
    /\ Nodes \subseteq Nat \ {0} /\ IsFiniteSet(Nodes)
    /\ Seeds \in [Nodes -> SUBSET Nodes]
    /\ MDNS \in BOOLEAN
    /\ RoleRank \in [Nodes -> Nat]
    /\ Preferences \in [Nodes -> SUBSET Nat]
    /\ StaleAfter \in Nat \ {0}
    /\ MaxStarts \in Nat /\ MaxLost \in Nat

VARIABLES
    up,       \* the running processes
    started,  \* rank of the process start; 0: never started
    pref,     \* leader_preference of the running configuration
    store,    \* membership.Store of every node: a member record or Unknown
    pc,       \* the discovery loop
    overrun,  \* the passes of it that outlasted their interval
    todo,     \* peers that the running Discover has still to announce to
    heard,    \* records of the mDNS answers of the running Discover
    got,      \* members that the running Discover collected
    starts,   \* process starts so far
    lost,     \* messages lost so far
    silence   \* history: ticks since the process was last running

processVars == <<up, started, pref, starts>>
passVars == <<overrun, heard>>
vars == <<processVars, passVars, store, pc, todo, got, lost, silence>>

Unknown == [age |-> -1]
NoLeader == 0
MaxAge == StaleAfter + 1
NoMembers == [x \in Nodes |-> Unknown]

Pcs == {"down", "wait", "due", "static", "browse", "mdns", "merge"}

Record == [age : 0..MaxAge, start : 1..MaxStarts, pref : Nat, rich : BOOLEAN]

Members == [Nodes -> Record \cup {Unknown}]

TypeOK ==
    /\ up \subseteq Nodes
    /\ started \in [Nodes -> 0..MaxStarts] /\ starts \in 0..MaxStarts
    /\ pref \in [Nodes -> Nat]
    /\ store \in [Nodes -> Members]
    /\ got \in [Nodes -> Members]
    /\ pc \in [Nodes -> Pcs] /\ \A n \in Nodes : n \in up <=> pc[n] # "down"
    /\ todo \in [Nodes -> SUBSET Nodes] /\ overrun \subseteq up
    /\ heard \in [Nodes -> Members]
    /\ lost \in 0..MaxLost
    /\ silence \in [Nodes -> 0..MaxAge]

-----------------------------------------------------------------------------
(* membership.Store and membership.Member *)

selfMember(n) == [age |-> 0, start |-> started[n], pref |-> pref[n], rich |-> TRUE]

IsStale(member) == member.age > StaleAfter

\* Mutant: without mergeRichFields
mergeMemberPlain(existing, incoming) ==
    [incoming EXCEPT !.pref = IF incoming.pref = 0 THEN existing.pref ELSE incoming.pref]

\* Fields that are zero in the incoming record are taken from the stored one.
mergeMember(existing, incoming) ==
    [incoming EXCEPT
        !.pref = IF incoming.pref = 0 THEN existing.pref ELSE incoming.pref,
        !.rich = incoming.rich \/ existing.rich]

Upsert(members, x, incoming) ==
    [members EXCEPT ![x] =
        IF members[x] = Unknown THEN incoming ELSE mergeMember(members[x], incoming)]

\* Mutant: stale members are only hidden.
PruneNobody(members, self) == members

Prune(members, self) ==
    [x \in Nodes |-> IF x # self /\ members[x] # Unknown /\ IsStale(members[x])
                     THEN Unknown ELSE members[x]]

visibleMembers(members) ==
    [x \in Nodes |-> IF members[x] # Unknown /\ IsStale(members[x])
                     THEN Unknown ELSE members[x]]

-----------------------------------------------------------------------------
(* internal/election *)

Eligible(members) ==
    {x \in Nodes : members[x] # Unknown /\ ~IsStale(members[x]) /\ RoleRank[x] > 0}

\* Mutant: the member seen last comes first.
betterPeerFreshest(members, x, y) ==
    IF members[x].age # members[y].age THEN members[x].age < members[y].age ELSE x < y

betterPeer(members, x, y) ==
    IF RoleRank[x] # RoleRank[y] THEN RoleRank[x] > RoleRank[y]
    ELSE IF members[x].pref # members[y].pref THEN members[x].pref > members[y].pref
    ELSE IF members[x].start # members[y].start THEN members[x].start < members[y].start
    ELSE x < y

\* Tracker.Explain answers the same: it renews a lease that nothing reads.
ElectLeader(members) ==
    IF Eligible(members) = {} THEN NoLeader
    ELSE CHOOSE x \in Eligible(members) :
           \A y \in Eligible(members) \ {x} : betterPeer(members, x, y)

-----------------------------------------------------------------------------
(* The discovery loop of a node *)

\* newApp, Run and the first pass of discoveryLoop
Start(n) ==
    /\ n \notin up
    /\ starts < MaxStarts
    /\ \E p \in Preferences[n] :
         /\ pref' = [pref EXCEPT ![n] = p]
         /\ store' = [store EXCEPT ![n] = [NoMembers EXCEPT ![n] =
              [age |-> 0, start |-> starts + 1, pref |-> p, rich |-> TRUE]]]
    /\ starts' = starts + 1
    /\ started' = [started EXCEPT ![n] = starts + 1]
    /\ up' = up \cup {n}
    /\ pc' = [pc EXCEPT ![n] = "due"]
    /\ silence' = [silence EXCEPT ![n] = 0]
    /\ UNCHANGED <<todo, got, lost, passVars>>

\* The process ends, by a signal or a crash; its memory is gone.
Crash(n) ==
    /\ n \in up
    /\ starts < MaxStarts
    /\ up' = up \ {n}
    /\ pc' = [pc EXCEPT ![n] = "down"]
    /\ store' = [store EXCEPT ![n] = NoMembers]
    /\ overrun' = overrun \ {n}
    /\ todo' = [todo EXCEPT ![n] = {}]
    /\ heard' = [heard EXCEPT ![n] = NoMembers]
    /\ got' = [got EXCEPT ![n] = NoMembers]
    /\ UNCHANGED <<started, pref, starts, lost, silence>>

\* Mutant: the node does not refresh its own record.
RefreshStartUnseen(n) ==
    /\ pc[n] = "due"
    /\ store' = [store EXCEPT ![n] = Prune(store[n], n)]
    /\ got' = [got EXCEPT ![n] = NoMembers]
    /\ todo' = [todo EXCEPT ![n] = Seeds[n] \ {n}]
    /\ pc' = [pc EXCEPT ![n] = "static"]
    /\ UNCHANGED <<processVars, passVars, lost, silence>>

\* refreshMembership up to Discover
RefreshStart(n) ==
    /\ pc[n] = "due"
    /\ store' = [store EXCEPT ![n] = Prune(Upsert(store[n], n, selfMember(n)), n)]
    /\ got' = [got EXCEPT ![n] = NoMembers]
    /\ todo' = [todo EXCEPT ![n] = Seeds[n] \ {n}]
    /\ pc' = [pc EXCEPT ![n] = "static"]
    /\ UNCHANGED <<processVars, passVars, lost, silence>>

\* handleAnnounce of peer p: n is stored as seen now, and the reply is p's view.
HandleAnnounce(p, n) == store' = [store EXCEPT ![p] = Upsert(store[p], n, selfMember(n))]

\* The members of p's reply replace what n collected so far.
Hydrated(n, p) ==
    LET view == visibleMembers(Upsert(store[p], n, selfMember(n)))
    IN [x \in Nodes |-> IF view[x] = Unknown THEN got[n][x] ELSE view[x]]

\* memberFromMDNSTXT: identity and ranking fields, no capabilities; last_seen is
\* the time of the answer.
LightRecord(p) == [age |-> 0, start |-> started[p], pref |-> pref[p], rich |-> FALSE]

\* A failed announce: static discovery goes on with the next seed, the
\* hydrating source keeps the record of the mDNS answer.
Unhydrated(n, p) ==
    IF pc[n] = "mdns" THEN [got[n] EXCEPT ![p] = heard[n][p]] ELSE got[n]

Announcing(n, p) == pc[n] \in {"static", "mdns"} /\ p \in todo[n]

AnnounceAnswered(n, p) ==
    /\ Announcing(n, p)
    /\ p \in up
    /\ HandleAnnounce(p, n)
    /\ got' = [got EXCEPT ![n] = Hydrated(n, p)]
    /\ todo' = [todo EXCEPT ![n] = @ \ {p}]
    /\ UNCHANGED <<processVars, passVars, pc, lost, silence>>

\* The peer is down, or the announcement is lost.
AnnounceUnheard(n, p) ==
    /\ Announcing(n, p)
    /\ \/ p \notin up /\ UNCHANGED lost
       \/ p \in up /\ lost < MaxLost /\ lost' = lost + 1
    /\ got' = [got EXCEPT ![n] = Unhydrated(n, p)]
    /\ todo' = [todo EXCEPT ![n] = @ \ {p}]
    /\ UNCHANGED <<processVars, passVars, store, pc, silence>>

\* The peer stored the announcement, but its reply does not arrive in time.
ReplyLost(n, p) ==
    /\ Announcing(n, p)
    /\ p \in up
    /\ lost < MaxLost /\ lost' = lost + 1
    /\ HandleAnnounce(p, n)
    /\ got' = [got EXCEPT ![n] = Unhydrated(n, p)]
    /\ todo' = [todo EXCEPT ![n] = @ \ {p}]
    /\ UNCHANGED <<processVars, passVars, pc, silence>>

\* MultiSource asks the static source first, then browses mDNS.
StaticDone(n) ==
    /\ pc[n] = "static" /\ todo[n] = {}
    /\ pc' = [pc EXCEPT ![n] = IF MDNS THEN "browse" ELSE "merge"]
    /\ UNCHANGED <<processVars, passVars, store, todo, got, lost, silence>>

\* The peers whose MDNSAdvertiser serves
Advertisers(n) == up \ {n}

\* Every running peer answers the query unless the datagram is lost.  A node's
\* own answer carries its configured address, which AnnounceURL skips, and
\* mergeDiscoveredMembers drops its record.
Browse(n) ==
    /\ pc[n] = "browse"
    /\ \E answered \in SUBSET Advertisers(n) :
         /\ lost + Cardinality(Advertisers(n) \ answered) <= MaxLost
         /\ lost' = lost + Cardinality(Advertisers(n) \ answered)
         /\ todo' = [todo EXCEPT ![n] = answered]
         /\ heard' = [heard EXCEPT ![n] =
              [x \in Nodes |-> IF x \in answered THEN LightRecord(x) ELSE Unknown]]
    /\ pc' = [pc EXCEPT ![n] = "mdns"]
    /\ UNCHANGED <<processVars, overrun, store, got, silence>>

HydrateDone(n) ==
    /\ pc[n] = "mdns" /\ todo[n] = {}
    /\ pc' = [pc EXCEPT ![n] = "merge"]
    /\ UNCHANGED <<processVars, passVars, store, todo, got, lost, silence>>

\* Mutant: the merge counts as having seen the member.
mergeStampedNow(n) ==
    [x \in Nodes |-> IF x = n \/ got[n][x] = Unknown THEN store[n][x]
                     ELSE Upsert(store[n], x, [got[n][x] EXCEPT !.age = 0])[x]]

\* The record of the node itself is skipped; last_seen is the remote's.
mergeDiscoveredMembers(n) ==
    [x \in Nodes |-> IF x = n \/ got[n][x] = Unknown THEN store[n][x]
                     ELSE Upsert(store[n], x, got[n][x])[x]]

\* The timer fires at once after a pass that outlasted its interval.
RefreshEnd(n) ==
    /\ pc[n] = "merge"
    /\ store' = [store EXCEPT ![n] = mergeDiscoveredMembers(n)]
    /\ got' = [got EXCEPT ![n] = NoMembers]
    /\ heard' = [heard EXCEPT ![n] = NoMembers]
    /\ pc' = [pc EXCEPT ![n] = IF n \in overrun THEN "due" ELSE "wait"]
    /\ overrun' = overrun \ {n}
    /\ UNCHANGED <<processVars, todo, lost, silence>>

Older(members) ==
    [x \in Nodes |-> IF members[x] = Unknown \/ members[x].age = MaxAge THEN members[x]
                     ELSE [members[x] EXCEPT !.age = @ + 1]]

\* One interval passes.  A discovery pass takes less than two.
Tick ==
    /\ \A n \in up : pc[n] # "due" /\ n \notin overrun
    /\ pc' = [n \in Nodes |-> IF pc[n] = "wait" THEN "due" ELSE pc[n]]
    /\ overrun' = {n \in up : pc[n] # "wait"}
    /\ store' = [n \in Nodes |-> Older(store[n])]
    /\ got' = [n \in Nodes |-> Older(got[n])]
    /\ heard' = [n \in Nodes |-> Older(heard[n])]
    /\ silence' = [n \in Nodes |-> IF n \in up \/ silence[n] = MaxAge THEN silence[n]
                                   ELSE silence[n] + 1]
    /\ UNCHANGED <<processVars, todo, lost>>

-----------------------------------------------------------------------------
Init ==
    /\ up = {} /\ starts = 0 /\ lost = 0 /\ overrun = {}
    /\ started = [n \in Nodes |-> 0]
    /\ pref = [n \in Nodes |-> 0]
    /\ store = [n \in Nodes |-> NoMembers]
    /\ got = [n \in Nodes |-> NoMembers]
    /\ heard = [n \in Nodes |-> NoMembers]
    /\ pc = [n \in Nodes |-> "down"]
    /\ todo = [n \in Nodes |-> {}]
    /\ silence = [n \in Nodes |-> MaxAge]

Announce(n) == \E p \in Nodes :
    AnnounceAnswered(n, p) \/ AnnounceUnheard(n, p) \/ ReplyLost(n, p)

DiscoveryStep(n) ==
    \/ RefreshStart(n) \/ Announce(n) \/ StaticDone(n)
    \/ Browse(n) \/ HydrateDone(n) \/ RefreshEnd(n)

Next ==
    \/ \E n \in Nodes : Start(n) \/ Crash(n) \/ DiscoveryStep(n)
    \/ Tick

Spec == Init /\ [][Next]_vars

\* The discovery loops run, and time passes.  Crashes and starts are not fair.
FairSpec == Spec /\ WF_vars(Tick) /\ \A n \in Nodes : WF_vars(DiscoveryStep(n))

-----------------------------------------------------------------------------
Leader(n) == ElectLeader(store[n])

\* Gossip never makes a node look more recently seen than it was running
\* (mergeDiscoveredMembers keeps the remote last_seen): no two nodes can keep a
\* dead one alive between them.
NoResurrection ==
    \A n, x \in Nodes : \A members \in {store[n], got[n], heard[n]} :
        members[x] # Unknown => members[x].age >= silence[x]

\* Of two nodes that lose no message, neither takes the other for stale while it
\* runs, though a merge may move its last_seen back (a reply carries the age of the
\* responder's own record), as long as the stale time is three intervals or more
\* (DefaultStaleAfter).  With a third node to relay records this is not so.
LiveMembersStayFresh == lost = 0 /\ Cardinality(Nodes) <= 2 /\ StaleAfter >= 3 =>
    \A n, x \in up : store[n][x] # Unknown /\ store[n][x].start = started[x]
                        => ~IsStale(store[n][x])

\* Capabilities that are known of a member are not lost to a lightweight mDNS
\* record (mergeRichFields).
RichRecordsStay ==
    [][\A n, x \in Nodes :
         store[n][x] # Unknown /\ store'[n][x] # Unknown /\ store[n][x].rich
            => store'[n][x].rich]_vars

\* A member that stays down is forgotten by everyone.
DeadAreForgotten ==
    \A x \in Nodes : (x \notin up) ~> (x \in up \/ \A n \in Nodes : store[n][x] = Unknown)

\* n keeps the leader_preference of an earlier start of x: x was started again
\* with 0, which mergeIdentityFields takes for not set.
KeepsOldPreference(n, x) == pref[x] = 0 /\ store[n][x].pref # 0

\* When processes and messages are no longer lost, two running nodes end up with
\* each other's present start in their stores, not stale and with its preference,
\* unless one keeps an old preference of the other; and as long as neither does,
\* they elect one leader.  A kept one makes them disagree for good where it
\* decides the election.  (refreshMembership, handleAnnounce,
\* mergeDiscoveredMembers, mergeIdentityFields, betterPeer)
ViewsConverge ==
    <>[](/\ \A n, x \in up :
              /\ store[n][x] # Unknown /\ ~IsStale(store[n][x])
              /\ store[n][x].start = started[x]
              /\ store[n][x].pref = pref[x] \/ KeepsOldPreference(n, x)
         /\ (\A n, x \in up : ~KeepsOldPreference(n, x)) =>
              \A n, x \in up : Leader(n) = Leader(x))
=============================================================================
