------------------------------ MODULE Resources ------------------------------
(***************************************************************************)
(* The client's memory accounting (resource.rs) and three of its tenants   *)
(* in client.rs: the cache of fetched resources, the table of active       *)
(* subscriptions and the ring of pending UPDATEs.                          *)
(*                                                                         *)
(* A lease is [cat, amount, cost]; it is released when its owner is        *)
(* dropped.  A cached resource is reference counted: its lease lives while *)
(* the cache or a requester holds it.  Byte strings are lengths.           *)
(***************************************************************************)
EXTENDS Naturals, SequencesExt, Subsequences, Totals

CONSTANTS
    Keys, Sizes, Slack,       \* cache keys, body lengths, spare capacities
    Regions, Scopes, Updates, None,
    CatLimit, CountLimit,     \* category -> units, category -> leases
    MaxRemote,                \* MAX_REMOTE_MEMORY
    ArcCost,                  \* control block of a shared resource
    CacheCount, CacheBytes,   \* MAX_RESOURCE_CACHE, MAX_RESOURCE_CACHE_BYTES
    RingSize, RingBytes,      \* MAX_PENDING_UPDATES, MAX_PENDING_UPDATE_BYTES
    SubsCount, SubsBound,     \* MAX_ACTIVE_SUBSCRIPTIONS, retained upper bound
    PageUnits,                \* units another owner may hold
    MaxOps                    \* bound of the run

Cats == {"ResourceCache", "RemoteCollections", "PendingUpdates", "SceneCells"}
Leases == [cat : Cats, amount : Nat, cost : Nat]
QueuedUpdates == [id : Nat, scope : Scopes, wire : Nat, lease : Leases]

ASSUME ResourcesAssumption ==
    /\ CatLimit \in [Cats -> Nat] /\ CountLimit \in [Cats -> Nat]
    /\ {MaxRemote, ArcCost, CacheBytes, RingBytes, SubsCount} \subseteq Nat
    /\ {RingSize, CacheCount, SubsBound} \subseteq Nat \ {0}
    /\ Sizes \subseteq Nat /\ Slack \subseteq Nat /\ PageUnits \subseteq Nat
    /\ \A u \in Updates : u.id \in Nat /\ u.scope \in Scopes /\ u = [id |-> u.id, scope |-> u.scope]
    /\ None \notin Scopes /\ None \notin QueuedUpdates /\ None \notin Leases

VARIABLES
    usage,     \* [bytes, units, counts] as Usage
    cache, cacheBytes,        \* oldest first
    held,      \* clones of shared resources in requesters' hands
    subs,      \* active subscriptions
    ring,      \* [slots, head, len, bytes]
    scope,     \* current_scope
    hand,      \* the ScopedUpdate the runner is applying
    page,      \* lease of the page's scene, resized as it is laid out
    ops

vars == <<usage, cache, cacheBytes, held, subs, ring, scope, hand, page, ops>>

(***************************************************************************)
(* ResourceGovernor and BudgetLease                                        *)
(***************************************************************************)
Lease(cat, amount, cost) == [cat |-> cat, amount |-> amount, cost |-> cost]
Exact(cat, amount) == Lease(cat, amount, amount)
Minus(a, b) == IF a > b THEN a - b ELSE 0     \* saturating_sub

AdmitsByCategory(u, l) ==
    u.counts[l.cat] < CountLimit[l.cat] /\ l.amount <= Minus(CatLimit[l.cat], u.units[l.cat])
Admits(u, l) ==
    /\ u.counts[l.cat] < CountLimit[l.cat]
    /\ l.amount <= Minus(CatLimit[l.cat], u.units[l.cat])
    /\ l.cost <= Minus(MaxRemote, u.bytes)
Reserve(u, l) ==
    [bytes |-> u.bytes + l.cost,
     units |-> [u.units EXCEPT ![l.cat] = @ + l.amount],
     counts |-> [u.counts EXCEPT ![l.cat] = @ + 1]]
Release(u, l) ==
    [bytes |-> Minus(u.bytes, l.cost),
     units |-> [u.units EXCEPT ![l.cat] = Minus(@, l.amount)],
     counts |-> [u.counts EXCEPT ![l.cat] = Minus(@, 1)]]
ReleaseAll(u, ls) ==
    LET after[k \in 0 .. Len(ls)] == IF k = 0 THEN u ELSE Release(after[k - 1], ls[k])
    IN  after[Len(ls)]
Resizable(u, old, new) ==
    /\ new.amount <= Minus(CatLimit[old.cat], Minus(u.units[old.cat], old.amount))
    /\ new.cost <= Minus(MaxRemote, Minus(u.bytes, old.cost))
Resize(u, old, new) ==
    [u EXCEPT !.bytes = Minus(@, old.cost) + new.cost,
              !.units[old.cat] = Minus(@, old.amount) + new.amount]

Free == [bytes |-> 0, units |-> [c \in Cats |-> 0], counts |-> [c \in Cats |-> 0]]
Bounded == ops < MaxOps /\ ops' = ops + 1

(***************************************************************************)
(* The resource cache                                                      *)
(***************************************************************************)
Others(c, key) == {i \in DOMAIN c : c[i].key # key}
Position(c, key) == SelectInSeq(c, LAMBDA e : e.key = key)
OldLen(c, key) == LET i == Position(c, key) IN IF i = 0 THEN 0 ELSE c[i].len
Holds(rid) == \E h \in held : h.rid = rid
\* What dropping an entry gives back: its key, and its bytes if it was the
\* last owner of them.
Freed(e) == <<e.keyLease>> \o (IF Holds(e.rid) THEN <<>> ELSE <<e.lease>>)
ReleaseEntries(u, es) ==
    LET after[k \in 0 .. Len(es)] == IF k = 0 THEN u ELSE ReleaseAll(after[k - 1], Freed(es[k]))
    IN  after[Len(es)]

\* Whether entry i is among the k oldest under other keys, which are evicted.
Goes(c, key, k, i) == i \in Others(c, key) /\ Cardinality({j \in Others(c, key) : j <= i}) <= k
Dropped(st, key, k) ==
    LET gone == {i \in DOMAIN st.cache : Goes(st.cache, key, k, i)}
        out == Subsequence(st.cache, gone)
    IN [cache |-> Subsequence(st.cache, DOMAIN st.cache \ gone),
        bytes |-> Minus(st.bytes, Total([i \in DOMAIN out |-> out[i].len])),
        usage |-> ReleaseEntries(st.usage, out)]
Evictions(st, key) == 0..Cardinality(Others(st.cache, key))

\* First loop: until the counts and lengths of the cache itself fit.
Fits(st, key, len) ==
    /\ Cardinality(Others(st.cache, key)) + 1 <= CacheCount
    /\ Minus(st.bytes, OldLen(st.cache, key)) + len <= CacheBytes
MakeRoom(st, key, len) ==
    Dropped(st, key, Min({k \in Evictions(st, key) : Fits(Dropped(st, key, k), key, len)}))
\* Second loop: until the governor admits the bytes, the entry under the same
\* key still holding its own.
AdmittedAfter(st, key, lease) ==
    {k \in Evictions(st, key) : Admits(Dropped(st, key, k).usage, lease)}

RidsInUse == {cache[i].rid : i \in DOMAIN cache} \cup {h.rid : h \in held}
NextRid == Min((1..(Cardinality(RidsInUse) + 1)) \ RidsInUse)
Ousted(c, key) == Subsequence(c, DOMAIN c \ Others(c, key))
With(c, key, len, lease, keyLease) ==
    Append(Subsequence(c, Others(c, key)),
           [key |-> key, len |-> len, lease |-> lease, keyLease |-> keyLease, rid |-> NextRid])

InsertedKeepsOld(st, key, len, lease, keyLease) ==
    [cache |-> With(st.cache, key, len, lease, keyLease),
     bytes |-> st.bytes + len,
     usage |-> ReleaseEntries(Reserve(st.usage, lease), Ousted(st.cache, key))]
Inserted(st, key, len, lease, keyLease) ==
    [cache |-> With(st.cache, key, len, lease, keyLease),
     bytes |-> Minus(st.bytes, OldLen(st.cache, key)) + len,
     usage |-> ReleaseEntries(Reserve(st.usage, lease), Ousted(st.cache, key))]

KeyLease == Exact("RemoteCollections", 1)
\* ResourceCache::insert: a refused key changes nothing; refused bytes have
\* already evicted every other entry.
Insert(key, len, cap) ==
    LET lease == Lease("ResourceCache", cap, cap + ArcCost)
        keyed == [cache |-> cache, bytes |-> cacheBytes, usage |-> Reserve(usage, KeyLease)]
        st == MakeRoom(keyed, key, len)
        ks == AdmittedAfter(st, key, lease)
    IN IF len > CacheBytes \/ ~Admits(usage, KeyLease)
       THEN [cache |-> cache, bytes |-> cacheBytes, usage |-> usage, ok |-> FALSE]
       ELSE IF ks = {}
       THEN LET all == Dropped(st, key, Max(Evictions(st, key)))
            IN [cache |-> all.cache, bytes |-> all.bytes, ok |-> FALSE,
                usage |-> Release(all.usage, KeyLease)]
       ELSE LET in == Inserted(Dropped(st, key, Min(ks)), key, len, lease, KeyLease)
            IN [cache |-> in.cache, bytes |-> in.bytes, usage |-> in.usage, ok |-> TRUE]

Clone(e) == [rid |-> e.rid, lease |-> e.lease]
\* fetch_resource of something not cached: inserted, and a clone handed out.
FetchMiss ==
    /\ Bounded
    /\ \E key \in Keys, len \in Sizes, slack \in Slack :
         LET r == Insert(key, len, len + slack)
         IN /\ Position(cache, key) = 0
            /\ cache' = r.cache /\ cacheBytes' = r.bytes /\ usage' = r.usage
            /\ held' = IF r.ok THEN held \cup {Clone(Last(r.cache))} ELSE held
    /\ UNCHANGED <<subs, ring, scope, hand, page>>
\* insert of a key already present, as the public method allows.
InsertAgain ==
    /\ Bounded
    /\ \E key \in Keys, len \in Sizes :
         LET r == Insert(key, len, len)
         IN /\ Position(cache, key) # 0
            /\ cache' = r.cache /\ cacheBytes' = r.bytes /\ usage' = r.usage
    /\ UNCHANGED <<held, subs, ring, scope, hand, page>>
\* A hit moves the entry to the back.
FetchHit ==
    /\ Bounded
    /\ \E i \in DOMAIN cache :
         /\ cache' = Append(RemoveAt(cache, i), cache[i])
         /\ held' = held \cup {Clone(cache[i])}
    /\ UNCHANGED <<usage, cacheBytes, subs, ring, scope, hand, page>>
EvictOldest ==
    /\ Bounded /\ cache # <<>>
    /\ cache' = Tail(cache)
    /\ cacheBytes' = Minus(cacheBytes, Head(cache).len)
    /\ usage' = ReleaseAll(usage, Freed(Head(cache)))
    /\ UNCHANGED <<held, subs, ring, scope, hand, page>>
DropCloneAlways(h) ==
    /\ held' = held \ {h} /\ usage' = Release(usage, h.lease)
    /\ UNCHANGED <<cache, cacheBytes, subs, ring, scope, hand, page, ops>>
\* The bytes go with their last owner.
DropClone(h) ==
    /\ held' = held \ {h}
    /\ usage' = IF \E i \in DOMAIN cache : cache[i].rid = h.rid THEN usage
                ELSE Release(usage, h.lease)
    /\ UNCHANGED <<cache, cacheBytes, subs, ring, scope, hand, page, ops>>

(***************************************************************************)
(* The ring of pending updates                                             *)
(***************************************************************************)
EmptyRing == [slots |-> [i \in 0..(RingSize - 1) |-> None], head |-> 0, len |-> 0, bytes |-> 0]
can_push(r, wire) == r.len < RingSize /\ r.bytes + wire <= RingBytes
Pushed(r, u) ==
    [r EXCEPT !.slots[(r.head + r.len) % RingSize] = u, !.len = @ + 1, !.bytes = @ + u.wire]
push_back(r, u) == IF can_push(r, u.wire) THEN Pushed(r, u) ELSE r
\* None when there is none, or the ring and its length disagree.
Front1(r) == IF r.len = 0 THEN None ELSE r.slots[r.head]
pop_front(r) ==
    IF Front1(r) = None THEN r
    ELSE [slots |-> [r.slots EXCEPT ![r.head] = None],
          head |-> IF r.len = 1 THEN 0 ELSE (r.head + 1) % RingSize,
          len |-> r.len - 1, bytes |-> Minus(r.bytes, r.slots[r.head].wire)]
\* Each of the entries there at first is popped once and pushed back unless
\* it is of the scope retired; what is dropped gives its lease back.
Turned(st, s) ==
    LET u == Front1(st.ring)
    IN IF u = None THEN st
       ELSE IF u.scope = s
       THEN [ring |-> pop_front(st.ring), usage |-> Release(st.usage, u.lease)]
       ELSE [st EXCEPT !.ring = push_back(pop_front(@), u)]
Rotated(n, s) ==
    LET after[k \in 0..n] == IF k = 0 THEN [ring |-> ring, usage |-> usage]
                             ELSE Turned(after[k - 1], s)
    IN  after[n]
retire_scopeAllSlots(s) == Rotated(RingSize - 1, s)
retire_scope(s) == Rotated(ring.len, s)
Queued(r) == [i \in 1..r.len |-> r.slots[(r.head + i - 1) % RingSize]]
LeasesOf(us) == [i \in DOMAIN us |-> us[i].lease]

Cleared == ReleaseAll(usage, LeasesOf(Queued(ring)))
clear == ring' = EmptyRing /\ usage' = Cleared

OwnerOf(region) == {s \in subs : s.region = region}
UpdateOf(u, sub, wire, lease) ==
    [id |-> u.id, scope |-> sub.scope, wire |-> wire, lease |-> lease]
\* PendingUpdate::try_new: reserve for the update and the owner's host name,
\* then grow or shrink to what the clone retained.
NewLease(wire) == Exact("PendingUpdates", wire + 1)
KeptLease(wire, extra) == Exact("PendingUpdates", wire + extra)
TryNew(u, wire, extra) ==
    /\ Admits(u, NewLease(wire))
    /\ Resizable(Reserve(u, NewLease(wire)), NewLease(wire), KeptLease(wire, extra))
Charged(u, wire, extra) ==
    Resize(Reserve(u, NewLease(wire)), NewLease(wire), KeptLease(wire, extra))

\* recv_response meets an UPDATE while it waits for its reply.
UpdateDuringRequest ==
    /\ Bounded
    /\ \E u \in Updates, sub \in subs, wire \in Sizes, extra \in {0, 2} :
         /\ u.id = ops + 1 /\ sub.scope = u.scope
         /\ can_push(ring, 0) /\ can_push(ring, wire) /\ TryNew(usage, wire, extra)
         /\ ring' = push_back(ring, UpdateOf(u, sub, wire, KeptLease(wire, extra)))
         /\ usage' = Charged(usage, wire, extra)
    /\ UNCHANGED <<cache, cacheBytes, held, subs, scope, hand, page>>

\* poll_update: entries of other pages are popped and dropped; the first of
\* the current page is handed to the runner.
Ahead(q) == SelectInSeq(q, LAMBDA u : u.scope = scope)
Rest(n) ==
    LET after[k \in 0..n] == IF k = 0 THEN ring ELSE pop_front(after[k - 1]) IN after[n]
PollQueued ==
    LET q == Queued(ring)
        n == Ahead(q)
    IN /\ hand = None /\ n # 0
       /\ ring' = Rest(n)
       /\ hand' = q[n]
       /\ usage' = ReleaseAll(usage, LeasesOf(SubSeq(q, 1, n - 1)))
       /\ UNCHANGED <<cache, cacheBytes, held, subs, scope, page, ops>>
\* Nothing queued for the page: an UPDATE read from the connection, if its
\* region is subscribed and its lease is admitted, goes straight through.
PollDirect ==
    LET q == Queued(ring)
        u1 == ReleaseAll(usage, LeasesOf(q))
    IN /\ Bounded /\ hand = None /\ Ahead(q) = 0
       /\ ring' = Rest(Len(q))
       /\ \E u \in Updates, sub \in subs, wire \in Sizes, extra \in {0, 2} :
            /\ u.id = ops + 1 /\ sub.scope = u.scope
            /\ IF TryNew(u1, wire, extra)
               THEN /\ hand' = UpdateOf(u, sub, wire, KeptLease(wire, extra))
                    /\ usage' = Charged(u1, wire, extra)
               ELSE hand' = None /\ usage' = u1
       /\ UNCHANGED <<cache, cacheBytes, held, subs, scope, page>>
Applied ==
    /\ hand # None
    /\ hand' = None /\ usage' = Release(usage, hand.lease)
    /\ UNCHANGED <<cache, cacheBytes, held, subs, ring, scope, page, ops>>

(***************************************************************************)
(* Subscriptions and the page that owns them                               *)
(***************************************************************************)
SubLease(region) == Exact("RemoteCollections", SubsBound)
SubKept == Exact("RemoteCollections", SubsBound - 1)
\* The lease is taken before the frame is sent and goes if sending fails.
Subscribe ==
    /\ Bounded /\ scope # None
    /\ \E region \in Regions :
         /\ OwnerOf(region) = {} /\ Cardinality(subs) < SubsCount
         /\ Admits(usage, SubLease(region))
         /\ subs' = subs \cup {[region |-> region, scope |-> scope, lease |-> SubKept]}
         /\ usage' = Resize(Reserve(usage, SubLease(region)), SubLease(region), SubKept)
    /\ UNCHANGED <<cache, cacheBytes, held, ring, scope, hand, page>>

SubLeases(ss) == LET q == SetToSeq(ss) IN [i \in DOMAIN q |-> q[i].lease]
Activate ==
    /\ Bounded
    /\ \E s \in Scopes \ {scope} :
         /\ scope' = s /\ subs' = {} /\ ring' = EmptyRing
         /\ usage' = ReleaseAll(Cleared, SubLeases(subs))
    /\ UNCHANGED <<cache, cacheBytes, held, hand, page>>

\* UNSUBSCRIBE clears everything, unless writing it times out.
RetireCurrent ==
    /\ Bounded /\ scope # None /\ \E sub \in subs : sub.scope = scope
    /\ scope' = None
    /\ \/ /\ subs' = {} /\ ring' = EmptyRing
          /\ usage' = ReleaseAll(Cleared, SubLeases(subs))
       \/ UNCHANGED <<subs, ring, usage>>
    /\ UNCHANGED <<cache, cacheBytes, held, hand, page>>
\* A retirement that arrives late touches only what its own page owns.
RetireOther ==
    /\ Bounded
    /\ \E s \in Scopes :
         LET gone == {sub \in subs : sub.scope = s}
             r == retire_scope(s)
         IN /\ ~(s = scope /\ gone # {})
            /\ subs' = subs \ gone
            /\ ring' = r.ring
            /\ usage' = ReleaseAll(r.usage, SubLeases(gone))
            /\ scope' = IF s = scope THEN None ELSE scope
    /\ UNCHANGED <<cache, cacheBytes, held, hand, page>>
ConnectionLost ==
    /\ Bounded /\ ring.len > 0 /\ clear
    /\ UNCHANGED <<cache, cacheBytes, held, subs, scope, hand, page>>
Disconnect ==
    /\ Bounded /\ scope' = None /\ subs' = {} /\ ring' = EmptyRing
    /\ usage' = ReleaseAll(Cleared, SubLeases(subs))
    /\ UNCHANGED <<cache, cacheBytes, held, hand, page>>

(***************************************************************************)
(* Another owner, of cells whose cost is not their number                  *)
(***************************************************************************)
PageLease(n) == Lease("SceneCells", n, 2 * n)
OpenPage ==
    /\ Bounded /\ page = None
    /\ \E n \in PageUnits :
         Admits(usage, PageLease(n)) /\ page' = PageLease(n) /\ usage' = Reserve(usage, PageLease(n))
    /\ UNCHANGED <<cache, cacheBytes, held, subs, ring, scope, hand>>
ResizePage ==
    /\ Bounded /\ page # None
    /\ \E n \in PageUnits :
         /\ Resizable(usage, page, PageLease(n))
         /\ page' = PageLease(n) /\ usage' = Resize(usage, page, PageLease(n))
    /\ UNCHANGED <<cache, cacheBytes, held, subs, ring, scope, hand>>
ClosePage ==
    /\ page # None /\ page' = None /\ usage' = Release(usage, page)
    /\ UNCHANGED <<cache, cacheBytes, held, subs, ring, scope, hand, ops>>

Init ==
    /\ usage = Free /\ cache = <<>> /\ cacheBytes = 0 /\ held = {}
    /\ subs = {} /\ ring = EmptyRing /\ scope = None /\ hand = None /\ page = None
    /\ ops = 0
Next ==
    \/ FetchMiss \/ InsertAgain \/ FetchHit \/ EvictOldest \/ \E h \in held : DropClone(h)
    \/ UpdateDuringRequest \/ PollQueued \/ PollDirect \/ Applied
    \/ Subscribe \/ Activate \/ RetireCurrent \/ RetireOther \/ ConnectionLost \/ Disconnect
    \/ OpenPage \/ ResizePage \/ ClosePage
Spec == Init /\ [][Next]_vars

(***************************************************************************)
(* Properties                                                              *)
(***************************************************************************)
\* Every lease that is alive, once.
Alive ==
    LeasesOf(Queued(ring)) \o SubLeases(subs)
    \o [i \in DOMAIN cache |-> cache[i].keyLease]
    \o (LET shared == {Clone(cache[i]) : i \in DOMAIN cache} \cup held
        IN SubLeases(shared))
    \o (IF hand = None THEN <<>> ELSE <<hand.lease>>)
    \o (IF page = None THEN <<>> ELSE <<page>>)

Within(u) ==
    /\ u.bytes <= MaxRemote
    /\ \A c \in Cats : u.units[c] <= CatLimit[c] /\ u.counts[c] <= CountLimit[c]
UsageType == [bytes : Nat, units : [Cats -> Nat], counts : [Cats -> Nat]]
Entries == [key : Keys, len : Nat, lease : Leases, keyLease : Leases, rid : Nat]
Clones == [rid : Nat, lease : Leases]
Subscriptions == [region : Regions, scope : Scopes, lease : Leases]

\* The slots from head on, len of them, are the queue; none of its updates
\* alone is larger than the ring may hold.
RingOK(r) ==
    /\ r \in [slots : [0..(RingSize - 1) -> QueuedUpdates \cup {None}],
              head : 0..(RingSize - 1), len : 0..RingSize, bytes : 0..RingBytes]
    /\ \A i \in 0..(r.len - 1) : LET u == r.slots[(r.head + i) % RingSize]
                              IN u # None /\ u.wire <= RingBytes

\* One subscription for a region, as many as the table admits.
SubsOK ==
    /\ subs \subseteq Subscriptions
    /\ IsFiniteSet(subs) /\ Cardinality(subs) <= SubsCount
    /\ \A s, t \in subs : s.region = t.region => s = t

TypeOK ==
    /\ usage \in UsageType
    /\ cache \in Seq(Entries) /\ cacheBytes \in Nat
    /\ held \subseteq Clones /\ IsFiniteSet(held)
    /\ SubsOK /\ RingOK(ring)
    /\ scope \in Scopes \cup {None}
    /\ hand \in QueuedUpdates \cup {None}
    /\ page \in Leases \cup {None}

\* The governor's books are exactly the leases alive: no step of any owner,
\* an eviction of bytes still shared, a resize, a refused insert or a lost
\* queue leaks or double-releases a byte, a unit or a count.
ReserveAll(u, ls) ==
    LET after[k \in 0 .. Len(ls)] == IF k = 0 THEN u ELSE Reserve(after[k - 1], ls[k])
    IN  after[Len(ls)]
BooksExact == usage = ReserveAll(Free, Alive)

\* And they stay within every limit, whatever order owners come and go in.
WithinLimits == Within(usage)

\* The cache's own counter is the sum of its entries' lengths, within its
\* bounds, one entry for a key.
CacheExact ==
    /\ cacheBytes = Total([i \in DOMAIN cache |-> cache[i].len])
    /\ cacheBytes <= CacheBytes /\ Len(cache) <= CacheCount
    /\ \A i, j \in DOMAIN cache : cache[i].key = cache[j].key => i = j

Plain(u) == IF u = None THEN None ELSE [id |-> u.id, scope |-> u.scope]
\* The updates of a ring, as a reader of the queue sees them.
ViewOf(r) == [i \in 1..r.len |-> Plain(Queued(r)[i])]
Queue == INSTANCE UpdateQueue WITH
            queue <- ViewOf(ring),
            current <- scope, taken <- Plain(hand)
\* The ring with its rotating retirement implements the queue of UpdateQueue.
RingIsQueue == Queue!QSpec

\* Local ownership goes with the page, even if UNSUBSCRIBE cannot be sent.
RetiredOwnsNothing == scope = None => subs = {} /\ ring.len = 0
=============================================================================
