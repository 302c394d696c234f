----------------------------- MODULE ResourcesProofs -----------------------------
(***************************************************************************)
(* Resources: the governor's books stay within every limit and are exactly *)
(* the leases alive, the cache counts what it holds, and the ring of       *)
(* pending updates implements the queue of UpdateQueue, for every choice   *)
(* of limits, sizes, pages and regions.                                    *)
(***************************************************************************)
EXTENDS Resources, DataLemmas, SequenceTheorems

-----------------------------------------------------------------------------
(* The governor.                                                           *)

GoodUsage == {u \in UsageType : Within(u)}

LEMMA MinusProperties ==
    ASSUME NEW a \in Nat, NEW b \in Nat
    PROVE  Minus(a, b) \in Nat /\ Minus(a, b) <= a /\ (b <= a => Minus(a, b) = a - b)
BY DEF Minus

\* A reservation that was admitted leaves the books within the limits.
LEMMA ReserveGood ==
    ASSUME NEW u \in GoodUsage, NEW l \in Leases, Admits(u, l)
    PROVE  Reserve(u, l) \in GoodUsage
<1> DEFINE c == l.cat
           v == Reserve(u, l)
<1>1. /\ u.bytes \in Nat /\ u.units \in [Cats -> Nat] /\ u.counts \in [Cats -> Nat]
      /\ u.bytes <= MaxRemote
      /\ \A d \in Cats : u.units[d] <= CatLimit[d] /\ u.counts[d] <= CountLimit[d]
  BY DEF GoodUsage, UsageType, Within
<1>2. c \in Cats /\ l.amount \in Nat /\ l.cost \in Nat
  BY DEF Leases
<1>3. /\ u.counts[c] < CountLimit[c]
      /\ l.amount <= Minus(CatLimit[c], u.units[c])
      /\ l.cost <= Minus(MaxRemote, u.bytes)
  BY DEF Admits
<1>4. CatLimit[c] \in Nat /\ CountLimit[c] \in Nat /\ MaxRemote \in Nat
  BY <1>2, ResourcesAssumption
<1>5. u.units[c] + l.amount <= CatLimit[c] /\ u.bytes + l.cost <= MaxRemote
      /\ u.counts[c] + 1 <= CountLimit[c]
  <2>1. u.units[c] \in Nat /\ u.counts[c] \in Nat /\ u.units[c] <= CatLimit[c]
    BY <1>1, <1>2
  <2>2. Minus(CatLimit[c], u.units[c]) = CatLimit[c] - u.units[c]
        /\ Minus(MaxRemote, u.bytes) = MaxRemote - u.bytes
    BY <1>1, <1>4, <2>1, MinusProperties
  <2> HIDE DEF c
  <2>3. u.counts[c] + 1 <= CountLimit[c]
    BY <1>3, <1>4, <2>1
  <2>4. u.units[c] + l.amount <= CatLimit[c]
    BY <1>2, <1>3, <1>4, <2>1, <2>2
  <2>5. u.bytes + l.cost <= MaxRemote
    BY <1>1, <1>2, <1>3, <1>4, <2>2
  <2> QED BY <2>3, <2>4, <2>5
<1>6. /\ v.bytes = u.bytes + l.cost
      /\ v.units = [u.units EXCEPT ![c] = u.units[c] + l.amount]
      /\ v.counts = [u.counts EXCEPT ![c] = u.counts[c] + 1]
      /\ v = [bytes |-> v.bytes, units |-> v.units, counts |-> v.counts]
  BY DEF Reserve
<1> HIDE DEF v, c
<1>7. v.bytes \in Nat /\ v.units \in [Cats -> Nat] /\ v.counts \in [Cats -> Nat]
  BY <1>1, <1>2, <1>6
<1>8. v \in UsageType
  BY <1>6, <1>7 DEF UsageType
<1>9. v.bytes <= MaxRemote
      /\ \A d \in Cats : v.units[d] <= CatLimit[d] /\ v.counts[d] <= CountLimit[d]
  BY <1>1, <1>2, <1>5, <1>6
<1> QED BY <1>8, <1>9 DEF GoodUsage, Within, v

\* Giving a lease back never takes the books over a limit.
LEMMA ReleaseGood ==
    ASSUME NEW u \in GoodUsage, NEW l \in Leases
    PROVE  Release(u, l) \in GoodUsage
<1> DEFINE c == l.cat
           v == Release(u, l)
<1>1. /\ u.bytes \in Nat /\ u.units \in [Cats -> Nat] /\ u.counts \in [Cats -> Nat]
      /\ u.bytes <= MaxRemote
      /\ \A d \in Cats : u.units[d] <= CatLimit[d] /\ u.counts[d] <= CountLimit[d]
  BY DEF GoodUsage, UsageType, Within
<1>2. c \in Cats /\ l.amount \in Nat /\ l.cost \in Nat
  BY DEF Leases
<1>3. /\ v.bytes = Minus(u.bytes, l.cost)
      /\ v.units = [u.units EXCEPT ![c] = Minus(u.units[c], l.amount)]
      /\ v.counts = [u.counts EXCEPT ![c] = Minus(u.counts[c], 1)]
      /\ v = [bytes |-> v.bytes, units |-> v.units, counts |-> v.counts]
  BY DEF Release
<1> HIDE DEF v, c
<1>4. /\ Minus(u.bytes, l.cost) \in Nat /\ Minus(u.bytes, l.cost) <= u.bytes
      /\ Minus(u.units[c], l.amount) \in Nat /\ Minus(u.units[c], l.amount) <= u.units[c]
      /\ Minus(u.counts[c], 1) \in Nat /\ Minus(u.counts[c], 1) <= u.counts[c]
  <2>1. u.units[c] \in Nat /\ u.counts[c] \in Nat
    BY <1>1, <1>2
  <2> QED BY <1>1, <1>2, <2>1, MinusProperties
<1>5. v.bytes \in Nat /\ v.units \in [Cats -> Nat] /\ v.counts \in [Cats -> Nat]
  BY <1>1, <1>2, <1>3, <1>4
<1>6. v \in UsageType
  BY <1>3, <1>5 DEF UsageType
<1>7. v.bytes <= MaxRemote
  BY <1>1, <1>3, <1>4, ResourcesAssumption
<1>8. ASSUME NEW d \in Cats PROVE v.units[d] <= CatLimit[d] /\ v.counts[d] <= CountLimit[d]
  <2>1. CatLimit[d] \in Nat /\ CountLimit[d] \in Nat /\ u.units[d] \in Nat /\ u.counts[d] \in Nat
    BY <1>1, ResourcesAssumption
  <2>2. v.units[d] \in Nat /\ v.units[d] <= u.units[d] /\ v.counts[d] \in Nat /\ v.counts[d] <= u.counts[d]
    BY <1>1, <1>2, <1>3, <1>4, <2>1
  <2> QED BY <1>1, <2>1, <2>2
<1> QED BY <1>6, <1>7, <1>8 DEF GoodUsage, Within, v

LEMMA ResizeGood ==
    ASSUME NEW u \in GoodUsage, NEW old \in Leases, NEW new \in Leases, Resizable(u, old, new)
    PROVE  Resize(u, old, new) \in GoodUsage
<1> DEFINE c == old.cat
           v == Resize(u, old, new)
           bytes == Minus(u.bytes, old.cost)
           units == Minus(u.units[c], old.amount)
<1>1. /\ u.bytes \in Nat /\ u.units \in [Cats -> Nat] /\ u.counts \in [Cats -> Nat]
      /\ u.bytes <= MaxRemote
      /\ \A d \in Cats : u.units[d] <= CatLimit[d] /\ u.counts[d] <= CountLimit[d]
  BY DEF GoodUsage, UsageType, Within
<1>2. c \in Cats /\ old.amount \in Nat /\ old.cost \in Nat /\ new.amount \in Nat /\ new.cost \in Nat
  BY DEF Leases
<1>3. new.amount <= Minus(CatLimit[c], units) /\ new.cost <= Minus(MaxRemote, bytes)
  BY DEF Resizable
<1>4. /\ v.bytes = bytes + new.cost
      /\ v.units = [u.units EXCEPT ![c] = units + new.amount]
      /\ v.counts = u.counts
      /\ v = [bytes |-> v.bytes, units |-> v.units, counts |-> v.counts]
  <2>1. u = [bytes |-> u.bytes, units |-> u.units, counts |-> u.counts]
    BY DEF GoodUsage, UsageType
  <2>2. v = [u EXCEPT !.bytes = bytes + new.cost, !.units = [u.units EXCEPT ![c] = units + new.amount]]
    BY <2>1 DEF Resize
  <2> HIDE DEF v, bytes, units, c
  <2> QED BY <2>1, <2>2
<1> HIDE DEF v
<1>5. /\ bytes \in Nat /\ bytes <= u.bytes /\ units \in Nat /\ units <= u.units[c]
      /\ CatLimit[c] \in Nat /\ MaxRemote \in Nat /\ u.units[c] \in Nat /\ u.units[c] <= CatLimit[c]
  <2>1. u.units[c] \in Nat /\ CatLimit[c] \in Nat /\ MaxRemote \in Nat
    BY <1>1, <1>2, ResourcesAssumption
  <2> QED BY <1>1, <1>2, <2>1, MinusProperties
<1> HIDE DEF bytes, units, c
<1>6. bytes + new.cost <= MaxRemote /\ units + new.amount <= CatLimit[c]
  <2>1. bytes <= MaxRemote /\ units <= CatLimit[c]
    BY <1>1, <1>5
  <2>2. Minus(CatLimit[c], units) = CatLimit[c] - units /\ Minus(MaxRemote, bytes) = MaxRemote - bytes
    BY <1>5, <2>1, MinusProperties
  <2> QED BY <1>2, <1>3, <1>5, <2>1, <2>2
<1>7. v.bytes \in Nat /\ v.units \in [Cats -> Nat] /\ v.counts \in [Cats -> Nat]
  BY <1>1, <1>2, <1>4, <1>5
<1>8. v \in UsageType
  BY <1>4, <1>7 DEF UsageType
<1>9. v.bytes <= MaxRemote
      /\ \A d \in Cats : v.units[d] <= CatLimit[d] /\ v.counts[d] <= CountLimit[d]
  BY <1>1, <1>2, <1>4, <1>6
<1> QED BY <1>8, <1>9 DEF GoodUsage, Within, v

\* Any sequence of leases given back, one after the other.
LEMMA ReleaseAllGood ==
    ASSUME NEW u \in GoodUsage, NEW ls \in Seq(Leases)
    PROVE  ReleaseAll(u, ls) \in GoodUsage
<1> DEFINE n == Len(ls)
           step == [p \in (1 .. n) \X GoodUsage |-> Release(p[2], ls[p[1]])]
           Is(h) == h = [k \in 0 .. n |-> IF k = 0 THEN u ELSE Release(h[k - 1], ls[k])]
           after == CHOOSE h : Is(h)
           T == {k \in 0 .. n : after[k] \in GoodUsage}
<1>1. n \in Nat /\ \A k \in 1 .. n : ls[k] \in Leases
  OBVIOUS
<1>2. \A k \in 1 .. n : \A y \in GoodUsage :
        step[<<k, y>>] = Release(y, ls[k]) /\ step[<<k, y>>] \in GoodUsage
  <2> HIDE DEF n
  <2> SUFFICES ASSUME NEW k \in 1 .. n, NEW y \in GoodUsage
               PROVE  step[<<k, y>>] = Release(y, ls[k]) /\ step[<<k, y>>] \in GoodUsage
    OBVIOUS
  <2>1. ls[k] \in Leases
    BY <1>1
  <2>2. Release(y, ls[k]) \in GoodUsage
    BY <2>1, ReleaseGood
  <2>3. <<k, y>> \in (1 .. n) \X GoodUsage
    OBVIOUS
  <2>4. step[<<k, y>>] = Release(<<k, y>>[2], ls[<<k, y>>[1]])
    BY <2>3, Zenon
  <2> QED BY <2>2, <2>4
<1> HIDE DEF step
<1>3. PICK g \in [0 .. n -> GoodUsage] :
        g[0] = u /\ \A k \in 1 .. n : g[k] = step[<<k, g[k - 1]>>]
  <2>1. step \in [(1 .. n) \X GoodUsage -> GoodUsage]
    <3>1. \A p \in (1 .. n) \X GoodUsage : Release(p[2], ls[p[1]]) \in GoodUsage
      <4> HIDE DEF n
      <4> SUFFICES ASSUME NEW p \in (1 .. n) \X GoodUsage
                   PROVE  Release(p[2], ls[p[1]]) \in GoodUsage
        OBVIOUS
      <4>1. p[1] \in 1 .. n /\ p[2] \in GoodUsage
        OBVIOUS
      <4>2. ls[p[1]] \in Leases
        BY <1>1, <4>1
      <4> QED BY <4>1, <4>2, ReleaseGood
    <3> QED BY <3>1 DEF step
  <2>2. Runs(GoodUsage, u, step, n) # {}
    <3> HIDE DEF n
    <3> QED BY <2>1, <1>1, RecursionExists
  <2> QED BY <2>2 DEF Runs, IsRun
<1>4. \A k \in 1 .. n : g[k] = Release(g[k - 1], ls[k])
  BY <1>1, <1>2, <1>3
<1>5. g = [k \in 0 .. n |-> IF k = 0 THEN u ELSE Release(g[k - 1], ls[k])]
  BY <1>1, <1>3, <1>4
<1>6. Is(after)
  <2> HIDE DEF Is
  <2>1. Is(g)
    BY <1>5 DEF Is
  <2> QED BY <2>1
<1> HIDE DEF after
<1>7. after[0] = u /\ \A k \in 1 .. n : after[k] = Release(after[k - 1], ls[k])
  BY <1>1, <1>6
<1>8. 0 .. n \subseteq T
  <2>1. 0 \in T
    BY <1>1, <1>7
  <2>2. ASSUME NEW k \in 0 .. n - 1, k \in T PROVE k + 1 \in T
    <3>1. k + 1 \in 1 .. n /\ (k + 1) - 1 = k
      BY <1>1
    <3>2. after[k + 1] = Release(after[k], ls[k + 1])
      BY <3>1, <1>7
    <3> QED BY <3>1, <3>2, <2>2, <1>1, ReleaseGood
  <2> HIDE DEF T
  <2> QED BY <1>1, <2>1, <2>2, IntervalInduction
<1>9. ReleaseAll(u, ls) = after[n]
  BY DEF ReleaseAll, after
<1> QED BY <1>1, <1>8, <1>9

-----------------------------------------------------------------------------
(* The ring.                                                               *)

\* A ring in the states its operations leave it in.
Rings == {r \in [slots : [0..(RingSize - 1) -> QueuedUpdates \cup {None}],
                 head : 0..(RingSize - 1), len : 0..RingSize, bytes : 0..RingBytes] : RingOK(r)}

\* The slot i behind the head.
Slot(head, i) == IF head + i < RingSize THEN head + i ELSE head + i - RingSize

LEMMA SlotIndex ==
    ASSUME NEW head \in 0..(RingSize - 1), NEW i \in 0..RingSize
    PROVE  /\ (head + i) % RingSize = Slot(head, i)
           /\ Slot(head, i) \in 0..(RingSize - 1)
<1>1. RingSize \in Nat \ {0}
  BY ResourcesAssumption
<1>2. (head + i) % RingSize = IF head + i < RingSize THEN head + i ELSE head + i - RingSize
  BY <1>1, RingIndex
<1>3. Slot(head, i) \in 0..(RingSize - 1)
  BY <1>1 DEF Slot
<1> QED BY <1>1, <1>2, <1>3 DEF Slot

\* Different places have different slots, and the second is the head of the rest.
LEMMA SlotsDiffer ==
    ASSUME NEW head \in 0..(RingSize - 1), NEW i \in 0..(RingSize - 1), NEW j \in 0..(RingSize - 1), i # j
    PROVE  Slot(head, i) # Slot(head, j)
<1>1. RingSize \in Nat \ {0}
  BY ResourcesAssumption
<1>2. CASE head + i < RingSize
  BY <1>1, <1>2 DEF Slot
<1>3. CASE ~(head + i < RingSize)
  BY <1>1, <1>3 DEF Slot
<1> QED BY <1>2, <1>3

LEMMA SlotOfRest ==
    ASSUME NEW head \in 0..(RingSize - 1), NEW i \in Nat, i + 1 < RingSize
    PROVE  Slot(Slot(head, 1), i) = Slot(head, i + 1)
<1>1. RingSize \in Nat \ {0}
  BY ResourcesAssumption
<1>2. CASE head + 1 < RingSize
  <2>1. Slot(head, 1) = head + 1
    BY <1>2 DEF Slot
  <2>2. head + 1 + i = head + (i + 1)
    OBVIOUS
  <2> QED BY <1>1, <2>1, <2>2 DEF Slot
<1>3. CASE ~(head + 1 < RingSize)
  <2>1. head + 1 = RingSize /\ Slot(head, 1) = 0
    BY <1>1, <1>3 DEF Slot
  <2>2. Slot(0, i) = i
    BY <1>1 DEF Slot
  <2>3. Slot(head, i + 1) = i
    BY <1>1, <2>1 DEF Slot
  <2> QED BY <2>1, <2>2, <2>3
<1> QED BY <1>2, <1>3

\* What RingOK says, with the remainders worked out.
LEMMA RingParts ==
    ASSUME NEW r \in Rings
    PROVE  /\ r = [slots |-> r.slots, head |-> r.head, len |-> r.len, bytes |-> r.bytes]
           /\ r.slots \in [0..(RingSize - 1) -> QueuedUpdates \cup {None}]
           /\ r.head \in 0..(RingSize - 1) /\ r.len \in 0..RingSize /\ r.bytes \in 0..RingBytes
           /\ \A i \in 0..(r.len - 1) : /\ r.slots[Slot(r.head, i)] \in QueuedUpdates
                                        /\ r.slots[Slot(r.head, i)].wire <= RingBytes
<1>0. RingSize \in Nat \ {0}
  BY ResourcesAssumption
<1>1. /\ r = [slots |-> r.slots, head |-> r.head, len |-> r.len, bytes |-> r.bytes]
      /\ r.slots \in [0..(RingSize - 1) -> QueuedUpdates \cup {None}]
      /\ r.head \in 0..(RingSize - 1) /\ r.len \in 0..RingSize /\ r.bytes \in 0..RingBytes
  BY DEF Rings
<1>2. ASSUME NEW i \in 0..(r.len - 1)
      PROVE  /\ r.slots[Slot(r.head, i)] \in QueuedUpdates
             /\ r.slots[Slot(r.head, i)].wire <= RingBytes
  <2>1. i \in 0..RingSize
    BY <1>0, <1>1
  <2>2. (r.head + i) % RingSize = Slot(r.head, i) /\ Slot(r.head, i) \in 0..(RingSize - 1)
    BY <1>1, <2>1, SlotIndex
  <2>3. r.slots[(r.head + i) % RingSize] # None /\ r.slots[(r.head + i) % RingSize].wire <= RingBytes
    BY DEF Rings, RingOK
  <2> QED BY <1>1, <2>2, <2>3
<1> QED BY <1>1, <1>2

LEMMA MakeRing ==
    ASSUME NEW slots \in [0..(RingSize - 1) -> QueuedUpdates \cup {None}],
           NEW head \in 0..(RingSize - 1), NEW len \in 0..RingSize, NEW bytes \in 0..RingBytes,
           \A i \in 0..(len - 1) : /\ slots[Slot(head, i)] \in QueuedUpdates
                                   /\ slots[Slot(head, i)].wire <= RingBytes
    PROVE  [slots |-> slots, head |-> head, len |-> len, bytes |-> bytes] \in Rings
<1> DEFINE r == [slots |-> slots, head |-> head, len |-> len, bytes |-> bytes]
<1>0. RingSize \in Nat \ {0} /\ None \notin QueuedUpdates
  BY ResourcesAssumption
<1>1. r \in [slots : [0..(RingSize - 1) -> QueuedUpdates \cup {None}],
             head : 0..(RingSize - 1), len : 0..RingSize, bytes : 0..RingBytes]
  OBVIOUS
<1>2. ASSUME NEW i \in 0..(len - 1)
      PROVE  LET u == slots[(head + i) % RingSize] IN u # None /\ u.wire <= RingBytes
  <2>1. i \in 0..RingSize
    BY <1>0
  <2>2. (head + i) % RingSize = Slot(head, i)
    BY <2>1, SlotIndex
  <2> QED BY <1>0, <2>2
<1>3. RingOK(r)
  BY <1>1, <1>2 DEF RingOK
<1> HIDE DEF r
<1>4. r \in Rings
  BY <1>1, <1>3 DEF Rings
<1> QED BY <1>4 DEF r

\* Its queue, oldest first.
LEMMA QueuedProperties ==
    ASSUME NEW r \in Rings
    PROVE  /\ Queued(r) \in Seq(QueuedUpdates) /\ Len(Queued(r)) = r.len /\ r.len \in Nat
           /\ DOMAIN Queued(r) = 1..r.len
           /\ \A i \in 1..r.len : /\ Queued(r)[i] = r.slots[Slot(r.head, i - 1)]
                                  /\ Queued(r)[i] \in QueuedUpdates
                                  /\ Queued(r)[i].wire <= RingBytes
<1>0. RingSize \in Nat \ {0}
  BY ResourcesAssumption
<1>1. r.head \in 0..(RingSize - 1) /\ r.len \in 0..RingSize
  BY RingParts
<1>2. r.len \in Nat
  BY <1>0, <1>1
<1>3. ASSUME NEW i \in 1..r.len
      PROVE  /\ r.slots[(r.head + i - 1) % RingSize] = r.slots[Slot(r.head, i - 1)]
             /\ r.slots[Slot(r.head, i - 1)] \in QueuedUpdates
             /\ r.slots[Slot(r.head, i - 1)].wire <= RingBytes
  <2>1. i - 1 \in 0..(r.len - 1) /\ i - 1 \in 0..RingSize /\ r.head + i - 1 = r.head + (i - 1)
    BY <1>0, <1>1
  <2>2. (r.head + (i - 1)) % RingSize = Slot(r.head, i - 1)
    BY <1>1, <2>1, SlotIndex
  <2>3. /\ r.slots[Slot(r.head, i - 1)] \in QueuedUpdates
        /\ r.slots[Slot(r.head, i - 1)].wire <= RingBytes
    BY <2>1, RingParts
  <2> QED BY <2>1, <2>2, <2>3
<1>4. Queued(r) = [i \in 1..r.len |-> r.slots[Slot(r.head, i - 1)]]
  BY <1>3 DEF Queued
<1>5. Queued(r) \in [1..r.len -> QueuedUpdates]
  BY <1>3, <1>4
<1>6. Queued(r) \in Seq(QueuedUpdates) /\ Len(Queued(r)) = r.len
  BY <1>2, <1>5
<1> QED BY <1>2, <1>3, <1>4, <1>5, <1>6

LEMMA PopEmpty ==
    ASSUME NEW r \in Rings, r.len = 0
    PROVE  Front1(r) = None /\ pop_front(r) = r
BY DEF Front1, pop_front

\* Popping takes the front of the queue, and leaves room to push it back.
LEMMA PopProperties ==
    ASSUME NEW r \in Rings, r.len # 0
    PROVE  /\ Front1(r) = Queued(r)[1] /\ Front1(r) \in QueuedUpdates /\ Front1(r) # None
           /\ pop_front(r) \in Rings /\ pop_front(r).len = r.len - 1
           /\ \A i \in 1..(r.len - 1) : Queued(pop_front(r))[i] = Queued(r)[i + 1]
           /\ can_push(pop_front(r), Front1(r).wire)
<1> DEFINE u == Front1(r)
           head == IF r.len = 1 THEN 0 ELSE (r.head + 1) % RingSize
           slots == [r.slots EXCEPT ![r.head] = None]
           bytes == Minus(r.bytes, u.wire)
           len == r.len - 1
           p == pop_front(r)
<1>0. RingSize \in Nat \ {0} /\ RingBytes \in Nat /\ None \notin QueuedUpdates
  BY ResourcesAssumption
<1>1. /\ r.slots \in [0..(RingSize - 1) -> QueuedUpdates \cup {None}]
      /\ r.head \in 0..(RingSize - 1) /\ r.len \in 0..RingSize /\ r.bytes \in 0..RingBytes
  BY RingParts
<1>2. r.len \in 1..RingSize /\ len \in 0..RingSize /\ len \in 0..(RingSize - 1)
  BY <1>0, <1>1
<1>3. u = r.slots[r.head] /\ u = Queued(r)[1] /\ u \in QueuedUpdates /\ u.wire <= RingBytes
  <2>1. u = r.slots[r.head]
    BY DEF Front1
  <2>2. Slot(r.head, 1 - 1) = r.head
    BY <1>0, <1>1 DEF Slot
  <2>3. 1 \in 1..r.len
    BY <1>2
  <2>4. Queued(r)[1] = r.slots[Slot(r.head, 1 - 1)] /\ Queued(r)[1] \in QueuedUpdates
        /\ Queued(r)[1].wire <= RingBytes
    BY <2>3, QueuedProperties
  <2> QED BY <2>1, <2>2, <2>4
<1>4. u # None /\ u.wire \in Nat
  BY <1>0, <1>3 DEF QueuedUpdates
<1>5. p = [slots |-> slots, head |-> head, len |-> len, bytes |-> bytes]
  BY <1>3, <1>4 DEF pop_front
<1>6. bytes \in 0..RingBytes /\ bytes + u.wire <= RingBytes
  <2>1. CASE u.wire <= r.bytes
    <3>1. bytes = r.bytes - u.wire
      <4>1. r.bytes \in Nat
        BY <1>0, <1>1
      <4> QED BY <2>1, <4>1, <1>4, MinusProperties
    <3> QED BY <3>1, <2>1, <1>0, <1>1, <1>4
  <2>2. CASE ~(u.wire <= r.bytes)
    <3>1. bytes = 0
      BY <2>2, <1>1, <1>4 DEF Minus
    <3> QED BY <3>1, <1>0, <1>3, <1>4
  <2> QED BY <2>1, <2>2
<1>7. head = (IF r.len = 1 THEN 0 ELSE Slot(r.head, 1)) /\ head \in 0..(RingSize - 1)
  <2>1. 1 \in 0..RingSize
    BY <1>0
  <2>2. (r.head + 1) % RingSize = Slot(r.head, 1) /\ Slot(r.head, 1) \in 0..(RingSize - 1)
    BY <1>1, <2>1, SlotIndex
  <2> QED BY <1>0, <2>2
<1> HIDE DEF head, bytes, u
<1>8. ASSUME NEW i \in 0..(len - 1)
      PROVE  /\ Slot(head, i) = Slot(r.head, i + 1)
             /\ slots[Slot(head, i)] = r.slots[Slot(r.head, i + 1)]
             /\ i + 1 \in 0..(r.len - 1)
  <2>1. r.len # 1 /\ i + 1 \in 0..(r.len - 1) /\ i \in Nat /\ i + 1 < RingSize
    BY <1>0, <1>2
  <2>2. head = Slot(r.head, 1)
    BY <2>1, <1>7
  <2>3. Slot(head, i) = Slot(r.head, i + 1)
    BY <2>1, <2>2, <1>1, SlotOfRest
  <2>4. Slot(r.head, 0) = r.head
    BY <1>0, <1>1 DEF Slot
  <2>5. i + 1 \in 0..(RingSize - 1) /\ 0 \in 0..(RingSize - 1) /\ i + 1 \in 0..RingSize /\ i + 1 # 0
    BY <2>1, <1>0
  <2>6. Slot(r.head, i + 1) # r.head /\ Slot(r.head, i + 1) \in 0..(RingSize - 1)
    <3>1. Slot(r.head, i + 1) # Slot(r.head, 0)
      BY <2>5, <1>1, SlotsDiffer
    <3>2. Slot(r.head, i + 1) \in 0..(RingSize - 1)
      BY <2>5, <1>1, SlotIndex
    <3> QED BY <3>1, <3>2, <2>4
  <2> QED BY <2>1, <2>3, <2>6, <1>1
<1>9. slots \in [0..(RingSize - 1) -> QueuedUpdates \cup {None}]
  BY <1>1
<1> HIDE DEF slots, len
<1>10. \A i \in 0..(len - 1) : /\ slots[Slot(head, i)] \in QueuedUpdates
                               /\ slots[Slot(head, i)].wire <= RingBytes
  BY <1>8, RingParts
<1>11. p \in Rings
  <2> HIDE DEF p
  <2> QED BY <1>2, <1>5, <1>6, <1>7, <1>9, <1>10, MakeRing
<1>12. p.len = len /\ p.bytes = bytes /\ p.slots = slots /\ p.head = head
  BY <1>5
<1> HIDE DEF p
<1>13. ASSUME NEW i \in 1..len
       PROVE  Queued(p)[i] = Queued(r)[i + 1]
  <2>1. i - 1 \in 0..(len - 1) /\ i \in 1..p.len /\ (i - 1) + 1 = i /\ (i + 1) - 1 = i
    BY <1>2, <1>12
  <2>2. i + 1 \in 1..r.len
    BY <1>2 DEF len
  <2>3. Queued(p)[i] = slots[Slot(head, i - 1)]
    BY <1>11, <1>12, <2>1, QueuedProperties
  <2>4. Queued(r)[i + 1] = r.slots[Slot(r.head, (i + 1) - 1)]
    BY <2>2, QueuedProperties
  <2>5. slots[Slot(head, i - 1)] = r.slots[Slot(r.head, (i - 1) + 1)]
    BY <1>8, <2>1
  <2> QED BY <2>1, <2>3, <2>4, <2>5
<1>14. can_push(p, u.wire)
  BY <1>0, <1>2, <1>6, <1>12 DEF can_push
<1> QED BY <1>3, <1>4, <1>11, <1>12, <1>13, <1>14 DEF u, p, len

\* Pushing appends to the queue.
LEMMA PushProperties ==
    ASSUME NEW r \in Rings, NEW u \in QueuedUpdates, can_push(r, u.wire)
    PROVE  /\ push_back(r, u) \in Rings /\ push_back(r, u).len = r.len + 1
           /\ \A i \in 1..r.len : Queued(push_back(r, u))[i] = Queued(r)[i]
           /\ Queued(push_back(r, u))[r.len + 1] = u
<1> DEFINE p == push_back(r, u)
           at == (r.head + r.len) % RingSize
           slots == [r.slots EXCEPT ![at] = u]
           len == r.len + 1
           bytes == r.bytes + u.wire
<1>0. RingSize \in Nat \ {0} /\ RingBytes \in Nat
  BY ResourcesAssumption
<1>1. /\ r.slots \in [0..(RingSize - 1) -> QueuedUpdates \cup {None}]
      /\ r.head \in 0..(RingSize - 1) /\ r.len \in 0..RingSize /\ r.bytes \in 0..RingBytes
      /\ r = [slots |-> r.slots, head |-> r.head, len |-> r.len, bytes |-> r.bytes]
  BY RingParts
<1>2. r.len < RingSize /\ r.bytes + u.wire <= RingBytes /\ u.wire \in Nat
  BY DEF can_push, QueuedUpdates
<1>3. p = [slots |-> slots, head |-> r.head, len |-> len, bytes |-> bytes]
  <2>1. p = [r EXCEPT !.slots[(r.head + r.len) % RingSize] = u, !.len = @ + 1, !.bytes = @ + u.wire]
    BY DEF push_back, Pushed
  <2>2. p = [r EXCEPT !.slots = slots, !.len = len, !.bytes = bytes]
    BY <2>1, <1>1
  <2> HIDE DEF slots, len, bytes, p
  <2> QED BY <2>2, <1>1
<1>4. at = Slot(r.head, r.len) /\ at \in 0..(RingSize - 1)
  BY <1>1, SlotIndex
<1>5. slots \in [0..(RingSize - 1) -> QueuedUpdates \cup {None}]
  BY <1>1, <1>4
<1>6. len \in 0..RingSize /\ bytes \in 0..RingBytes
  BY <1>0, <1>1, <1>2
<1> HIDE DEF at
<1>7. ASSUME NEW i \in 0..(len - 1)
      PROVE  slots[Slot(r.head, i)] = IF i = r.len THEN u ELSE r.slots[Slot(r.head, i)]
  <2>1. i \in 0..r.len
    BY <1>1
  <2>2. CASE i = r.len
    BY <2>2, <1>1, <1>4
  <2>3. CASE i # r.len
    <3>1. i \in Nat /\ i < r.len /\ i < RingSize
      BY <2>1, <2>3, <1>0, <1>1
    <3>2. i \in 0..(RingSize - 1) /\ r.len \in 0..(RingSize - 1) /\ i \in 0..RingSize
      BY <3>1, <1>0, <1>1, <1>2
    <3>3. Slot(r.head, i) # Slot(r.head, r.len)
      BY <2>3, <3>2, <1>1, SlotsDiffer
    <3>4. Slot(r.head, i) # at /\ Slot(r.head, i) \in 0..(RingSize - 1)
      BY <3>2, <3>3, <1>1, <1>4, SlotIndex
    <3> QED BY <3>4, <2>3, <1>1
  <2> QED BY <2>2, <2>3
<1> HIDE DEF slots
<1>8. ASSUME NEW i \in 0..(len - 1)
      PROVE  slots[Slot(r.head, i)] \in QueuedUpdates /\ slots[Slot(r.head, i)].wire <= RingBytes
  <2>1. CASE i = r.len
    BY <2>1, <1>0, <1>1, <1>2, <1>7
  <2>2. CASE i # r.len
    <3>1. i \in 0..(r.len - 1)
      BY <2>2, <1>1
    <3> QED BY <2>2, <3>1, <1>7, RingParts
  <2> QED BY <2>1, <2>2
<1> HIDE DEF len, bytes
<1>9. p \in Rings
  <2> HIDE DEF p
  <2> QED BY <1>1, <1>3, <1>5, <1>6, <1>8, MakeRing
<1>10. p.slots = slots /\ p.head = r.head /\ p.len = len
  BY <1>3
<1> HIDE DEF p
<1>11. ASSUME NEW i \in 1..len
       PROVE  Queued(p)[i] = IF i = r.len + 1 THEN u ELSE Queued(r)[i]
  <2>1. i - 1 \in 0..(len - 1) /\ i \in 1..p.len /\ (i - 1 = r.len <=> i = r.len + 1)
    BY <1>1, <1>6, <1>10
  <2>2. Queued(p)[i] = slots[Slot(r.head, i - 1)]
    BY <1>9, <1>10, <2>1, QueuedProperties
  <2>3. CASE i = r.len + 1
    BY <2>1, <2>2, <2>3, <1>7
  <2>4. CASE i # r.len + 1
    <3>1. i \in 1..r.len
      BY <2>4, <1>1 DEF len
    <3>2. Queued(r)[i] = r.slots[Slot(r.head, i - 1)]
      BY <3>1, QueuedProperties
    <3> QED BY <2>1, <2>2, <2>4, <3>2, <1>7
  <2> QED BY <2>3, <2>4
<1>12. r.len + 1 \in 1..len /\ \A i \in 1..r.len : i \in 1..len /\ i # r.len + 1
  BY <1>1 DEF len
<1> QED BY <1>9, <1>10, <1>11, <1>12 DEF p, len


\* Popping, whatever is there.
LEMMA PopClosed ==
    ASSUME NEW r \in Rings
    PROVE  pop_front(r) \in Rings
BY PopEmpty, PopProperties

\* What is left after n pops is the queue without its first n updates.
LEMMA RestProperties ==
    ASSUME ring \in Rings, NEW n \in 0..ring.len
    PROVE  /\ Rest(n) \in Rings /\ Rest(n).len = ring.len - n
           /\ \A i \in 1..(ring.len - n) : Queued(Rest(n))[i] = Queued(ring)[n + i]
<1> DEFINE step == [p \in (1..n) \X Rings |-> pop_front(p[2])]
           Is(h) == h = [k \in 0..n |-> IF k = 0 THEN ring ELSE pop_front(h[k - 1])]
           after == CHOOSE h : Is(h)
           Popped(k) == /\ after[k] \in Rings /\ after[k].len = ring.len - k
                        /\ \A i \in 1..(ring.len - k) : Queued(after[k])[i] = Queued(ring)[k + i]
           T == {k \in 0..n : Popped(k)}
<1>1. n \in Nat /\ ring.len \in Nat /\ n <= ring.len
  BY QueuedProperties
<1>2. PICK g \in [0..n -> Rings] : g[0] = ring /\ \A k \in 1..n : g[k] = step[<<k, g[k - 1]>>]
  <2>1. step \in [(1..n) \X Rings -> Rings]
    BY PopClosed
  <2>2. Runs(Rings, ring, step, n) # {}
    <3> HIDE DEF step
    <3> QED BY <2>1, <1>1, RecursionExists
  <2> QED BY <2>2 DEF Runs, IsRun
<1>3. \A k \in 1..n : g[k] = pop_front(g[k - 1])
  <2>1. \A k \in 1..n : g[k - 1] \in Rings
    BY <1>1
  <2> QED BY <2>1, <1>2
<1>4. Is(g)
  BY <1>1, <1>2, <1>3
<1>5. Is(after)
  <2> HIDE DEF Is
  <2> QED BY <1>4
<1> HIDE DEF after
<1>6. after[0] = ring /\ \A k \in 1..n : after[k] = pop_front(after[k - 1])
  BY <1>1, <1>5
<1>7. 0 \in T
  BY <1>1, <1>6
<1>8. ASSUME NEW k \in 0..n - 1, k \in T PROVE k + 1 \in T
  <2> DEFINE r == after[k]
             p == after[k + 1]
  <2>1. k + 1 \in 1..n /\ (k + 1) - 1 = k /\ k \in Nat /\ k + 1 \in 0..n
    BY <1>1
  <2>2. p = pop_front(r)
    BY <2>1, <1>6
  <2>3. r \in Rings /\ r.len = ring.len - k
        /\ \A i \in 1..(ring.len - k) : Queued(r)[i] = Queued(ring)[k + i]
    BY <1>8
  <2> HIDE DEF r, p
  <2>4. r.len # 0
    BY <2>1, <2>3, <1>1
  <2>5. p \in Rings /\ p.len = r.len - 1
        /\ \A i \in 1..(r.len - 1) : Queued(p)[i] = Queued(r)[i + 1]
    BY <2>2, <2>3, <2>4, PopProperties
  <2>6. ASSUME NEW i \in 1..(ring.len - (k + 1)) PROVE Queued(p)[i] = Queued(ring)[k + 1 + i]
    <3>1. i \in 1..(r.len - 1) /\ i + 1 \in 1..(ring.len - k) /\ k + (i + 1) = k + 1 + i
      BY <2>1, <2>3, <1>1
    <3> QED BY <3>1, <2>3, <2>5
  <2>7. p.len = ring.len - (k + 1)
    BY <2>1, <2>3, <2>5, <1>1
  <2>8. Popped(k + 1)
    BY <2>5, <2>6, <2>7 DEF p
  <2> QED BY <2>1, <2>8
<1>9. n \in T
  <2> HIDE DEF T
  <2>1. 0..n \subseteq T
    BY <1>1, <1>7, <1>8, IntervalInduction
  <2> QED BY <2>1, <1>1
<1>10. Rest(n) = after[n]
  BY DEF Rest, after
<1> QED BY <1>9, <1>10

Holdings == [ring : Rings, usage : GoodUsage]

\* One turn of the rotation: the front goes, or goes to the back.
LEMMA TurnedProperties ==
    ASSUME NEW st \in Holdings, NEW s
    PROVE  /\ Turned(st, s) \in Holdings
           /\ LET q == Queued(st.ring)
                  t == Queued(Turned(st, s).ring)
              IN  st.ring.len # 0 =>
                    /\ \A i \in 1..(st.ring.len - 1) : t[i] = q[i + 1]
                    /\ q[1].scope = s => Turned(st, s).ring.len = st.ring.len - 1
                    /\ q[1].scope # s => /\ Turned(st, s).ring.len = st.ring.len
                                         /\ t[st.ring.len] = q[1]
<1> DEFINE r == st.ring
           u == Front1(r)
           p == pop_front(r)
<1>1. r \in Rings /\ st.usage \in GoodUsage /\ st = [ring |-> r, usage |-> st.usage]
  BY DEF Holdings
<1>2. CASE r.len = 0
  <2>1. Turned(st, s) = st
    BY <1>1, <1>2, PopEmpty DEF Turned
  <2> QED BY <1>2, <2>1
<1>3. CASE r.len # 0
  <2>1. /\ u = Queued(r)[1] /\ u \in QueuedUpdates /\ u # None /\ p \in Rings /\ p.len = r.len - 1
        /\ \A i \in 1..(r.len - 1) : Queued(p)[i] = Queued(r)[i + 1]
        /\ can_push(p, u.wire)
    BY <1>1, <1>3, PopProperties
  <2>2. r.len \in Nat
    BY <1>1, QueuedProperties
  <2>3. CASE u.scope = s
    <3>1. Turned(st, s) = [ring |-> p, usage |-> Release(st.usage, u.lease)]
      BY <2>1, <2>3 DEF Turned
    <3>2. Release(st.usage, u.lease) \in GoodUsage
      BY <1>1, <2>1, ReleaseGood DEF QueuedUpdates
    <3>3. Turned(st, s) \in Holdings /\ Turned(st, s).ring = p
      BY <3>1, <3>2, <2>1 DEF Holdings
    <3> HIDE DEF p, u
    <3> QED BY <3>3, <2>1, <2>3
  <2>4. CASE u.scope # s
    <3> DEFINE b == push_back(p, u)
    <3>1. Turned(st, s) = [st EXCEPT !.ring = b]
      BY <2>1, <2>4 DEF Turned
    <3>2. b \in Rings /\ b.len = p.len + 1 /\ (\A i \in 1..p.len : Queued(b)[i] = Queued(p)[i])
          /\ Queued(b)[p.len + 1] = u
      <4> HIDE DEF p, u
      <4> QED BY <2>1, PushProperties
    <3> HIDE DEF b
    <3>3. Turned(st, s) = [ring |-> b, usage |-> st.usage]
      BY <3>1, <1>1
    <3>4. Turned(st, s) \in Holdings /\ Turned(st, s).ring = b
      BY <3>2, <3>3, <1>1 DEF Holdings
    <3> HIDE DEF p, u
    <3>5. p.len + 1 = r.len /\ p.len = r.len - 1
      BY <2>1, <2>2
    <3> QED BY <3>2, <3>4, <3>5, <2>1, <2>4
  <2> QED BY <2>3, <2>4
<1> QED BY <1>2, <1>3

\* Rotating once round keeps, in their order, the updates of the other scopes.
LEMMA RetireProperties ==
    ASSUME ring \in Rings, usage \in GoodUsage, NEW s
    PROVE  LET q == Queued(ring)
               r == retire_scope(s)
           IN  /\ r \in Holdings
               /\ Queued(r.ring) = Subsequence(q, {i \in DOMAIN q : q[i].scope # s})
<1> DEFINE n == ring.len
           q == Queued(ring)
           from == [ring |-> ring, usage |-> usage]
           step == [p \in (1..n) \X Holdings |-> Turned(p[2], s)]
           Is(h) == h = [k \in 0..n |-> IF k = 0 THEN from ELSE Turned(h[k - 1], s)]
           after == CHOOSE h : Is(h)
           Kept(k) == {i \in 1..k : q[i].scope # s}
           B(k) == Subsequence(q, Kept(k))
           Q(k) == Queued(after[k].ring)
           m(k) == Cardinality(Kept(k))
           Rolled(k) == /\ after[k] \in Holdings /\ after[k].ring.len = n - k + m(k)
                        /\ \A i \in 1..(n - k) : Q(k)[i] = q[k + i]
                        /\ \A i \in 1..m(k) : Q(k)[n - k + i] = B(k)[i]
           T == {k \in 0..n : Rolled(k)}
<1>1. n \in Nat /\ q \in Seq(QueuedUpdates) /\ Len(q) = n /\ DOMAIN q = 1..n
      /\ from \in Holdings
  BY QueuedProperties DEF Holdings
<1>2. PICK g \in [0..n -> Holdings] : g[0] = from /\ \A k \in 1..n : g[k] = step[<<k, g[k - 1]>>]
  <2>1. step \in [(1..n) \X Holdings -> Holdings]
    BY TurnedProperties
  <2>2. Runs(Holdings, from, step, n) # {}
    <3> HIDE DEF step, from, n
    <3> QED BY <2>1, <1>1, RecursionExists
  <2> QED BY <2>2 DEF Runs, IsRun
<1> HIDE DEF from
<1>3. \A k \in 1..n : g[k] = Turned(g[k - 1], s)
  <2>1. \A k \in 1..n : g[k - 1] \in Holdings
    BY <1>1
  <2> QED BY <2>1, <1>2
<1>4. Is(g)
  BY <1>1, <1>2, <1>3
<1>5. Is(after)
  <2> HIDE DEF Is
  <2> QED BY <1>4
<1> HIDE DEF after
<1>6. after[0] = from /\ \A k \in 1..n : after[k] = Turned(after[k - 1], s)
  BY <1>1, <1>5
<1>7. ASSUME NEW k \in 0..n
      PROVE  Kept(k) \in SUBSET DOMAIN q /\ B(k) \in Seq(QueuedUpdates) /\ Len(B(k)) = m(k) /\ m(k) \in Nat
  <2>1. Kept(k) \in SUBSET DOMAIN q
    BY <1>1
  <2> HIDE DEF q, Kept
  <2> QED BY <2>1, <1>1, SubsequenceProperties
<1>8. 0 \in T
  <2>1. Kept(0) = {} /\ m(0) = 0
    <3>1. Kept(0) = {}
      OBVIOUS
    <3> HIDE DEF Kept
    <3> QED BY <3>1, FS_EmptySet
  <2>2. after[0].ring = ring
    BY <1>6 DEF from
  <2> HIDE DEF Kept, m
  <2> QED BY <1>1, <1>6, <2>1, <2>2
<1>9. ASSUME NEW k \in 0..n - 1, k \in T PROVE k + 1 \in T
  <2> DEFINE a == after[k]
             z == after[k + 1]
             len == a.ring.len
  <2>1. k + 1 \in 1..n /\ (k + 1) - 1 = k /\ k \in Nat /\ k + 1 \in 0..n /\ k \in 0..n /\ k < n
    BY <1>1
  <2>2. z = Turned(a, s)
    BY <2>1, <1>6
  <2>3. Rolled(k)
    BY <1>9
  <2>4. m(k) \in Nat /\ len = n - k + m(k) /\ len # 0 /\ len \in Nat
    <3>1. m(k) \in Nat
      BY <2>1, <1>7
    <3>2. len = n - k + m(k)
      BY <2>3
    <3> HIDE DEF n, m, len
    <3> QED BY <2>1, <3>1, <3>2, <1>1
  <2>5. Q(k)[1] = q[k + 1]
    BY <2>1, <2>3, <1>1
  <2>6. /\ z \in Holdings
        /\ \A i \in 1..(len - 1) : Q(k + 1)[i] = Q(k)[i + 1]
        /\ q[k + 1].scope = s => z.ring.len = len - 1
        /\ q[k + 1].scope # s => z.ring.len = len /\ Q(k + 1)[len] = q[k + 1]
    <3>1. a \in Holdings
      BY <2>3
    <3>2. a.ring.len # 0 /\ Queued(a.ring)[1] = q[k + 1]
      BY <2>4, <2>5
    <3> HIDE DEF a
    <3> DEFINE y == Turned(a, s)
    <3>3. /\ y \in Holdings
          /\ \A i \in 1..(a.ring.len - 1) : Queued(y.ring)[i] = Queued(a.ring)[i + 1]
          /\ q[k + 1].scope = s => y.ring.len = a.ring.len - 1
          /\ q[k + 1].scope # s => y.ring.len = a.ring.len /\ Queued(y.ring)[a.ring.len] = q[k + 1]
      BY <3>1, <3>2, TurnedProperties
    <3>4. z = y
      BY <2>2
    <3> HIDE DEF y
    <3> QED BY <3>3, <3>4 DEF a
  <2> HIDE DEF q, m, B
  <2>7. ASSUME NEW i \in 1..(n - (k + 1)) PROVE Q(k + 1)[i] = q[k + 1 + i]
    <3>1. i \in 1..(len - 1) /\ i + 1 \in 1..(n - k) /\ k + (i + 1) = k + 1 + i
      BY SMTT(30), <2>1, <2>4, <1>1
    <3> QED BY <3>1, <2>3, <2>6
  <2>8. ASSUME NEW i \in 1..m(k) PROVE Q(k + 1)[n - (k + 1) + i] = B(k)[i]
    <3>1. n - (k + 1) + i \in 1..(len - 1) /\ (n - (k + 1) + i) + 1 = n - k + i
      <4> HIDE DEF n, len
      <4> QED BY <2>1, <2>4, <1>1
    <3> QED BY <3>1, <2>3, <2>6
  <2>9. CASE q[k + 1].scope = s
    <3>1. Kept(k + 1) = Kept(k)
      BY <2>1, <2>9
    <3>2. m(k + 1) = m(k) /\ B(k + 1) = B(k)
      BY <3>1 DEF m, B
    <3>3. z.ring.len = n - (k + 1) + m(k + 1)
      BY <2>1, <2>4, <2>6, <2>9, <3>2, <1>1
    <3>4. Rolled(k + 1)
      BY <2>6, <2>7, <2>8, <3>2, <3>3
    <3> QED BY <3>4, <2>1
  <2>10. CASE q[k + 1].scope # s
    <3>1. Kept(k + 1) = Kept(k) \cup {k + 1}
      BY <2>1, <2>10
    <3>2. B(k + 1) = Append(B(k), q[k + 1])
      <4>1. \A i \in Kept(k) : i < k + 1
        BY <2>1
      <4>2. Kept(k) \in SUBSET DOMAIN q /\ k + 1 \in DOMAIN q
        BY <2>1, <1>1, <1>7
      <4> HIDE DEF Kept
      <4> QED BY <4>1, <4>2, <3>1, <1>1, SubsequenceGrows DEF B
    <3>3. m(k + 1) = m(k) + 1
      <4>1. Len(Append(B(k), q[k + 1])) = m(k) + 1
        BY <1>7, <2>1, <1>1
      <4>2. Len(B(k + 1)) = m(k + 1)
        BY <1>7, <2>1
      <4> QED BY <4>1, <4>2, <3>2
    <3>4. z.ring.len = n - (k + 1) + m(k + 1) /\ n - (k + 1) + m(k + 1) = len
      <4>1. z.ring.len = len
        BY <2>6, <2>10
      <4> HIDE DEF n, len, z
      <4> QED BY <4>1, <2>1, <2>4, <3>3, <1>1
    <3>5. ASSUME NEW i \in 1..m(k + 1) PROVE Q(k + 1)[n - (k + 1) + i] = B(k + 1)[i]
      <4>1. B(k) \in Seq(QueuedUpdates) /\ Len(B(k)) = m(k) /\ q[k + 1] \in QueuedUpdates
        BY <1>1, <1>7, <2>1
      <4>2. CASE i = m(k + 1)
        <5>1. B(k + 1)[i] = q[k + 1]
          BY <4>1, <4>2, <3>2, <3>3, <2>4
        <5>2. Q(k + 1)[n - (k + 1) + i] = q[k + 1]
          BY <4>2, <3>4, <2>6, <2>10
        <5> QED BY <5>1, <5>2
      <4>3. CASE i # m(k + 1)
        <5>1. i \in 1..m(k)
          BY <4>3, <3>3, <2>4
        <5>2. B(k + 1)[i] = B(k)[i]
          BY <4>1, <5>1, <3>2, <2>4
        <5> QED BY <5>1, <5>2, <2>8
      <4> QED BY <4>2, <4>3
    <3>6. Rolled(k + 1)
      BY <2>6, <2>7, <3>4, <3>5
    <3> QED BY <3>6, <2>1
  <2> QED BY <2>9, <2>10
<1>10. n \in T
  <2> HIDE DEF T
  <2>1. 0..n \subseteq T
    BY <1>1, <1>8, <1>9, IntervalInduction
  <2> QED BY <2>1, <1>1
<1>11. retire_scope(s) = after[n]
  BY DEF retire_scope, Rotated, after, from
<1>12. Q(n) = B(n)
  <2>1. Rolled(n) /\ n \in 0..n
    BY <1>10
  <2>2. after[n].ring \in Rings
    BY <2>1 DEF Holdings
  <2>3. Q(n) \in Seq(QueuedUpdates) /\ Len(Q(n)) = m(n)
    <3> DEFINE r == after[n].ring
    <3>1. Queued(r) \in Seq(QueuedUpdates) /\ Len(Queued(r)) = r.len
      <4> HIDE DEF r
      <4>1. r \in Rings
        BY <2>2 DEF r
      <4> QED BY <4>1, QueuedProperties
    <3>2. r.len = n - n + m(n) /\ m(n) \in Nat
      BY <2>1, <1>7
    <3>3. r.len = m(n)
      <4> HIDE DEF n, m, r
      <4> QED BY <3>2, <1>1
    <3> QED BY <3>1, <3>3
  <2>4. B(n) \in Seq(QueuedUpdates) /\ Len(B(n)) = m(n) /\ m(n) \in Nat
    BY <2>1, <1>7
  <2>5. \A i \in 1..m(n) : Q(n)[i] = B(n)[i]
    BY SMTT(30), <2>1, <2>4, <1>1
  <2> HIDE DEF B, Q, m
  <2> QED BY <2>3, <2>4, <2>5
<1>13. Kept(n) = {i \in DOMAIN q : q[i].scope # s}
  BY <1>1
<1> QED BY <1>10, <1>11, <1>12, <1>13


-----------------------------------------------------------------------------
(* Leases given back in a row.                                             *)

LEMMA LeasesOfType ==
    ASSUME NEW us \in Seq(QueuedUpdates)
    PROVE  LeasesOf(us) \in Seq(Leases)
<1>1. ASSUME NEW i \in 1..Len(us) PROVE us[i].lease \in Leases
  <2>1. us[i] \in QueuedUpdates
    OBVIOUS
  <2> QED BY <2>1 DEF QueuedUpdates
<1> QED BY <1>1 DEF LeasesOf

LEMMA SubLeasesType ==
    ASSUME NEW ss, IsFiniteSet(ss), \A x \in ss : x.lease \in Leases
    PROVE  SubLeases(ss) \in Seq(Leases)
<1> DEFINE n == Cardinality(ss)
           q == SetToSeq(ss)
<1>1. n \in Nat /\ ExistsBijection(1..n, ss)
  BY FS_CardinalityType
<1>2. \E f \in [1..n -> ss] : IsInjective(f)
  BY <1>1 DEF ExistsBijection, Bijection, Injection, IsInjective
<1>3. q \in [1..n -> ss]
  BY <1>2 DEF SetToSeq
<1>4. SubLeases(ss) = [i \in 1..n |-> q[i].lease]
  BY <1>3 DEF SubLeases
<1>5. SubLeases(ss) \in [1..n -> Leases]
  BY <1>3, <1>4
<1> QED BY <1>1, <1>5

LEMMA FreedType ==
    ASSUME NEW e \in Entries
    PROVE  Freed(e) \in Seq(Leases)
<1>1. e.keyLease \in Leases /\ e.lease \in Leases
  BY DEF Entries
<1>2. <<e.keyLease>> \in Seq(Leases) /\ <<e.lease>> \in Seq(Leases) /\ <<>> \in Seq(Leases)
  BY <1>1
<1>3. (IF Holds(e.rid) THEN <<>> ELSE <<e.lease>>) \in Seq(Leases)
  BY <1>2
<1> QED BY <1>2, <1>3, ConcatProperties DEF Freed

LEMMA ReleaseEntriesGood ==
    ASSUME NEW u \in GoodUsage, NEW es \in Seq(Entries)
    PROVE  ReleaseEntries(u, es) \in GoodUsage
<1> DEFINE n == Len(es)
           step == [p \in (1..n) \X GoodUsage |-> ReleaseAll(p[2], Freed(es[p[1]]))]
           Is(h) == h = [k \in 0..n |-> IF k = 0 THEN u ELSE ReleaseAll(h[k - 1], Freed(es[k]))]
           after == CHOOSE h : Is(h)
           T == {k \in 0..n : after[k] \in GoodUsage}
<1>1. n \in Nat /\ \A k \in 1..n : Freed(es[k]) \in Seq(Leases)
  BY FreedType
<1>2. PICK g \in [0..n -> GoodUsage] : g[0] = u /\ \A k \in 1..n : g[k] = step[<<k, g[k - 1]>>]
  <2>1. step \in [(1..n) \X GoodUsage -> GoodUsage]
    BY <1>1, ReleaseAllGood
  <2>2. Runs(GoodUsage, u, step, n) # {}
    <3> HIDE DEF step, n
    <3> QED BY <2>1, <1>1, RecursionExists
  <2> QED BY <2>2 DEF Runs, IsRun
<1>3. \A k \in 1..n : g[k] = ReleaseAll(g[k - 1], Freed(es[k]))
  <2>1. \A k \in 1..n : g[k - 1] \in GoodUsage
    BY SMTT(30), <1>1
  <2> QED BY <2>1, <1>2
<1>4. Is(g)
  BY <1>1, <1>2, <1>3
<1>5. Is(after)
  <2> HIDE DEF Is
  <2> QED BY <1>4
<1> HIDE DEF after
<1>6. after[0] = u /\ \A k \in 1..n : after[k] = ReleaseAll(after[k - 1], Freed(es[k]))
  BY <1>1, <1>5
<1>7. n \in T
  <2>1. 0 \in T
    BY <1>1, <1>6
  <2>2. ASSUME NEW k \in 0..n - 1, k \in T PROVE k + 1 \in T
    <3>1. k + 1 \in 1..n /\ (k + 1) - 1 = k /\ k + 1 \in 0..n
      BY <1>1
    <3>2. after[k + 1] = ReleaseAll(after[k], Freed(es[k + 1]))
      BY <3>1, <1>6
    <3> QED BY <3>1, <3>2, <2>2, <1>1, ReleaseAllGood
  <2> HIDE DEF T
  <2>3. 0..n \subseteq T
    BY <1>1, <2>1, <2>2, IntervalInduction
  <2> QED BY <2>3, <1>1
<1>8. ReleaseEntries(u, es) = after[n]
  BY DEF ReleaseEntries, after
<1> QED BY <1>7, <1>8

-----------------------------------------------------------------------------
(* The cache.                                                              *)

\* What the loops of an insert carry along.
GoodCache(st) == st.cache \in Seq(Entries) /\ st.usage \in GoodUsage

\* Evicting any number of entries.
LEMMA DroppedGood ==
    ASSUME NEW st, GoodCache(st), NEW key, NEW k
    PROVE  GoodCache(Dropped(st, key, k))
<1> DEFINE gone == {i \in DOMAIN st.cache : Goes(st.cache, key, k, i)}
           c == st.cache
<1>1. gone \in SUBSET DOMAIN c /\ DOMAIN c \ gone \in SUBSET DOMAIN c /\ c \in Seq(Entries)
  BY DEF GoodCache
<1> HIDE DEF gone
<1>2. Subsequence(c, gone) \in Seq(Entries) /\ Subsequence(c, DOMAIN c \ gone) \in Seq(Entries)
  <2> HIDE DEF c
  <2> QED BY <1>1, SubsequenceProperties
<1>3. ReleaseEntries(st.usage, Subsequence(c, gone)) \in GoodUsage
  BY <1>2, ReleaseEntriesGood DEF GoodCache
<1>4. Dropped(st, key, k).cache = Subsequence(c, DOMAIN c \ gone)
      /\ Dropped(st, key, k).usage = ReleaseEntries(st.usage, Subsequence(c, gone))
  BY DEF Dropped, gone
<1> QED BY <1>2, <1>3, <1>4 DEF GoodCache

\* The number of the new entry is nobody's.
LEMMA NextRidFresh ==
    ASSUME cache \in Seq(Entries), held \subseteq Clones, IsFiniteSet(held)
    PROVE  /\ NextRid \in Nat /\ \A i \in DOMAIN cache : cache[i].rid # NextRid
           /\ \A h \in held : h.rid # NextRid
<1> DEFINE A == {cache[i].rid : i \in DOMAIN cache}
           B == {h.rid : h \in held}
           f == [i \in DOMAIN cache |-> cache[i].rid]
           g == [h \in held |-> h.rid]
           n == Cardinality(RidsInUse)
           Unused == (1..(n + 1)) \ RidsInUse
<1>1. IsFiniteSet(A)
  <2>1. f \in Surjection(DOMAIN cache, A)
    BY DEF Surjection
  <2>2. DOMAIN cache = 1..Len(cache) /\ 1 \in Int /\ Len(cache) \in Int
    OBVIOUS
  <2>3. IsFiniteSet(1..Len(cache))
    BY <2>2, FS_Interval
  <2> HIDE DEF f, A
  <2> QED BY <2>1, <2>2, <2>3, FS_Surjection
<1>2. IsFiniteSet(B)
  <2>1. g \in Surjection(held, B)
    BY DEF Surjection
  <2> HIDE DEF g, B
  <2> QED BY <2>1, FS_Surjection
<1>3. IsFiniteSet(RidsInUse) /\ n \in Nat
  <2>1. IsFiniteSet(A \cup B)
    <3> HIDE DEF A, B
    <3> QED BY <1>1, <1>2, FS_Union
  <2>2. RidsInUse = A \cup B
    BY DEF RidsInUse
  <2> QED BY <2>1, <2>2, FS_CardinalityType
<1>4. Unused # {}
  <2>1. SUFFICES ASSUME Unused = {} PROVE FALSE
    OBVIOUS
  <2>2. 1..(n + 1) \in SUBSET RidsInUse
    BY <2>1
  <2>3. Cardinality(1..(n + 1)) <= n
    <3> HIDE DEF n
    <3>1. Cardinality(1..(n + 1)) <= Cardinality(RidsInUse)
      BY <2>2, <1>3, FS_Subset
    <3> QED BY <3>1 DEF n
  <2>4. Cardinality(1..(n + 1)) = n + 1
    <3> DEFINE m == n + 1
    <3>1. m \in Int /\ 1 \in Int /\ ~(1 > m) /\ m - 1 + 1 = m
      BY <1>3
    <3> HIDE DEF m
    <3>2. Cardinality(1..m) = IF 1 > m THEN 0 ELSE m - 1 + 1
      BY <3>1, FS_Interval
    <3>3. Cardinality(1..m) = m
      BY <3>1, <3>2
    <3> QED BY <3>3 DEF m
  <2> HIDE DEF n
  <2> QED BY <2>3, <2>4, <1>3
<1>5. Unused \in SUBSET Nat
  BY <1>3
<1>6. \E x \in Unused : \A y \in Unused : x <= y
  <2> HIDE DEF Unused
  <2> QED BY <1>4, <1>5, LeastNat
<1>7. NextRid = CHOOSE x \in Unused : \A y \in Unused : x <= y
  BY DEF NextRid, Min
<1>8. NextRid \in Unused
  <2> HIDE DEF Unused
  <2> QED BY <1>6, <1>7
<1>9. NextRid \in Nat /\ NextRid \notin RidsInUse
  <2> HIDE DEF n
  <2> QED BY <1>5, <1>8
<1> HIDE DEF Unused
<1> QED BY <1>9 DEF RidsInUse

\* The least of the evictions after which a lease is admitted is one of them.
LEMMA LeastEviction ==
    ASSUME NEW st, st.cache \in Seq(Entries), NEW key, NEW lease,
           AdmittedAfter(st, key, lease) # {}
    PROVE  Min(AdmittedAfter(st, key, lease)) \in AdmittedAfter(st, key, lease)
<1> DEFINE ks == AdmittedAfter(st, key, lease)
           I == Others(st.cache, key)
<1>1. Cardinality(I) \in Nat
  <2>1. I \in SUBSET DOMAIN st.cache
    BY DEF Others
  <2> HIDE DEF I
  <2> QED BY <2>1, SubsequenceProperties
<1>2. ks \in SUBSET Nat
  <2> HIDE DEF I
  <2>1. Evictions(st, key) = 0..Cardinality(I)
    BY DEF Evictions, I
  <2> QED BY <1>1, <2>1 DEF AdmittedAfter
<1> HIDE DEF ks
<1>3. \E x \in ks : \A y \in ks : x <= y
  BY <1>2, LeastNat DEF ks
<1>4. Min(ks) = CHOOSE x \in ks : \A y \in ks : x <= y
  BY DEF Min
<1> QED BY <1>3, <1>4 DEF ks

\* The two leases an insertion asks for.
LEMMA InsertLeases ==
    ASSUME NEW cap \in Nat
    PROVE  Lease("ResourceCache", cap, cap + ArcCost) \in Leases /\ KeyLease \in Leases
<1>1. ArcCost \in Nat /\ cap + ArcCost \in Nat
  BY ResourcesAssumption
<1>2. "ResourceCache" \in Cats /\ "RemoteCollections" \in Cats
  BY DEF Cats
<1>3. Lease("ResourceCache", cap, cap + ArcCost) \in Leases
  BY <1>1, <1>2 DEF Lease, Leases
<1>4. KeyLease \in Leases
  BY <1>2 DEF KeyLease, Exact, Lease, Leases
<1> QED BY <1>3, <1>4

LEMMA InsertGood ==
    ASSUME cache \in Seq(Entries), usage \in GoodUsage, held \subseteq Clones, IsFiniteSet(held),
           NEW key \in Keys, NEW len \in Nat, NEW cap \in Nat
    PROVE  LET r == Insert(key, len, cap)
           IN  /\ r.cache \in Seq(Entries) /\ r.usage \in GoodUsage
               /\ r.ok => r.cache # <<>>
<1> DEFINE lease == Lease("ResourceCache", cap, cap + ArcCost)
           keyed == [cache |-> cache, bytes |-> cacheBytes, usage |-> Reserve(usage, KeyLease)]
           st == MakeRoom(keyed, key, len)
           ks == AdmittedAfter(st, key, lease)
           all == Dropped(st, key, Max(Evictions(st, key)))
           room == Dropped(st, key, Min(ks))
           in == Inserted(room, key, len, lease, KeyLease)
           r == Insert(key, len, cap)
<1>1. lease \in Leases /\ KeyLease \in Leases
  BY InsertLeases
<1>2. r = IF len > CacheBytes \/ ~Admits(usage, KeyLease)
          THEN [cache |-> cache, bytes |-> cacheBytes, usage |-> usage, ok |-> FALSE]
          ELSE IF ks = {}
          THEN [cache |-> all.cache, bytes |-> all.bytes, ok |-> FALSE,
                usage |-> Release(all.usage, KeyLease)]
          ELSE [cache |-> in.cache, bytes |-> in.bytes, usage |-> in.usage, ok |-> TRUE]
  BY DEF Insert
<1> HIDE DEF r, lease
<1>3. CASE len > CacheBytes \/ ~Admits(usage, KeyLease)
  <2>1. r.cache = cache /\ r.usage = usage /\ r.ok = FALSE
    BY <1>2, <1>3
  <2> QED BY <2>1 DEF r
<1>4. CASE ~(len > CacheBytes \/ ~Admits(usage, KeyLease))
  <2>1. GoodCache(keyed)
    <3>1. Reserve(usage, KeyLease) \in GoodUsage
      BY <1>1, <1>4, ReserveGood
    <3> QED BY <3>1 DEF GoodCache
  <2> HIDE DEF keyed
  <2>2. GoodCache(st)
    BY <2>1, DroppedGood DEF MakeRoom
  <2> HIDE DEF st
  <2>3. GoodCache(all) /\ GoodCache(room)
    BY <2>2, DroppedGood
  <2> HIDE DEF all
  <2>4. CASE ks = {}
    <3>1. r.cache = all.cache /\ r.usage = Release(all.usage, KeyLease) /\ r.ok = FALSE
      BY <1>2, <1>4, <2>4
    <3>2. Release(all.usage, KeyLease) \in GoodUsage
      BY <2>3, <1>1, ReleaseGood DEF GoodCache
    <3> QED BY <2>3, <3>1, <3>2 DEF GoodCache, r
  <2>5. CASE ks # {}
    <3>1. r.cache = in.cache /\ r.usage = in.usage
      BY <1>2, <1>4, <2>5
    <3>2. Admits(room.usage, lease)
      <4>1. Min(ks) \in ks
        BY <2>2, <2>5, LeastEviction DEF GoodCache
      <4> QED BY <4>1 DEF AdmittedAfter
    <3> HIDE DEF room, ks
    <3> DEFINE c == room.cache
               kept == Subsequence(c, Others(c, key))
               new == [key |-> key, len |-> len, lease |-> lease, keyLease |-> KeyLease, rid |-> NextRid]
    <3>3. c \in Seq(Entries) /\ room.usage \in GoodUsage
      BY <2>3 DEF GoodCache
    <3> HIDE DEF c
    <3>4. kept \in Seq(Entries) /\ Ousted(c, key) \in Seq(Entries)
      <4>1. Others(c, key) \in SUBSET DOMAIN c /\ DOMAIN c \ Others(c, key) \in SUBSET DOMAIN c
        BY DEF Others
      <4> QED BY <4>1, <3>3, SubsequenceProperties DEF Ousted
    <3>5. new \in Entries
      <4>1. NextRid \in Nat
        BY NextRidFresh
      <4> QED BY <4>1, <1>1 DEF Entries
    <3>6. in.cache = Append(kept, new)
      BY DEF Inserted, With, c
    <3>7. in.usage = ReleaseEntries(Reserve(room.usage, lease), Ousted(c, key))
      BY DEF Inserted, c
    <3> HIDE DEF in, kept, new
    <3>8. in.cache \in Seq(Entries) /\ in.cache # <<>>
      BY <3>4, <3>5, <3>6, AppendProperties
    <3>9. in.usage \in GoodUsage
      BY <3>2, <3>3, <3>4, <3>7, <1>1, ReserveGood, ReleaseEntriesGood
    <3> QED BY <3>1, <3>8, <3>9 DEF r
  <2> QED BY <2>4, <2>5
<1> QED BY <1>3, <1>4


-----------------------------------------------------------------------------
(* Every step keeps the books within the limits and the owners' leases     *)
(* well formed.                                                            *)

Sound ==
    /\ usage \in GoodUsage
    /\ cache \in Seq(Entries)
    /\ held \subseteq Clones /\ IsFiniteSet(held)
    /\ SubsOK
    /\ ring \in Rings
    /\ scope \in Scopes \cup {None}
    /\ hand \in QueuedUpdates \cup {None}
    /\ page \in Leases \cup {None}

\* A lease just admitted may shrink.
LEMMA ShrinkFits ==
    ASSUME NEW u \in GoodUsage, NEW old \in Leases, NEW new \in Leases, Admits(u, old),
           new.amount <= old.amount, new.cost <= old.cost
    PROVE  Resizable(Reserve(u, old), old, new)
<1> DEFINE c == old.cat
           v == Reserve(u, old)
<1>1. /\ c \in Cats /\ old.amount \in Nat /\ old.cost \in Nat /\ new.amount \in Nat /\ new.cost \in Nat
      /\ u.bytes \in Nat /\ u.units \in [Cats -> Nat] /\ u.bytes <= MaxRemote
      /\ \A d \in Cats : u.units[d] <= CatLimit[d]
  BY DEF Leases, GoodUsage, UsageType, Within
<1>2. /\ old.amount <= Minus(CatLimit[c], u.units[c])
      /\ old.cost <= Minus(MaxRemote, u.bytes)
  BY DEF Admits
<1>3. v.bytes = u.bytes + old.cost /\ v.units[c] = u.units[c] + old.amount
  BY <1>1 DEF Reserve
<1> HIDE DEF v, c
<1>4. CatLimit[c] \in Nat /\ MaxRemote \in Nat /\ u.units[c] \in Nat
  BY <1>1, ResourcesAssumption
<1>5. Minus(v.units[c], old.amount) = u.units[c] /\ Minus(v.bytes, old.cost) = u.bytes
  <2>1. Minus(u.units[c] + old.amount, old.amount) = u.units[c]
    BY <1>1, <1>4 DEF Minus
  <2>2. Minus(u.bytes + old.cost, old.cost) = u.bytes
    BY <1>1 DEF Minus
  <2> QED BY <2>1, <2>2, <1>3
<1>6. new.amount <= Minus(CatLimit[c], Minus(v.units[c], old.amount))
      /\ new.cost <= Minus(MaxRemote, Minus(v.bytes, old.cost))
  <2>1. Minus(CatLimit[c], u.units[c]) \in Nat /\ Minus(MaxRemote, u.bytes) \in Nat
    BY <1>1, <1>4, MinusProperties
  <2> QED BY <1>1, <1>2, <1>5, <2>1
<1> QED BY <1>6 DEF Resizable, v, c

\* The lease of an update, grown or shrunk to what its clone retained.
LEMMA ChargedGood ==
    ASSUME NEW u \in GoodUsage, NEW wire \in Nat, NEW extra \in Nat, TryNew(u, wire, extra)
    PROVE  Charged(u, wire, extra) \in GoodUsage /\ KeptLease(wire, extra) \in Leases
<1>1. NewLease(wire) \in Leases /\ KeptLease(wire, extra) \in Leases
  BY DEF NewLease, KeptLease, Exact, Lease, Leases, Cats
<1>2. Reserve(u, NewLease(wire)) \in GoodUsage
  BY <1>1, ReserveGood DEF TryNew
<1> QED BY <1>1, <1>2, ResizeGood DEF TryNew, Charged

LEMMA ClearedGood ==
    ASSUME Sound
    PROVE  /\ Cleared \in GoodUsage
           /\ \A ss \in SUBSET subs : SubLeases(ss) \in Seq(Leases)
           /\ ReleaseAll(Cleared, SubLeases(subs)) \in GoodUsage
<1>1. LeasesOf(Queued(ring)) \in Seq(Leases)
  BY QueuedProperties, LeasesOfType DEF Sound
<1>2. Cleared \in GoodUsage
  BY <1>1, ReleaseAllGood DEF Sound, Cleared
<1>3. ASSUME NEW ss \in SUBSET subs PROVE SubLeases(ss) \in Seq(Leases)
  <2>1. IsFiniteSet(ss)
    BY FS_Subset DEF Sound, SubsOK
  <2>2. \A x \in ss : x.lease \in Leases
    BY DEF Sound, SubsOK, Subscriptions
  <2> QED BY <2>1, <2>2, SubLeasesType
<1> QED BY <1>2, <1>3, ReleaseAllGood

LEMMA FewerSubs ==
    ASSUME Sound, NEW ss \in SUBSET subs, subs' = ss
    PROVE  SubsOK'
<1>1. IsFiniteSet(ss) /\ Cardinality(ss) <= Cardinality(subs) /\ Cardinality(subs) \in Nat
      /\ Cardinality(ss) \in Nat
  BY FS_Subset, FS_CardinalityType DEF Sound, SubsOK
<1>2. Cardinality(ss) <= SubsCount
  BY <1>1, ResourcesAssumption DEF Sound, SubsOK
<1> QED BY <1>1, <1>2 DEF Sound, SubsOK

LEMMA EmptyRingGood ==
    EmptyRing \in Rings /\ EmptyRing.len = 0
<1>1. RingSize \in Nat \ {0} /\ RingBytes \in Nat
  BY ResourcesAssumption
<1> DEFINE slots == [i \in 0..(RingSize - 1) |-> None]
<1>2. slots \in [0..(RingSize - 1) -> QueuedUpdates \cup {None}]
  OBVIOUS
<1>3. 0 \in 0..(RingSize - 1) /\ 0 \in 0..RingSize /\ 0 \in 0..RingBytes /\ \A i \in 0..(0 - 1) : FALSE
  BY <1>1
<1>4. EmptyRing = [slots |-> slots, head |-> 0, len |-> 0, bytes |-> 0]
  BY DEF EmptyRing
<1> HIDE DEF slots
<1> QED BY <1>2, <1>3, <1>4, MakeRing

LEMMA InitSound ==
    Init => Sound
<1> SUFFICES ASSUME Init PROVE Sound
  OBVIOUS
<1>1. Free \in GoodUsage
  <2>1. Free \in UsageType
    BY DEF Free, UsageType
  <2>2. Within(Free)
    BY ResourcesAssumption DEF Free, Within
  <2> QED BY <2>1, <2>2 DEF GoodUsage
<1>2. <<>> \in Seq(Entries)
  OBVIOUS
<1>3. IsFiniteSet({}) /\ Cardinality({}) = 0 /\ SubsCount \in Nat
  BY FS_EmptySet, ResourcesAssumption
<1> QED BY <1>1, <1>2, <1>3, EmptyRingGood DEF Init, Sound, SubsOK

\* The cache and those who hold its resources.
LEMMA CacheStepSound ==
    ASSUME Sound, FetchMiss \/ InsertAgain \/ FetchHit \/ EvictOldest \/ \E h \in held : DropClone(h)
    PROVE  Sound'
<1>1. CASE FetchMiss
  <2>1. PICK key \in Keys, len \in Sizes, slack \in Slack :
            /\ cache' = Insert(key, len, len + slack).cache
            /\ usage' = Insert(key, len, len + slack).usage
            /\ held' = IF Insert(key, len, len + slack).ok
                       THEN held \cup {Clone(Last(Insert(key, len, len + slack).cache))} ELSE held
    BY <1>1 DEF FetchMiss
  <2> DEFINE r == Insert(key, len, len + slack)
  <2>2. len \in Nat /\ len + slack \in Nat
    BY ResourcesAssumption
  <2>3. r.cache \in Seq(Entries) /\ r.usage \in GoodUsage /\ (r.ok => r.cache # <<>>)
    BY <2>2, InsertGood DEF Sound
  <2> HIDE DEF r
  <2>4. ASSUME r.ok PROVE Clone(Last(r.cache)) \in Clones
    <3>1. Last(r.cache) \in Entries
      BY <2>3, <2>4 DEF Last
    <3> QED BY <3>1 DEF Clone, Clones, Entries
  <2>5. held' \subseteq Clones /\ IsFiniteSet(held')
    <3>1. CASE r.ok
      <4>1. held' = held \cup {Clone(Last(r.cache))}
        BY <2>1, <3>1 DEF r
      <4> QED BY <4>1, <2>4, <3>1, FS_AddElement DEF Sound
    <3>2. CASE ~r.ok
      BY <2>1, <3>2 DEF r, Sound
    <3> QED BY <3>1, <3>2
  <2>6. cache' \in Seq(Entries) /\ usage' \in GoodUsage
    BY <2>1, <2>3 DEF r
  <2> QED BY <2>5, <2>6, <1>1 DEF FetchMiss, Sound, SubsOK
<1>2. CASE InsertAgain
  <2>1. PICK key \in Keys, len \in Sizes :
            cache' = Insert(key, len, len).cache /\ usage' = Insert(key, len, len).usage
    BY <1>2 DEF InsertAgain
  <2>2. len \in Nat
    BY ResourcesAssumption
  <2>3. cache' \in Seq(Entries) /\ usage' \in GoodUsage
    BY <2>1, <2>2, InsertGood DEF Sound
  <2> QED BY <2>3, <1>2 DEF InsertAgain, Sound, SubsOK
<1>3. CASE FetchHit
  <2>1. PICK i \in DOMAIN cache : cache' = Append(RemoveAt(cache, i), cache[i])
                                  /\ held' = held \cup {Clone(cache[i])}
    BY <1>3 DEF FetchHit
  <2>2. cache \in Seq(Entries) /\ cache[i] \in Entries
    BY DEF Sound
  <2>3. RemoveAt(cache, i) \in Seq(Entries)
    <3>1. SubSeq(cache, 1, i - 1) \in Seq(Entries) /\ SubSeq(cache, i + 1, Len(cache)) \in Seq(Entries)
      BY <2>2
    <3> QED BY <3>1, ConcatProperties DEF RemoveAt
  <2>4. cache' \in Seq(Entries)
    BY <2>1, <2>2, <2>3
  <2>5. Clone(cache[i]) \in Clones
    BY <2>2 DEF Clone, Clones, Entries
  <2>6. held' \subseteq Clones /\ IsFiniteSet(held')
    BY <2>1, <2>5, FS_AddElement DEF Sound
  <2> QED BY <2>4, <2>6, <1>3 DEF FetchHit, Sound, SubsOK
<1>4. CASE EvictOldest
  <2>1. cache \in Seq(Entries) /\ cache # <<>> /\ cache' = Tail(cache)
        /\ usage' = ReleaseAll(usage, Freed(Head(cache)))
    BY <1>4 DEF EvictOldest, Sound
  <2>2. Head(cache) \in Entries /\ Tail(cache) \in Seq(Entries)
    BY <2>1
  <2>3. usage' \in GoodUsage
    BY <2>1, <2>2, FreedType, ReleaseAllGood DEF Sound
  <2> QED BY <2>1, <2>2, <2>3, <1>4 DEF EvictOldest, Sound, SubsOK
<1>5. CASE \E h \in held : DropClone(h)
  <2>1. PICK h \in held : DropClone(h)
    BY <1>5
  <2>2. h.lease \in Leases
    BY DEF Sound, Clones
  <2>3. usage' \in GoodUsage
    BY <2>1, <2>2, ReleaseGood DEF DropClone, Sound
  <2>4. held' \subseteq Clones /\ IsFiniteSet(held')
    BY <2>1, FS_RemoveElement DEF DropClone, Sound
  <2> QED BY <2>1, <2>3, <2>4 DEF DropClone, Sound, SubsOK
<1> QED BY <1>1, <1>2, <1>3, <1>4, <1>5


\* An UPDATE built for a subscription.
LEMMA UpdateOfType ==
    ASSUME Sound, NEW u \in Updates, NEW sub \in subs, NEW wire \in Nat, NEW lease \in Leases
    PROVE  UpdateOf(u, sub, wire, lease) \in QueuedUpdates /\ UpdateOf(u, sub, wire, lease).wire = wire
BY ResourcesAssumption DEF UpdateOf, QueuedUpdates, Sound, SubsOK, Subscriptions

\* Where the first update of the current page is, if there is one.
LEMMA AheadProperties ==
    ASSUME Sound
    PROVE  LET q == Queued(ring)
               n == Ahead(q)
           IN  /\ n = 0 => \A k \in DOMAIN q : q[k].scope # scope
               /\ n # 0 => /\ n \in DOMAIN q /\ q[n].scope = scope
                           /\ \A j \in 1..(n - 1) : q[j].scope # scope
<1> DEFINE q == Queued(ring)
           I == {i \in 1..Len(q) : q[i].scope = scope}
           n == Ahead(q)
<1>1. DOMAIN q = 1..Len(q) /\ Len(q) \in Nat
  BY QueuedProperties DEF Sound
<1>2. n = IF I # {} THEN Min(I) ELSE 0
  BY DEF Ahead, SelectInSeq
<1>3. CASE I = {}
  BY <1>1, <1>2, <1>3
<1>4. CASE I # {}
  <2>1. I \in SUBSET Nat
    BY <1>1
  <2>2. \E x \in I : \A y \in I : x <= y
    <3> HIDE DEF I
    <3> QED BY <1>4, <2>1, LeastNat
  <2>3. n = CHOOSE x \in I : \A y \in I : x <= y
    BY <1>2, <1>4 DEF Min
  <2>4. n \in I /\ \A y \in I : n <= y
    <3> HIDE DEF I, n
    <3> QED BY <2>2, <2>3
  <2> HIDE DEF n, q
  <2>5. ASSUME NEW j \in 1..(n - 1) PROVE q[j].scope # scope
    <3>1. j \in 1..Len(q) /\ ~(n <= j)
      BY <2>4, <1>1
    <3> QED BY <3>1, <2>4
  <2>6. n # 0 /\ n \in DOMAIN q /\ q[n].scope = scope
    BY <2>4, <1>1
  <2> QED BY <2>5, <2>6 DEF n, q
<1> QED BY <1>3, <1>4

\* The books after some of the queue was dropped.
LEMMA DroppedUpdatesGood ==
    ASSUME Sound, NEW n \in 0..ring.len
    PROVE  ReleaseAll(usage, LeasesOf(SubSeq(Queued(ring), 1, n))) \in GoodUsage
<1> DEFINE q == Queued(ring)
<1>1. q \in Seq(QueuedUpdates) /\ Len(q) = ring.len /\ ring.len \in Nat
  BY QueuedProperties DEF Sound
<1> HIDE DEF q
<1>2. SubSeq(q, 1, n) \in Seq(QueuedUpdates)
  <2>1. \A i \in 1..n : i \in 1..Len(q) /\ q[i] \in QueuedUpdates
    BY <1>1
  <2> QED BY <1>1, <2>1
<1>3. ReleaseAll(usage, LeasesOf(SubSeq(q, 1, n))) \in GoodUsage
  BY <1>2, LeasesOfType, ReleaseAllGood DEF Sound
<1> QED BY <1>3 DEF q

\* The ring and its reader.
LEMMA RingStepSound ==
    ASSUME Sound, UpdateDuringRequest \/ PollQueued \/ PollDirect \/ Applied
    PROVE  Sound'
<1>0. Sizes \subseteq Nat /\ {0, 2} \subseteq Nat
  BY ResourcesAssumption
<1>1. CASE UpdateDuringRequest
  <2>1. PICK u \in Updates, sub \in subs, wire \in Sizes, extra \in {0, 2} :
            /\ can_push(ring, wire) /\ TryNew(usage, wire, extra)
            /\ ring' = push_back(ring, UpdateOf(u, sub, wire, KeptLease(wire, extra)))
            /\ usage' = Charged(usage, wire, extra)
    BY <1>1 DEF UpdateDuringRequest
  <2> DEFINE new == UpdateOf(u, sub, wire, KeptLease(wire, extra))
  <2>2. wire \in Nat /\ extra \in Nat
    BY <1>0
  <2>3. usage' \in GoodUsage /\ KeptLease(wire, extra) \in Leases
    BY <2>1, <2>2, ChargedGood DEF Sound
  <2>4. new \in QueuedUpdates /\ new.wire = wire
    BY <2>2, <2>3, UpdateOfType
  <2> HIDE DEF new
  <2>5. push_back(ring, new) \in Rings
    BY <2>1, <2>4, PushProperties DEF Sound
  <2>6. ring' \in Rings
    BY <2>1, <2>5 DEF new
  <2> QED BY <2>3, <2>6, <1>1 DEF UpdateDuringRequest, Sound, SubsOK
<1>2. CASE PollQueued
  <2> DEFINE q == Queued(ring)
             n == Ahead(q)
  <2>1. n # 0 /\ ring' = Rest(n) /\ hand' = q[n]
        /\ usage' = ReleaseAll(usage, LeasesOf(SubSeq(q, 1, n - 1)))
    BY <1>2 DEF PollQueued
  <2>2. n \in DOMAIN q
    BY <2>1, AheadProperties
  <2>3. q \in Seq(QueuedUpdates) /\ DOMAIN q = 1..ring.len /\ ring.len \in Nat
    BY QueuedProperties DEF Sound
  <2> HIDE DEF n
  <2>4. n \in 0..ring.len /\ n - 1 \in 0..ring.len /\ q[n] \in QueuedUpdates
    <3> HIDE DEF q
    <3>1. Len(q) = ring.len
      BY <2>3
    <3> QED BY <2>2, <2>3, <3>1
  <2>5. Rest(n) \in Rings
    BY <2>4, RestProperties DEF Sound
  <2>6. usage' \in GoodUsage
    BY <2>1, <2>4, DroppedUpdatesGood
  <2> QED BY <2>1, <2>4, <2>5, <2>6, <1>2 DEF PollQueued, Sound, SubsOK
<1>3. CASE PollDirect
  <2> DEFINE q == Queued(ring)
             u1 == ReleaseAll(usage, LeasesOf(q))
  <2>1. PICK u \in Updates, sub \in subs, wire \in Sizes, extra \in {0, 2} :
            IF TryNew(u1, wire, extra)
            THEN /\ hand' = UpdateOf(u, sub, wire, KeptLease(wire, extra))
                 /\ usage' = Charged(u1, wire, extra)
            ELSE hand' = None /\ usage' = u1
    BY <1>3 DEF PollDirect
  <2>2. q \in Seq(QueuedUpdates) /\ Len(q) = ring.len /\ ring.len \in Nat
    BY QueuedProperties DEF Sound
  <2>3. u1 \in GoodUsage
    BY <2>2, LeasesOfType, ReleaseAllGood DEF Sound
  <2>4. ring' = Rest(Len(q))
    BY <1>3 DEF PollDirect
  <2> HIDE DEF u1, q
  <2>5. ring' \in Rings
    BY <2>2, <2>4, RestProperties DEF Sound
  <2>6. wire \in Nat /\ extra \in Nat
    BY <1>0
  <2>7. usage' \in GoodUsage /\ hand' \in QueuedUpdates \cup {None}
    <3>1. CASE TryNew(u1, wire, extra)
      <4>1. Charged(u1, wire, extra) \in GoodUsage /\ KeptLease(wire, extra) \in Leases
        BY <2>3, <2>6, <3>1, ChargedGood
      <4> QED BY <4>1, <2>1, <2>6, <3>1, UpdateOfType
    <3>2. CASE ~TryNew(u1, wire, extra)
      BY <2>1, <2>3, <3>2
    <3> QED BY <3>1, <3>2
  <2> QED BY <2>5, <2>7, <1>3 DEF PollDirect, Sound, SubsOK
<1>4. CASE Applied
  <2>1. hand \in QueuedUpdates
    BY <1>4 DEF Applied, Sound
  <2>2. hand.lease \in Leases
    BY <2>1 DEF QueuedUpdates
  <2>3. usage' \in GoodUsage /\ hand' = None
    BY <2>2, <1>4, ReleaseGood DEF Applied, Sound
  <2> QED BY <2>3, <1>4 DEF Applied, Sound, SubsOK
<1> QED BY <1>1, <1>2, <1>3, <1>4

\* Subscriptions and the page they belong to.
LEMMA OwnerStepSound ==
    ASSUME Sound, Subscribe \/ Activate \/ RetireCurrent \/ RetireOther \/ ConnectionLost \/ Disconnect
    PROVE  Sound'
<1>0. Cleared \in GoodUsage /\ ReleaseAll(Cleared, SubLeases(subs)) \in GoodUsage /\ EmptyRing \in Rings
  BY ClearedGood, EmptyRingGood
<1>00. ASSUME subs' = {} PROVE SubsOK'
  BY <1>00, FewerSubs
<1>1. CASE Subscribe
  <2>1. PICK region \in Regions :
            /\ OwnerOf(region) = {} /\ Cardinality(subs) < SubsCount
            /\ Admits(usage, SubLease(region))
            /\ subs' = subs \cup {[region |-> region, scope |-> scope, lease |-> SubKept]}
            /\ usage' = Resize(Reserve(usage, SubLease(region)), SubLease(region), SubKept)
    BY <1>1 DEF Subscribe
  <2> DEFINE new == [region |-> region, scope |-> scope, lease |-> SubKept]
  <2>2. /\ SubLease(region) \in Leases /\ SubKept \in Leases
        /\ SubKept.amount <= SubLease(region).amount /\ SubKept.cost <= SubLease(region).cost
    <3>1. SubsBound \in Nat /\ SubsBound - 1 \in Nat /\ SubsBound - 1 <= SubsBound
      BY ResourcesAssumption
    <3> QED BY <3>1 DEF SubLease, SubKept, Exact, Lease, Leases, Cats
  <2>3. usage' \in GoodUsage
    <3>1. Resizable(Reserve(usage, SubLease(region)), SubLease(region), SubKept)
      BY <2>1, <2>2, ShrinkFits DEF Sound
    <3>2. Reserve(usage, SubLease(region)) \in GoodUsage
      BY <2>1, <2>2, ReserveGood DEF Sound
    <3> QED BY <2>1, <2>2, <3>1, <3>2, ResizeGood
  <2>4. new \in Subscriptions
    BY <2>2, <1>1 DEF Subscribe, Sound, Subscriptions
  <2>5. \A s \in subs : s.region # region
    BY <2>1 DEF OwnerOf
  <2>6. new.region = region
    OBVIOUS
  <2> HIDE DEF new
  <2>7. subs' = subs \cup {new}
    BY <2>1 DEF new
  <2>8. IsFiniteSet(subs') /\ Cardinality(subs') <= SubsCount
    <3>1. IsFiniteSet(subs) /\ Cardinality(subs) \in Nat
      BY FS_CardinalityType DEF Sound, SubsOK
    <3>2. IsFiniteSet(subs') /\ Cardinality(subs') <= Cardinality(subs) + 1
          /\ Cardinality(subs') \in Nat
      <4>1. IsFiniteSet(subs \cup {new})
            /\ Cardinality(subs \cup {new})
               = IF new \in subs THEN Cardinality(subs) ELSE Cardinality(subs) + 1
        BY <3>1, FS_AddElement
      <4> QED BY <3>1, <4>1, <2>7
    <3> QED BY <3>1, <3>2, <2>1, ResourcesAssumption
  <2>9. SubsOK'
    BY <2>4, <2>5, <2>6, <2>7, <2>8 DEF Sound, SubsOK
  <2> QED BY <2>3, <2>9, <1>1 DEF Subscribe, Sound
<1>2. CASE Activate
  BY <1>0, <1>00, <1>2 DEF Activate, Sound
<1>3. CASE RetireCurrent
  <2>1. CASE subs' = {} /\ ring' = EmptyRing /\ usage' = ReleaseAll(Cleared, SubLeases(subs))
    BY <1>0, <1>00, <1>3, <2>1 DEF RetireCurrent, Sound
  <2>2. CASE UNCHANGED <<subs, ring, usage>>
    BY <1>3, <2>2 DEF RetireCurrent, Sound, SubsOK
  <2> QED BY <1>3, <2>1, <2>2 DEF RetireCurrent
<1>4. CASE RetireOther
  <2>1. PICK s \in Scopes :
            /\ subs' = subs \ {sub \in subs : sub.scope = s}
            /\ ring' = retire_scope(s).ring
            /\ usage' = ReleaseAll(retire_scope(s).usage, SubLeases({sub \in subs : sub.scope = s}))
            /\ scope' = IF s = scope THEN None ELSE scope
    BY <1>4 DEF RetireOther
  <2>2. retire_scope(s) \in Holdings
    BY RetireProperties DEF Sound
  <2>3. SubLeases({sub \in subs : sub.scope = s}) \in Seq(Leases)
    BY ClearedGood
  <2>4. ring' \in Rings /\ usage' \in GoodUsage
    BY <2>1, <2>2, <2>3, ReleaseAllGood DEF Holdings
  <2>5. SubsOK'
    BY <2>1, FewerSubs
  <2>6. scope' \in Scopes \cup {None}
    BY <2>1 DEF Sound
  <2> QED BY <2>4, <2>5, <2>6, <1>4 DEF RetireOther, Sound
<1>5. CASE ConnectionLost
  BY <1>0, <1>5 DEF ConnectionLost, clear, Sound, SubsOK
<1>6. CASE Disconnect
  BY <1>0, <1>00, <1>6 DEF Disconnect, Sound
<1> QED BY <1>1, <1>2, <1>3, <1>4, <1>5, <1>6

\* The page's own lease.
LEMMA PageStepSound ==
    ASSUME Sound, OpenPage \/ ResizePage \/ ClosePage
    PROVE  Sound'
<1>0. ASSUME NEW n \in PageUnits PROVE PageLease(n) \in Leases
  <2>1. n \in Nat /\ 2 * n \in Nat
    BY ResourcesAssumption
  <2> QED BY <2>1 DEF PageLease, Lease, Leases, Cats
<1>1. CASE OpenPage
  <2>1. usage' \in GoodUsage /\ page' \in Leases
    BY <1>0, <1>1, ReserveGood DEF OpenPage, Sound
  <2> QED BY <2>1, <1>1 DEF OpenPage, Sound, SubsOK
<1>2. CASE ResizePage
  <2>1. usage' \in GoodUsage /\ page' \in Leases
    BY <1>0, <1>2, ResizeGood DEF ResizePage, Sound
  <2> QED BY <2>1, <1>2 DEF ResizePage, Sound, SubsOK
<1>3. CASE ClosePage
  <2>1. usage' \in GoodUsage /\ page' = None
    BY <1>3, ReleaseGood DEF ClosePage, Sound
  <2> QED BY <2>1, <1>3 DEF ClosePage, Sound, SubsOK
<1> QED BY <1>1, <1>2, <1>3

LEMMA NextSound ==
    Sound /\ [Next]_vars => Sound'
<1> SUFFICES ASSUME Sound, [Next]_vars PROVE Sound'
  OBVIOUS
<1>1. CASE Next
  BY <1>1, CacheStepSound, RingStepSound, OwnerStepSound, PageStepSound DEF Next
<1>2. CASE UNCHANGED vars
  BY <1>2 DEF vars, Sound, SubsOK
<1> QED BY <1>1, <1>2

\* Whatever the owners do, the books are well formed, every lease they hold
\* is one, and a region has at most one subscription, of at most SubsCount.
THEOREM OwnersSound ==
    Spec => []Sound
BY InitSound, NextSound, PTL DEF Spec

\* ResourceGovernor never lets a reservation, a resize or the grown clone of an
\* update take the client over a category's units, its leases or the bytes of
\* all of them, for any limits and any sizes of cache, ring and table.
THEOREM WithinLimitsAlways ==
    Spec => []WithinLimits
<1>1. Sound => WithinLimits
  BY DEF Sound, GoodUsage, WithinLimits
<1> QED BY <1>1, OwnersSound, PTL


-----------------------------------------------------------------------------
(* The ring implements the queue.                                          *)

PlainUpdates == [id : Nat, scope : Scopes]

LEMMA PlainProperties ==
    ASSUME NEW u \in QueuedUpdates
    PROVE  Plain(u) = [id |-> u.id, scope |-> u.scope] /\ Plain(u) \in PlainUpdates
           /\ Plain(u).scope = u.scope
BY ResourcesAssumption DEF Plain, PlainUpdates, QueuedUpdates

LEMMA ViewProperties ==
    ASSUME NEW r \in Rings
    PROVE  /\ ViewOf(r) \in Seq(PlainUpdates) /\ Len(ViewOf(r)) = r.len /\ r.len \in Nat
           /\ DOMAIN ViewOf(r) = 1..r.len
           /\ \A i \in 1..r.len : /\ ViewOf(r)[i] = Plain(Queued(r)[i])
                                  /\ ViewOf(r)[i].scope = Queued(r)[i].scope
<1>1. r.len \in Nat
  BY QueuedProperties
<1>2. \A i \in 1..r.len : Plain(Queued(r)[i]) \in PlainUpdates
                          /\ Plain(Queued(r)[i]).scope = Queued(r)[i].scope
  BY QueuedProperties, PlainProperties
<1>3. ViewOf(r) \in [1..r.len -> PlainUpdates]
  BY <1>2 DEF ViewOf
<1>4. ViewOf(r) \in Seq(PlainUpdates) /\ Len(ViewOf(r)) = r.len
  BY <1>1, <1>3
<1> QED BY <1>1, <1>2, <1>3, <1>4 DEF ViewOf

LEMMA ViewOfEmpty ==
    ViewOf(EmptyRing) = <<>>
<1>1. EmptyRing \in Rings /\ EmptyRing.len = 0
  BY EmptyRingGood
<1>2. ViewOf(EmptyRing) \in Seq(PlainUpdates) /\ Len(ViewOf(EmptyRing)) = 0
  BY <1>1, ViewProperties
<1> QED BY <1>2, EmptySeq

LEMMA ViewOfPush ==
    ASSUME NEW r \in Rings, NEW u \in QueuedUpdates, can_push(r, u.wire)
    PROVE  ViewOf(push_back(r, u)) = Append(ViewOf(r), Plain(u))
<1> DEFINE p == push_back(r, u)
           a == Append(ViewOf(r), Plain(u))
<1>1. p \in Rings /\ p.len = r.len + 1 /\ (\A i \in 1..r.len : Queued(p)[i] = Queued(r)[i])
      /\ Queued(p)[r.len + 1] = u
  BY PushProperties
<1> HIDE DEF p
<1>2. ViewOf(r) \in Seq(PlainUpdates) /\ Len(ViewOf(r)) = r.len /\ r.len \in Nat
      /\ ViewOf(p) \in Seq(PlainUpdates) /\ Len(ViewOf(p)) = p.len
      /\ \A i \in 1..r.len : ViewOf(r)[i] = Plain(Queued(r)[i])
  BY <1>1, ViewProperties
<1>3. \A i \in 1..p.len : ViewOf(p)[i] = Plain(Queued(p)[i])
  BY <1>1, ViewProperties
<1>4. Plain(u) \in PlainUpdates
  BY PlainProperties
<1>5. a \in Seq(PlainUpdates) /\ Len(a) = r.len + 1 /\ (\A i \in 1..r.len : a[i] = ViewOf(r)[i])
      /\ a[r.len + 1] = Plain(u)
  BY <1>2, <1>4, AppendProperties
<1> HIDE DEF a
<1>6. ASSUME NEW i \in 1..(r.len + 1) PROVE ViewOf(p)[i] = a[i]
  <2>1. CASE i = r.len + 1
    BY <2>1, <1>1, <1>3, <1>5
  <2>2. CASE i # r.len + 1
    <3>1. i \in 1..r.len
      BY <2>2, <1>2
    <3> QED BY <3>1, <1>1, <1>2, <1>3, <1>5
  <2> QED BY <2>1, <2>2
<1>7. ViewOf(p) = a
  BY <1>1, <1>2, <1>5, <1>6, SeqEqual
<1> QED BY <1>7 DEF a, p

LEMMA ViewOfRest ==
    ASSUME ring \in Rings, NEW n \in 0..ring.len
    PROVE  ViewOf(Rest(n)) = SubSeq(ViewOf(ring), n + 1, Len(ViewOf(ring)))
<1> DEFINE r == Rest(n)
           v == ViewOf(ring)
           b == SubSeq(v, n + 1, Len(v))
<1>1. r \in Rings /\ r.len = ring.len - n
      /\ \A i \in 1..(ring.len - n) : Queued(r)[i] = Queued(ring)[n + i]
  BY RestProperties
<1> HIDE DEF r
<1>2. v \in Seq(PlainUpdates) /\ Len(v) = ring.len /\ ring.len \in Nat
      /\ \A i \in 1..ring.len : v[i] = Plain(Queued(ring)[i])
  BY ViewProperties
<1>3. ViewOf(r) \in Seq(PlainUpdates) /\ Len(ViewOf(r)) = r.len
      /\ \A i \in 1..r.len : ViewOf(r)[i] = Plain(Queued(r)[i])
  BY <1>1, ViewProperties
<1> HIDE DEF v
<1>4. b \in Seq(PlainUpdates) /\ Len(b) = ring.len - n /\ \A i \in 1..(ring.len - n) : b[i] = v[n + i]
  <2>1. \A i \in (n + 1)..ring.len : v[i] \in PlainUpdates
    BY <1>2
  <2>2. b = [i \in 1..(ring.len - n) |-> v[n + i]]
    BY <1>2
  <2>3. b \in [1..(ring.len - n) -> PlainUpdates]
    <3>1. \A i \in 1..(ring.len - n) : n + i \in (n + 1)..ring.len
      BY <1>2
    <3> HIDE DEF b
    <3> QED BY <2>1, <2>2, <3>1
  <2> DEFINE m == ring.len - n
  <2>4. m \in Nat
    BY <1>2
  <2> HIDE DEF b, m
  <2>5. b = [i \in 1..m |-> v[n + i]] /\ b \in [1..m -> PlainUpdates]
    BY <2>2, <2>3 DEF m
  <2>6. b \in Seq(PlainUpdates) /\ Len(b) = m /\ \A i \in 1..m : b[i] = v[n + i]
    BY <2>4, <2>5
  <2> QED BY <2>6 DEF m
<1> HIDE DEF b
<1>5. ASSUME NEW i \in 1..(ring.len - n) PROVE ViewOf(r)[i] = b[i]
  <2>1. n + i \in 1..ring.len
    BY <1>2
  <2> QED BY <2>1, <1>1, <1>2, <1>3, <1>4
<1>6. ViewOf(r) = b
  BY <1>1, <1>3, <1>4, <1>5, SeqEqual
<1> QED BY <1>6 DEF r, b, v

LEMMA ViewOfRetire ==
    ASSUME ring \in Rings, usage \in GoodUsage, NEW s
    PROVE  ViewOf(retire_scope(s).ring)
           = Subsequence(ViewOf(ring), {i \in DOMAIN ViewOf(ring) : ViewOf(ring)[i].scope # s})
<1> DEFINE q == Queued(ring)
           r == retire_scope(s).ring
           v == ViewOf(ring)
           I == {i \in DOMAIN q : q[i].scope # s}
           J == {i \in DOMAIN v : v[i].scope # s}
           n == Cardinality(I)
<1>1. r \in Rings /\ Queued(r) = Subsequence(q, I)
  BY RetireProperties DEF Holdings
<1>2. q \in Seq(QueuedUpdates) /\ DOMAIN q = 1..ring.len /\ DOMAIN v = 1..ring.len
      /\ \A i \in 1..ring.len : v[i] = Plain(q[i]) /\ v[i].scope = q[i].scope
  BY QueuedProperties, ViewProperties
<1>3. I = J /\ I \in SUBSET DOMAIN q
  BY <1>2
<1> HIDE DEF r, q, v, I
<1>4. Len(Queued(r)) = n /\ \A k \in 1..n : Nth(I, k) \in I /\ Queued(r)[k] = q[Nth(I, k)]
  <2>1. Len(Subsequence(q, I)) = n
        /\ \A k \in 1..n : Nth(I, k) \in I /\ Subsequence(q, I)[k] = q[Nth(I, k)]
    <3>1. q \in Seq(QueuedUpdates) /\ I \in SUBSET DOMAIN q
      BY <1>2, <1>3
    <3>2. /\ Len(Subsequence(q, I)) = Cardinality(I)
          /\ \A k \in 1..Cardinality(I) : Nth(I, k) \in I /\ Subsequence(q, I)[k] = q[Nth(I, k)]
      BY <3>1, SubsequenceProperties
    <3> QED BY <3>2
  <2> HIDE DEF n
  <2> QED BY <1>1, <2>1
<1>5. r.len = n
  BY <1>1, <1>4, QueuedProperties
<1>6. \A k \in 1..n : Plain(Queued(r)[k]) = v[Nth(I, k)]
  BY <1>2, <1>3, <1>4
<1>7. ViewOf(r) = [k \in 1..n |-> v[Nth(I, k)]]
  BY <1>5, <1>6 DEF ViewOf
<1>8. ViewOf(r) = Subsequence(v, J)
  BY <1>3, <1>7 DEF Subsequence
<1> QED BY <1>8 DEF r, v

LEMMA QueueInit ==
    Init => Queue!QInit
<1> SUFFICES ASSUME Init PROVE Queue!QInit
  OBVIOUS
<1>1. ViewOf(ring) = <<>>
  BY ViewOfEmpty DEF Init
<1> QED BY <1>1 DEF Init, Queue!QInit, Plain

\* The step of the queue that each step of the client is.
LEMMA AcceptStep ==
    ASSUME Sound, UpdateDuringRequest
    PROVE  Queue!Accept
<1>1. PICK u \in Updates, sub \in subs, wire \in Sizes, extra \in {0, 2} :
          /\ sub.scope = u.scope /\ can_push(ring, wire) /\ TryNew(usage, wire, extra)
          /\ ring' = push_back(ring, UpdateOf(u, sub, wire, KeptLease(wire, extra)))
  BY DEF UpdateDuringRequest
<1> DEFINE new == UpdateOf(u, sub, wire, KeptLease(wire, extra))
<1>2. wire \in Nat /\ extra \in Nat
  BY ResourcesAssumption
<1>3. KeptLease(wire, extra) \in Leases
  BY <1>1, <1>2, ChargedGood DEF Sound
<1>4. new \in QueuedUpdates /\ new.wire = wire
  BY <1>2, <1>3, UpdateOfType
<1>5. Plain(new) = u
  <2>1. new.id = u.id /\ new.scope = u.scope
    BY <1>1 DEF UpdateOf
  <2>2. u = [id |-> u.id, scope |-> u.scope]
    BY ResourcesAssumption
  <2> HIDE DEF new
  <2> QED BY <1>4, <2>1, <2>2, PlainProperties
<1> HIDE DEF new
<1>6. ViewOf(ring)' = Append(ViewOf(ring), u)
  <2>1. ViewOf(push_back(ring, new)) = Append(ViewOf(ring), Plain(new))
    BY <1>1, <1>4, ViewOfPush DEF Sound
  <2>2. ring' = push_back(ring, new)
    BY <1>1 DEF new
  <2> QED BY <2>1, <2>2, <1>5
<1>7. UNCHANGED <<scope, hand>>
  BY DEF UpdateDuringRequest
<1>8. UNCHANGED Plain(hand)
  BY <1>7 DEF Plain
<1> QED BY <1>6, <1>7, <1>8 DEF Queue!Accept

LEMMA TakeStep ==
    ASSUME Sound, PollQueued
    PROVE  Queue!Take
<1> DEFINE q == Queued(ring)
           n == Ahead(q)
           v == ViewOf(ring)
<1>1. n # 0 /\ ring' = Rest(n) /\ hand' = q[n] /\ UNCHANGED scope
  BY DEF PollQueued
<1>2. n \in DOMAIN q /\ q[n].scope = scope /\ \A j \in 1..(n - 1) : q[j].scope # scope
  BY <1>1, AheadProperties
<1>3. q \in Seq(QueuedUpdates) /\ DOMAIN q = 1..ring.len /\ ring.len \in Nat
      /\ Len(v) = ring.len /\ DOMAIN v = 1..ring.len
      /\ \A i \in 1..ring.len : v[i] = Plain(q[i]) /\ v[i].scope = q[i].scope
  BY QueuedProperties, ViewProperties DEF Sound
<1> HIDE DEF n
<1>4. ViewOf(Rest(n)) = SubSeq(v, n + 1, Len(v))
  <2>1. n \in 0..ring.len
    <3> HIDE DEF q, v
    <3> QED BY <1>2, <1>3
  <2> QED BY <2>1, ViewOfRest DEF Sound
<1> HIDE DEF q, v
<1>5. v' = SubSeq(v, n + 1, Len(v))
  BY <1>1, <1>4 DEF v
<1>6. n \in DOMAIN v /\ v[n].scope = scope /\ v[n] = Plain(q[n])
  BY <1>2, <1>3
<1>7. \A j \in 1..(n - 1) : v[j].scope # scope
  <2>1. \A j \in 1..(n - 1) : j \in 1..ring.len
    BY <1>2, <1>3
  <2> QED BY <2>1, <1>2, <1>3
<1>8. Plain(hand)' = v[n]
  BY <1>1, <1>6
<1> QED BY <1>1, <1>5, <1>6, <1>7, <1>8 DEF Queue!Take, v

LEMMA BypassStep ==
    ASSUME Sound, PollDirect
    PROVE  Queue!Bypass
<1> DEFINE q == Queued(ring)
           u1 == ReleaseAll(usage, LeasesOf(q))
           v == ViewOf(ring)
<1>1. hand = None /\ Ahead(q) = 0 /\ ring' = Rest(Len(q)) /\ UNCHANGED scope
  BY DEF PollDirect
<1>2. \A k \in DOMAIN q : q[k].scope # scope
  BY <1>1, AheadProperties
<1>3. q \in Seq(QueuedUpdates) /\ Len(q) = ring.len /\ DOMAIN q = 1..ring.len /\ ring.len \in Nat
      /\ v \in Seq(PlainUpdates) /\ Len(v) = ring.len /\ DOMAIN v = 1..ring.len
      /\ \A i \in 1..ring.len : v[i].scope = q[i].scope
  BY QueuedProperties, ViewProperties DEF Sound
<1>4. \A k \in DOMAIN v : v[k].scope # scope
  <2> HIDE DEF q, v
  <2> QED BY <1>2, <1>3
<1>5. v' = <<>>
  <2>1. ring.len \in 0..ring.len
    BY <1>3
  <2>2. Rest(ring.len) \in Rings /\ Rest(ring.len).len = ring.len - ring.len
    BY <2>1, RestProperties DEF Sound
  <2>3. Rest(ring.len).len = 0
    BY <2>2, <1>3
  <2>4. ViewOf(Rest(ring.len)) = <<>>
    BY <2>2, <2>3, ViewProperties, EmptySeq
  <2>5. ring' = Rest(ring.len)
    BY <1>1, <1>3
  <2> QED BY <2>4, <2>5
<1>6. Plain(hand)' \in Updates \cup {Plain(hand)}
  <2>1. PICK u \in Updates, sub \in subs, wire \in Sizes, extra \in {0, 2} :
            /\ sub.scope = u.scope
            /\ IF TryNew(u1, wire, extra)
               THEN hand' = UpdateOf(u, sub, wire, KeptLease(wire, extra))
               ELSE hand' = None
    BY DEF PollDirect
  <2>2. wire \in Nat /\ extra \in Nat
    BY ResourcesAssumption
  <2>3. u1 \in GoodUsage
    BY <1>3, LeasesOfType, ReleaseAllGood DEF Sound
  <2> HIDE DEF u1
  <2>4. CASE TryNew(u1, wire, extra)
    <3> DEFINE new == UpdateOf(u, sub, wire, KeptLease(wire, extra))
    <3>1. KeptLease(wire, extra) \in Leases
      BY <2>2, <2>3, <2>4, ChargedGood
    <3>2. new \in QueuedUpdates
      BY <2>2, <3>1, UpdateOfType
    <3>3. new.id = u.id /\ new.scope = u.scope /\ u = [id |-> u.id, scope |-> u.scope]
      BY <2>1, ResourcesAssumption DEF UpdateOf
    <3> HIDE DEF new
    <3>4. Plain(new) = u
      BY <3>2, <3>3, PlainProperties
    <3> QED BY <2>1, <2>4, <3>4 DEF new
  <2>5. CASE ~TryNew(u1, wire, extra)
    BY <2>1, <2>5, <1>1
  <2> QED BY <2>4, <2>5
<1> QED BY <1>1, <1>4, <1>5, <1>6 DEF Queue!Bypass

LEMMA RetireStep ==
    ASSUME Sound, RetireOther
    PROVE  Queue!Retire
<1> DEFINE v == ViewOf(ring)
<1>1. PICK s \in Scopes : /\ ring' = retire_scope(s).ring
                          /\ scope' = IF s = scope THEN None ELSE scope
  BY DEF RetireOther
<1>2. ViewOf(retire_scope(s).ring) = Subsequence(v, {i \in DOMAIN v : v[i].scope # s})
  BY ViewOfRetire DEF Sound
<1>3. ViewOf(ring)' = Subsequence(v, {i \in DOMAIN v : v[i].scope # s})
  BY <1>1, <1>2
<1>4. UNCHANGED hand
  BY DEF RetireOther
<1>5. UNCHANGED Plain(hand)
  BY <1>4 DEF Plain
<1> HIDE DEF v
<1>6. \A I : Subsequence(v, I) = Queue!Subsequence(v, I)
  <2>1. \A I, i : Below(I, i) = Queue!Below(I, i)
    BY DEF Below, Queue!Below
  <2>2. \A I : Cardinality(I) = Queue!Cardinality(I)
    BY DEF Cardinality, Queue!Cardinality
  <2>3. \A I, k : Nth(I, k) = Queue!Nth(I, k)
    BY <2>1, <2>2 DEF Nth, Queue!Nth
  <2> QED BY <2>2, <2>3 DEF Subsequence, Queue!Subsequence
<1> QED BY <1>1, <1>3, <1>5, <1>6 DEF Queue!Retire, v

\* A connection lost, a page left or entered: the queue is emptied.
LEMMA ResetStep ==
    ASSUME Sound, ring' = EmptyRing, scope' \in Scopes \cup {None}, UNCHANGED hand
    PROVE  Queue!Reset
<1>1. ViewOf(ring)' = <<>>
  BY ViewOfEmpty
<1>2. UNCHANGED Plain(hand)
  BY DEF Plain
<1> QED BY <1>1, <1>2 DEF Queue!Reset

LEMMA QueueStep ==
    ASSUME Sound, [Next]_vars
    PROVE  [Queue!QNext]_(Queue!uvars)
<1>1. CASE UNCHANGED <<ring, scope, hand>>
  BY <1>1 DEF Queue!uvars, ViewOf, Queued, Plain
<1>2. CASE UpdateDuringRequest
  BY <1>2, AcceptStep DEF Queue!QNext
<1>3. CASE PollQueued
  BY <1>3, TakeStep DEF Queue!QNext
<1>4. CASE PollDirect
  BY <1>4, BypassStep DEF Queue!QNext
<1>5. CASE Applied
  <2>1. UNCHANGED ring /\ UNCHANGED scope /\ hand' = None
    BY <1>5 DEF Applied
  <2>2. UNCHANGED ViewOf(ring)
    BY <2>1 DEF ViewOf, Queued
  <2>3. Plain(hand)' = None
    BY <2>1 DEF Plain
  <2> QED BY <2>1, <2>2, <2>3 DEF Queue!Release, Queue!QNext
<1>6. CASE RetireOther
  BY <1>6, RetireStep DEF Queue!QNext
<1>7. CASE RetireCurrent
  <2>1. scope' = None /\ UNCHANGED hand /\ (ring' = EmptyRing \/ UNCHANGED ring)
    BY <1>7 DEF RetireCurrent
  <2>2. CASE ring' = EmptyRing
    BY <2>1, <2>2, ResetStep DEF Queue!QNext
  <2>3. CASE UNCHANGED ring
    <3>1. UNCHANGED ViewOf(ring) /\ UNCHANGED Plain(hand)
      BY <2>1, <2>3 DEF ViewOf, Queued, Plain
    <3> QED BY <2>1, <3>1 DEF Queue!Leave, Queue!QNext
  <2> QED BY <2>1, <2>2, <2>3
<1>8. CASE Activate \/ ConnectionLost \/ Disconnect
  <2>1. ring' = EmptyRing /\ scope' \in Scopes \cup {None} /\ UNCHANGED hand
    BY <1>8 DEF Activate, ConnectionLost, clear, Disconnect, Sound
  <2> QED BY <2>1, ResetStep DEF Queue!QNext
<1>9. CASE FetchMiss \/ InsertAgain \/ FetchHit \/ EvictOldest \/ (\E h \in held : DropClone(h))
           \/ Subscribe \/ OpenPage \/ ResizePage \/ ClosePage
  <2>1. UNCHANGED <<ring, scope, hand>>
    BY <1>9 DEF FetchMiss, InsertAgain, FetchHit, EvictOldest, DropClone, Subscribe,
                OpenPage, ResizePage, ClosePage
  <2> QED BY <2>1, <1>1
<1>10. CASE UNCHANGED vars
  BY <1>1, <1>10 DEF vars
<1> QED BY <1>2, <1>3, <1>4, <1>5, <1>6, <1>7, <1>8, <1>9, <1>10 DEF Next

\* PendingUpdateRing, with its fixed slots, its wrapping head and a retirement
\* that rotates every entry once, is a first-in first-out queue: what the
\* runner is handed are the accepted updates of its page, in order, for every
\* size of the ring.
THEOREM RingImplementsQueue ==
    Spec => RingIsQueue
<1>1. Sound /\ [Next]_vars => [Queue!QNext]_(Queue!uvars)
  BY QueueStep
<1> QED BY QueueInit, OwnersSound, <1>1, PTL DEF Spec, RingIsQueue, Queue!QSpec

-----------------------------------------------------------------------------
(* The books, one gauge at a time: the bytes, and the units and the leases *)
(* of each category.  What a gauge reads is a sum, and every operation     *)
(* adds to it or takes from it.                                            *)

Gauges == {"bytes", "units", "counts"} \X Cats
Amount(l, g) ==
    IF g[1] = "bytes" THEN l.cost
    ELSE IF l.cat # g[2] THEN 0 ELSE IF g[1] = "units" THEN l.amount ELSE 1
Meter(u, g) ==
    IF g[1] = "bytes" THEN u.bytes
    ELSE IF g[1] = "units" THEN u.units[g[2]] ELSE u.counts[g[2]]

LEMMA MeterType ==
    ASSUME NEW g \in Gauges
    PROVE  /\ \A l \in Leases : Amount(l, g) \in Nat
           /\ \A u \in UsageType : Meter(u, g) \in Nat
<1>1. g[1] \in {"bytes", "units", "counts"} /\ g[2] \in Cats
  BY DEF Gauges
<1>2. ASSUME NEW l \in Leases PROVE Amount(l, g) \in Nat
  BY <1>1 DEF Amount, Leases
<1>3. ASSUME NEW u \in UsageType PROVE Meter(u, g) \in Nat
  BY <1>1 DEF Meter, UsageType
<1> QED BY <1>2, <1>3

\* Books that read the same on every gauge are the same.
LEMMA SameBooks ==
    ASSUME NEW u \in UsageType, NEW v \in UsageType, \A g \in Gauges : Meter(u, g) = Meter(v, g)
    PROVE  u = v
<1>1. /\ u = [bytes |-> u.bytes, units |-> u.units, counts |-> u.counts]
      /\ v = [bytes |-> v.bytes, units |-> v.units, counts |-> v.counts]
      /\ u.units \in [Cats -> Nat] /\ v.units \in [Cats -> Nat]
      /\ u.counts \in [Cats -> Nat] /\ v.counts \in [Cats -> Nat]
  BY DEF UsageType
<1>2. ASSUME NEW c \in Cats
      PROVE  u.bytes = v.bytes /\ u.units[c] = v.units[c] /\ u.counts[c] = v.counts[c]
  <2>1. <<"bytes", c>> \in Gauges /\ <<"units", c>> \in Gauges /\ <<"counts", c>> \in Gauges
    BY DEF Gauges
  <2>2. Meter(u, <<"bytes", c>>) = Meter(v, <<"bytes", c>>)
        /\ Meter(u, <<"units", c>>) = Meter(v, <<"units", c>>)
        /\ Meter(u, <<"counts", c>>) = Meter(v, <<"counts", c>>)
    BY <2>1
  <2> QED BY <2>2 DEF Meter
<1>3. "SceneCells" \in Cats
  BY DEF Cats
<1>4. u.bytes = v.bytes /\ u.units = v.units /\ u.counts = v.counts
  BY <1>1, <1>2, <1>3
<1> QED BY <1>1, <1>4

LEMMA ReserveMeter ==
    ASSUME NEW u \in UsageType, NEW l \in Leases
    PROVE  /\ Reserve(u, l) \in UsageType
           /\ \A g \in Gauges : Meter(Reserve(u, l), g) = Meter(u, g) + Amount(l, g)
<1> DEFINE v == Reserve(u, l)
           c == l.cat
<1>1. /\ u.bytes \in Nat /\ u.units \in [Cats -> Nat] /\ u.counts \in [Cats -> Nat]
      /\ c \in Cats /\ l.amount \in Nat /\ l.cost \in Nat
  BY DEF UsageType, Leases
<1>2. /\ v.bytes = u.bytes + l.cost
      /\ v.units = [u.units EXCEPT ![c] = u.units[c] + l.amount]
      /\ v.counts = [u.counts EXCEPT ![c] = u.counts[c] + 1]
      /\ v = [bytes |-> v.bytes, units |-> v.units, counts |-> v.counts]
  BY DEF Reserve
<1> HIDE DEF v
<1>3. v.bytes \in Nat /\ v.units \in [Cats -> Nat] /\ v.counts \in [Cats -> Nat]
  BY <1>1, <1>2
<1>4. v \in UsageType
  BY <1>2, <1>3 DEF UsageType
<1>5. ASSUME NEW g \in Gauges PROVE Meter(v, g) = Meter(u, g) + Amount(l, g)
  <2>1. g[1] \in {"bytes", "units", "counts"} /\ g[2] \in Cats
    BY DEF Gauges
  <2>2. v.units[g[2]] = IF g[2] = c THEN u.units[c] + l.amount ELSE u.units[g[2]]
    BY <1>1, <1>2, <2>1
  <2>3. v.counts[g[2]] = IF g[2] = c THEN u.counts[c] + 1 ELSE u.counts[g[2]]
    BY <1>1, <1>2, <2>1
  <2>4. u.units[g[2]] \in Nat /\ u.counts[g[2]] \in Nat
    BY <1>1, <2>1
  <2> QED BY <1>1, <1>2, <2>1, <2>2, <2>3, <2>4 DEF Meter, Amount
<1> QED BY <1>4, <1>5 DEF v

LEMMA ReleaseMeter ==
    ASSUME NEW u \in UsageType, NEW l \in Leases
    PROVE  /\ Release(u, l) \in UsageType
           /\ \A g \in Gauges : Meter(Release(u, l), g) = Minus(Meter(u, g), Amount(l, g))
<1> DEFINE v == Release(u, l)
           c == l.cat
<1>1. /\ u.bytes \in Nat /\ u.units \in [Cats -> Nat] /\ u.counts \in [Cats -> Nat]
      /\ c \in Cats /\ l.amount \in Nat /\ l.cost \in Nat
  BY DEF UsageType, Leases
<1>2. /\ v.bytes = Minus(u.bytes, l.cost)
      /\ v.units = [u.units EXCEPT ![c] = Minus(u.units[c], l.amount)]
      /\ v.counts = [u.counts EXCEPT ![c] = Minus(u.counts[c], 1)]
      /\ v = [bytes |-> v.bytes, units |-> v.units, counts |-> v.counts]
  BY DEF Release
<1> HIDE DEF v
<1>3. v.bytes \in Nat /\ v.units \in [Cats -> Nat] /\ v.counts \in [Cats -> Nat]
  <2>1. u.units[c] \in Nat /\ u.counts[c] \in Nat
    BY <1>1
  <2>2. Minus(u.bytes, l.cost) \in Nat /\ Minus(u.units[c], l.amount) \in Nat /\ Minus(u.counts[c], 1) \in Nat
    BY <1>1, <2>1, MinusProperties
  <2> QED BY <1>1, <1>2, <2>2
<1>4. v \in UsageType
  BY <1>2, <1>3 DEF UsageType
<1>5. ASSUME NEW g \in Gauges PROVE Meter(v, g) = Minus(Meter(u, g), Amount(l, g))
  <2>1. g[1] \in {"bytes", "units", "counts"} /\ g[2] \in Cats
    BY DEF Gauges
  <2>2. v.units[g[2]] = IF g[2] = c THEN Minus(u.units[c], l.amount) ELSE u.units[g[2]]
    BY <1>1, <1>2, <2>1
  <2>3. v.counts[g[2]] = IF g[2] = c THEN Minus(u.counts[c], 1) ELSE u.counts[g[2]]
    BY <1>1, <1>2, <2>1
  <2>4. Minus(u.units[g[2]], 0) = u.units[g[2]] /\ Minus(u.counts[g[2]], 0) = u.counts[g[2]]
    <3>1. u.units[g[2]] \in Nat /\ u.counts[g[2]] \in Nat
      BY <1>1, <2>1
    <3> QED BY <3>1 DEF Minus
  <2> QED BY <1>1, <1>2, <2>1, <2>2, <2>3, <2>4 DEF Meter, Amount
<1> QED BY <1>4, <1>5 DEF v

\* A lease that is in the books grows or shrinks.
LEMMA ResizeMeter ==
    ASSUME NEW u \in UsageType, NEW old \in Leases, NEW new \in Leases, new.cat = old.cat,
           \A g \in Gauges : Amount(old, g) <= Meter(u, g)
    PROVE  /\ Resize(u, old, new) \in UsageType
           /\ \A g \in Gauges :
                Meter(Resize(u, old, new), g) = (Meter(u, g) - Amount(old, g)) + Amount(new, g)
<1> DEFINE v == Resize(u, old, new)
           c == old.cat
<1>1. /\ u.bytes \in Nat /\ u.units \in [Cats -> Nat] /\ u.counts \in [Cats -> Nat]
      /\ u = [bytes |-> u.bytes, units |-> u.units, counts |-> u.counts]
      /\ c \in Cats /\ old.amount \in Nat /\ old.cost \in Nat /\ new.amount \in Nat /\ new.cost \in Nat
  BY DEF UsageType, Leases
<1>2. u.units[c] \in Nat /\ u.counts[c] \in Nat
  BY <1>1
<1>3. old.cost <= u.bytes /\ old.amount <= u.units[c] /\ 1 <= u.counts[c]
  <2>1. <<"bytes", c>> \in Gauges /\ <<"units", c>> \in Gauges /\ <<"counts", c>> \in Gauges
    BY <1>1 DEF Gauges
  <2>2. Amount(old, <<"bytes", c>>) <= Meter(u, <<"bytes", c>>)
        /\ Amount(old, <<"units", c>>) <= Meter(u, <<"units", c>>)
        /\ Amount(old, <<"counts", c>>) <= Meter(u, <<"counts", c>>)
    BY <2>1
  <2> QED BY <2>2 DEF Meter, Amount
<1>4. Minus(u.bytes, old.cost) = u.bytes - old.cost
      /\ Minus(u.units[c], old.amount) = u.units[c] - old.amount
  BY <1>1, <1>2, <1>3, MinusProperties
<1>5. /\ v.bytes = (u.bytes - old.cost) + new.cost
      /\ v.units = [u.units EXCEPT ![c] = (u.units[c] - old.amount) + new.amount]
      /\ v.counts = u.counts
      /\ v = [bytes |-> v.bytes, units |-> v.units, counts |-> v.counts]
  <2> DEFINE bytes == Minus(u.bytes, old.cost) + new.cost
             units == [u.units EXCEPT ![c] = Minus(u.units[c], old.amount) + new.amount]
  <2>1. v = [u EXCEPT !.bytes = bytes, !.units = units]
    BY <1>1 DEF Resize
  <2>2. bytes = (u.bytes - old.cost) + new.cost
        /\ units = [u.units EXCEPT ![c] = (u.units[c] - old.amount) + new.amount]
    BY <1>4
  <2> HIDE DEF v, bytes, units, c
  <2> QED BY <1>1, <2>1, <2>2
<1> HIDE DEF v
<1>6. v.bytes \in Nat /\ v.units \in [Cats -> Nat] /\ v.counts \in [Cats -> Nat]
  <2>1. (u.bytes - old.cost) + new.cost \in Nat /\ (u.units[c] - old.amount) + new.amount \in Nat
    BY <1>1, <1>2, <1>3
  <2> QED BY <1>1, <1>5, <2>1
<1>7. v \in UsageType
  BY <1>5, <1>6 DEF UsageType
<1>8. ASSUME NEW g \in Gauges PROVE Meter(v, g) = (Meter(u, g) - Amount(old, g)) + Amount(new, g)
  <2>1. g[1] \in {"bytes", "units", "counts"} /\ g[2] \in Cats
    BY DEF Gauges
  <2>2. v.units[g[2]] = IF g[2] = c THEN (u.units[c] - old.amount) + new.amount ELSE u.units[g[2]]
    BY <1>1, <1>5, <2>1
  <2>3. u.units[g[2]] \in Nat /\ u.counts[g[2]] \in Nat
    BY <1>1, <2>1
  <2> QED BY <1>1, <1>2, <1>3, <1>5, <2>1, <2>2, <2>3 DEF Meter, Amount
<1> QED BY <1>7, <1>8 DEF v

\* What a list of leases adds up to on a gauge.
AmountOf(g) == [l \in Leases |-> Amount(l, g)]
Sum(ls, g) == Weight(AmountOf(g), ls)

LEMMA SumType ==
    ASSUME NEW g \in Gauges
    PROVE  AmountOf(g) \in [Leases -> Nat] /\ \A ls \in Seq(Leases) : Sum(ls, g) \in Nat
<1>1. AmountOf(g) \in [Leases -> Nat]
  BY MeterType DEF AmountOf
<1> QED BY <1>1, WeighType DEF Sum

LEMMA ReserveAllMeter ==
    ASSUME NEW u \in UsageType, NEW ls \in Seq(Leases)
    PROVE  /\ ReserveAll(u, ls) \in UsageType
           /\ \A g \in Gauges : Meter(ReserveAll(u, ls), g) = Meter(u, g) + Sum(ls, g)
<1> DEFINE n == Len(ls)
           step == [p \in (1 .. n) \X UsageType |-> Reserve(p[2], ls[p[1]])]
           Is(h) == h = [k \in 0 .. n |-> IF k = 0 THEN u ELSE Reserve(h[k - 1], ls[k])]
           after == CHOOSE h : Is(h)
<1>1. n \in Nat /\ (\A k \in 1 .. n : ls[k] \in Leases)
  OBVIOUS
<1>2. \A k \in 1 .. n : \A y \in UsageType :
        Reserve(y, ls[k]) \in UsageType /\ step[<<k, y>>] = Reserve(y, ls[k])
  BY <1>1, ReserveMeter
<1>3. PICK h \in [0 .. n -> UsageType] : h[0] = u /\ \A k \in 1 .. n : h[k] = step[<<k, h[k - 1]>>]
  <2>1. step \in [(1 .. n) \X UsageType -> UsageType]
    <3>1. \A p \in (1 .. n) \X UsageType : Reserve(p[2], ls[p[1]]) \in UsageType
      BY <1>1, ReserveMeter
    <3> QED BY <3>1
  <2>2. Runs(UsageType, u, step, n) # {}
    <3> HIDE DEF n, step
    <3> QED BY <2>1, <1>1, RecursionExists
  <2> QED BY <2>2 DEF Runs, IsRun
<1> HIDE DEF step
<1>4. \A k \in 1 .. n : h[k - 1] \in UsageType /\ h[k] = Reserve(h[k - 1], ls[k])
  <2>1. \A k \in 1 .. n : h[k - 1] \in UsageType
    <3>1. n \in Nat
      BY <1>1
    <3> HIDE DEF n
    <3>2. \A k \in 1 .. n : k - 1 \in 0 .. n
      BY <3>1
    <3>3. h \in [0 .. n -> UsageType]
      BY <1>3
    <3> QED BY <3>2, <3>3
  <2> QED BY <2>1, <1>2, <1>3
<1>5. Is(h)
  BY <1>1, <1>3, <1>4
<1>6. Is(after)
  <2> HIDE DEF Is
  <2> QED BY <1>5
<1> HIDE DEF after
<1>7. after[0] = u /\ (\A k \in 1 .. n : after[k] = Reserve(after[k - 1], ls[k]))
      /\ DOMAIN after = 0 .. n
  BY <1>1, <1>6
<1> DEFINE T == {k \in 0 .. n : after[k] \in UsageType}
<1>8. 0 .. n \subseteq T
  <2>1. 0 \in T
    BY <1>1, <1>7
  <2>2. ASSUME NEW k \in 0 .. n - 1, k \in T PROVE k + 1 \in T
    <3>1. k + 1 \in 1 .. n /\ (k + 1) - 1 = k /\ k + 1 \in 0 .. n
      BY <1>1
    <3>2. after[k + 1] = Reserve(after[k], ls[k + 1])
      BY <3>1, <1>7
    <3> QED BY <3>1, <3>2, <2>2, <1>1, ReserveMeter
  <2> HIDE DEF T
  <2> QED BY <1>1, <2>1, <2>2, IntervalInduction
<1>9. ASSUME NEW g \in Gauges
      PROVE  Meter(after[n], g) = Meter(u, g) + Sum(ls, g)
  <2> DEFINE w == AmountOf(g)
  <2>1. w \in [Leases -> Nat]
    BY MeterType DEF AmountOf
  <2> HIDE DEF w, Sum
  <2>2. PICK r \in [0 .. n -> Nat] : r[0] = 0 /\ (\A k \in 1 .. n : r[k] = r[k - 1] + w[ls[k]])
                                    /\ Weight(w, ls) = r[n]
    BY <2>1, WeightRun
  <2> DEFINE M == {k \in 0 .. n : Meter(after[k], g) = Meter(u, g) + r[k]}
  <2>3. Meter(u, g) \in Nat
    BY MeterType
  <2>4. 0 \in M
    <3>1. Meter(u, g) + 0 = Meter(u, g)
      BY <2>3 
    <3> QED BY <3>1, <1>1, <1>7, <2>2
  <2>5. ASSUME NEW k \in 0 .. n - 1, k \in M PROVE k + 1 \in M
    <3> DEFINE a == after[k]
               x == ls[k + 1]
    <3>1. k + 1 \in 1 .. n /\ (k + 1) - 1 = k /\ k + 1 \in 0 .. n /\ k \in 0 .. n
      BY <1>1
    <3>2. after[k + 1] = Reserve(a, x) /\ a \in UsageType /\ x \in Leases
      BY <3>1, <1>1, <1>7, <1>8
    <3>3. r[k + 1] = r[k] + w[x] /\ r[k] \in Nat /\ w[x] \in Nat
      BY <3>1, <3>2, <2>1, <2>2
    <3> HIDE DEF a, x
    <3>4. Meter(after[k + 1], g) = Meter(a, g) + w[x]
      BY <3>2, ReserveMeter DEF w, AmountOf
    <3>5. Meter(a, g) = Meter(u, g) + r[k]
      BY <2>5 DEF a
    <3>6. Meter(after[k + 1], g) = Meter(u, g) + r[k + 1]
      BY <3>3, <3>4, <3>5, <2>3 
    <3> QED BY <3>1, <3>6
  <2>6. 0 .. n \subseteq M
    <3> HIDE DEF M
    <3> QED BY <1>1, <2>4, <2>5, IntervalInduction
  <2>7. Meter(after[n], g) = Meter(u, g) + r[n]
    BY <1>1, <2>6
  <2> QED BY <2>2, <2>7 DEF w, Sum
<1>10. ReserveAll(u, ls) = after[n] /\ after[n] \in UsageType
  BY <1>1, <1>8 DEF ReserveAll, after
<1> HIDE DEF after, n
<1> QED BY <1>9, <1>10

LEMMA ReleaseAllMeter ==
    ASSUME NEW u \in UsageType, NEW ls \in Seq(Leases)
    PROVE  /\ ReleaseAll(u, ls) \in UsageType
           /\ \A g \in Gauges : Meter(ReleaseAll(u, ls), g) = Minus(Meter(u, g), Sum(ls, g))
<1> DEFINE n == Len(ls)
           step == [p \in (1 .. n) \X UsageType |-> Release(p[2], ls[p[1]])]
           Is(h) == h = [k \in 0 .. n |-> IF k = 0 THEN u ELSE Release(h[k - 1], ls[k])]
           after == CHOOSE h : Is(h)
<1>1. n \in Nat /\ (\A k \in 1 .. n : ls[k] \in Leases)
  OBVIOUS
<1>2. \A k \in 1 .. n : \A y \in UsageType :
        Release(y, ls[k]) \in UsageType /\ step[<<k, y>>] = Release(y, ls[k])
  BY <1>1, ReleaseMeter
<1>3. PICK h \in [0 .. n -> UsageType] : h[0] = u /\ \A k \in 1 .. n : h[k] = step[<<k, h[k - 1]>>]
  <2>1. step \in [(1 .. n) \X UsageType -> UsageType]
    <3>1. \A p \in (1 .. n) \X UsageType : Release(p[2], ls[p[1]]) \in UsageType
      BY <1>1, ReleaseMeter
    <3> QED BY <3>1
  <2>2. Runs(UsageType, u, step, n) # {}
    <3> HIDE DEF n, step
    <3> QED BY <2>1, <1>1, RecursionExists
  <2> QED BY <2>2 DEF Runs, IsRun
<1> HIDE DEF step
<1>4. \A k \in 1 .. n : h[k - 1] \in UsageType /\ h[k] = Release(h[k - 1], ls[k])
  <2>1. \A k \in 1 .. n : h[k - 1] \in UsageType
    <3>1. n \in Nat
      BY <1>1
    <3> HIDE DEF n
    <3>2. \A k \in 1 .. n : k - 1 \in 0 .. n
      BY <3>1
    <3>3. h \in [0 .. n -> UsageType]
      BY <1>3
    <3> QED BY <3>2, <3>3
  <2> QED BY <2>1, <1>2, <1>3
<1>5. Is(h)
  BY <1>1, <1>3, <1>4
<1>6. Is(after)
  <2> HIDE DEF Is
  <2> QED BY <1>5
<1> HIDE DEF after
<1>7. after[0] = u /\ (\A k \in 1 .. n : after[k] = Release(after[k - 1], ls[k]))
      /\ DOMAIN after = 0 .. n
  BY <1>1, <1>6
<1> DEFINE T == {k \in 0 .. n : after[k] \in UsageType}
<1>8. 0 .. n \subseteq T
  <2>1. 0 \in T
    BY <1>1, <1>7
  <2>2. ASSUME NEW k \in 0 .. n - 1, k \in T PROVE k + 1 \in T
    <3>1. k + 1 \in 1 .. n /\ (k + 1) - 1 = k /\ k + 1 \in 0 .. n
      BY <1>1
    <3>2. after[k + 1] = Release(after[k], ls[k + 1])
      BY <3>1, <1>7
    <3> QED BY <3>1, <3>2, <2>2, <1>1, ReleaseMeter
  <2> HIDE DEF T
  <2> QED BY <1>1, <2>1, <2>2, IntervalInduction
<1>9. ASSUME NEW g \in Gauges
      PROVE  Meter(after[n], g) = Minus(Meter(u, g), Sum(ls, g))
  <2> DEFINE w == AmountOf(g)
  <2>1. w \in [Leases -> Nat]
    BY MeterType DEF AmountOf
  <2> HIDE DEF w, Sum
  <2>2. PICK r \in [0 .. n -> Nat] : r[0] = 0 /\ (\A k \in 1 .. n : r[k] = r[k - 1] + w[ls[k]])
                                    /\ Weight(w, ls) = r[n]
    BY <2>1, WeightRun
  <2> DEFINE M == {k \in 0 .. n : Meter(after[k], g) = Minus(Meter(u, g), r[k])}
  <2>3. Meter(u, g) \in Nat
    BY MeterType
  <2>4. 0 \in M
    <3>1. Minus(Meter(u, g), 0) = Meter(u, g)
      BY <2>3 DEF Minus
    <3> QED BY <3>1, <1>1, <1>7, <2>2
  <2>5. ASSUME NEW k \in 0 .. n - 1, k \in M PROVE k + 1 \in M
    <3> DEFINE a == after[k]
               x == ls[k + 1]
    <3>1. k + 1 \in 1 .. n /\ (k + 1) - 1 = k /\ k + 1 \in 0 .. n /\ k \in 0 .. n
      BY <1>1
    <3>2. after[k + 1] = Release(a, x) /\ a \in UsageType /\ x \in Leases
      BY <3>1, <1>1, <1>7, <1>8
    <3>3. r[k + 1] = r[k] + w[x] /\ r[k] \in Nat /\ w[x] \in Nat
      BY <3>1, <3>2, <2>1, <2>2
    <3> HIDE DEF a, x
    <3>4. Meter(after[k + 1], g) = Minus(Meter(a, g), w[x])
      BY <3>2, ReleaseMeter DEF w, AmountOf
    <3>5. Meter(a, g) = Minus(Meter(u, g), r[k])
      BY <2>5 DEF a
    <3>6. Meter(after[k + 1], g) = Minus(Meter(u, g), r[k + 1])
      BY <3>3, <3>4, <3>5, <2>3 DEF Minus
    <3> QED BY <3>1, <3>6
  <2>6. 0 .. n \subseteq M
    <3> HIDE DEF M
    <3> QED BY <1>1, <2>4, <2>5, IntervalInduction
  <2>7. Meter(after[n], g) = Minus(Meter(u, g), r[n])
    BY <1>1, <2>6
  <2> QED BY <2>2, <2>7 DEF w, Sum
<1>10. ReleaseAll(u, ls) = after[n] /\ after[n] \in UsageType
  BY <1>1, <1>8 DEF ReleaseAll, after
<1> HIDE DEF after, n
<1> QED BY <1>9, <1>10

\* What dropping a cache entry gives back on a gauge while hs hold clones.
Owed(hs, e, g) ==
    Amount(e.keyLease, g) + IF \E h \in hs : h.rid = e.rid THEN 0 ELSE Amount(e.lease, g)
OwedOf(hs, g) == [e \in Entries |-> Owed(hs, e, g)]

LEMMA FreedSum ==
    ASSUME NEW e \in Entries, NEW g \in Gauges
    PROVE  Sum(Freed(e), g) = Owed(held, e, g) /\ Owed(held, e, g) \in Nat
<1> DEFINE w == AmountOf(g)
           one == <<e.keyLease>>
           two == <<e.lease>>
<1>1. e.keyLease \in Leases /\ e.lease \in Leases /\ w \in [Leases -> Nat]
  BY SumType DEF Entries
<1>2. one = Append(<<>>, e.keyLease) /\ two = Append(<<>>, e.lease) /\ <<>> \in Seq(Leases)
      /\ one \in Seq(Leases) /\ two \in Seq(Leases)
  BY <1>1
<1>3. w[e.keyLease] = Amount(e.keyLease, g) /\ w[e.lease] = Amount(e.lease, g)
      /\ Amount(e.keyLease, g) \in Nat /\ Amount(e.lease, g) \in Nat
  BY <1>1, MeterType DEF AmountOf
<1> HIDE DEF w, one, two
<1>4. Weight(w, one) = Amount(e.keyLease, g)
  <2>1. Weight(w, Append(<<>>, e.keyLease)) = Weight(w, <<>>) + w[e.keyLease]
    BY <1>1, <1>2, WeightAppend
  <2> QED BY <2>1, <1>2, <1>3, WeightEmpty
<1>5. Weight(w, two) = Amount(e.lease, g)
  <2>1. Weight(w, Append(<<>>, e.lease)) = Weight(w, <<>>) + w[e.lease]
    BY <1>1, <1>2, WeightAppend
  <2> QED BY <2>1, <1>2, <1>3, WeightEmpty
<1>6. Owed(held, e, g) = Amount(e.keyLease, g) + IF Holds(e.rid) THEN 0 ELSE Amount(e.lease, g)
  BY DEF Owed, Holds
<1>7. CASE Holds(e.rid)
  <2>1. Freed(e) = one \o <<>>
    BY <1>7 DEF Freed, one
  <2>2. one \o <<>> = one
    BY <1>2
  <2> QED BY <2>1, <2>2, <1>3, <1>4, <1>6, <1>7 DEF Sum, w
<1>8. CASE ~Holds(e.rid)
  <2>1. Freed(e) = one \o two
    BY <1>8 DEF Freed, one, two
  <2>2. Weight(w, one \o two) = Weight(w, one) + Weight(w, two)
    BY <1>1, <1>2, WeightConcat
  <2> QED BY <2>1, <2>2, <1>3, <1>4, <1>5, <1>6, <1>8 DEF Sum, w
<1> QED BY <1>7, <1>8

LEMMA OwedType ==
    ASSUME NEW hs, NEW g \in Gauges
    PROVE  OwedOf(hs, g) \in [Entries -> Nat] /\ \A e \in Entries : OwedOf(hs, g)[e] = Owed(hs, e, g)
<1>1. ASSUME NEW e \in Entries PROVE Owed(hs, e, g) \in Nat
  <2>1. e.keyLease \in Leases /\ e.lease \in Leases
    BY DEF Entries
  <2>2. Amount(e.keyLease, g) \in Nat /\ Amount(e.lease, g) \in Nat
    BY <2>1, MeterType
  <2> QED BY <2>2 DEF Owed
<1> QED BY <1>1 DEF OwedOf

LEMMA ReleaseEntriesMeter ==
    ASSUME NEW u \in UsageType, NEW ls \in Seq(Entries)
    PROVE  /\ ReleaseEntries(u, ls) \in UsageType
           /\ \A g \in Gauges : Meter(ReleaseEntries(u, ls), g) = Minus(Meter(u, g), Weight(OwedOf(held, g), ls))
<1> DEFINE n == Len(ls)
           step == [p \in (1 .. n) \X UsageType |-> ReleaseAll(p[2], Freed(ls[p[1]]))]
           Is(h) == h = [k \in 0 .. n |-> IF k = 0 THEN u ELSE ReleaseAll(h[k - 1], Freed(ls[k]))]
           after == CHOOSE h : Is(h)
<1>1. n \in Nat /\ (\A k \in 1 .. n : ls[k] \in Entries) /\ \A k \in 1 .. n : Freed(ls[k]) \in Seq(Leases)
  BY FreedType
<1>2. \A k \in 1 .. n : \A y \in UsageType :
        ReleaseAll(y, Freed(ls[k])) \in UsageType /\ step[<<k, y>>] = ReleaseAll(y, Freed(ls[k]))
  <2> HIDE DEF n
  <2> SUFFICES ASSUME NEW k \in 1 .. n, NEW y \in UsageType
               PROVE  ReleaseAll(y, Freed(ls[k])) \in UsageType
                      /\ step[<<k, y>>] = ReleaseAll(y, Freed(ls[k]))
    OBVIOUS
  <2>1. Freed(ls[k]) \in Seq(Leases)
    BY <1>1
  <2>2. ReleaseAll(y, Freed(ls[k])) \in UsageType
    BY <2>1, ReleaseAllMeter
  <2>3. <<k, y>> \in (1 .. n) \X UsageType
    OBVIOUS
  <2>4. step[<<k, y>>] = ReleaseAll(<<k, y>>[2], Freed(ls[<<k, y>>[1]]))
    BY <2>3, Zenon
  <2> QED BY <2>2, <2>4
<1>3. PICK h \in [0 .. n -> UsageType] : h[0] = u /\ \A k \in 1 .. n : h[k] = step[<<k, h[k - 1]>>]
  <2>1. step \in [(1 .. n) \X UsageType -> UsageType]
    <3>1. \A p \in (1 .. n) \X UsageType : ReleaseAll(p[2], Freed(ls[p[1]])) \in UsageType
      <4> HIDE DEF n
      <4> SUFFICES ASSUME NEW p \in (1 .. n) \X UsageType
                   PROVE  ReleaseAll(p[2], Freed(ls[p[1]])) \in UsageType
        OBVIOUS
      <4>1. p[1] \in 1 .. n /\ p[2] \in UsageType
        OBVIOUS
      <4>2. Freed(ls[p[1]]) \in Seq(Leases)
        BY <1>1, <4>1
      <4> QED BY <4>1, <4>2, ReleaseAllMeter
    <3> QED BY <3>1
  <2>2. Runs(UsageType, u, step, n) # {}
    <3> HIDE DEF n, step
    <3> QED BY <2>1, <1>1, RecursionExists
  <2> QED BY <2>2 DEF Runs, IsRun
<1> HIDE DEF step
<1>4. \A k \in 1 .. n : h[k - 1] \in UsageType /\ h[k] = ReleaseAll(h[k - 1], Freed(ls[k]))
  <2>1. \A k \in 1 .. n : h[k - 1] \in UsageType
    <3>1. n \in Nat
      BY <1>1
    <3> HIDE DEF n
    <3>2. \A k \in 1 .. n : k - 1 \in 0 .. n
      BY <3>1
    <3>3. h \in [0 .. n -> UsageType]
      BY <1>3
    <3> QED BY <3>2, <3>3
  <2> QED BY <2>1, <1>2, <1>3
<1>5. Is(h)
  <2>1. \A k \in 0 .. n : h[k] = IF k = 0 THEN u ELSE ReleaseAll(h[k - 1], Freed(ls[k]))
    <3>1. \A k \in 0 .. n : k = 0 \/ k \in 1 .. n
      BY <1>1
    <3> QED BY <3>1, <1>3, <1>4
  <2>2. h = [k \in 0 .. n |-> h[k]]
    OBVIOUS
  <2> QED BY <2>1, <2>2
<1>6. Is(after)
  <2> HIDE DEF Is
  <2> QED BY <1>5
<1> HIDE DEF after
<1>7. after[0] = u /\ (\A k \in 1 .. n : after[k] = ReleaseAll(after[k - 1], Freed(ls[k])))
      /\ DOMAIN after = 0 .. n
  BY <1>1, <1>6
<1> DEFINE T == {k \in 0 .. n : after[k] \in UsageType}
<1>8. 0 .. n \subseteq T
  <2>1. 0 \in T
    BY <1>1, <1>7
  <2>2. ASSUME NEW k \in 0 .. n - 1, k \in T PROVE k + 1 \in T
    <3>1. k + 1 \in 1 .. n /\ (k + 1) - 1 = k /\ k + 1 \in 0 .. n
      BY <1>1
    <3>2. after[k + 1] = ReleaseAll(after[k], Freed(ls[k + 1]))
      BY <3>1, <1>7
    <3> QED BY <3>1, <3>2, <2>2, <1>1, ReleaseAllMeter
  <2> HIDE DEF T
  <2> QED BY <1>1, <2>1, <2>2, IntervalInduction
<1>9. ASSUME NEW g \in Gauges
      PROVE  Meter(after[n], g) = Minus(Meter(u, g), Weight(OwedOf(held, g), ls))
  <2> DEFINE w == OwedOf(held, g)
  <2>1. w \in [Entries -> Nat]
    BY OwedType
  <2> HIDE DEF w
  <2>2. PICK r \in [0 .. n -> Nat] : r[0] = 0 /\ (\A k \in 1 .. n : r[k] = r[k - 1] + w[ls[k]])
                                    /\ Weight(w, ls) = r[n]
    BY <2>1, WeightRun
  <2> DEFINE M == {k \in 0 .. n : Meter(after[k], g) = Minus(Meter(u, g), r[k])}
  <2>3. Meter(u, g) \in Nat
    BY MeterType
  <2>4. 0 \in M
    <3>1. Minus(Meter(u, g), 0) = Meter(u, g)
      BY <2>3 DEF Minus
    <3> QED BY <3>1, <1>1, <1>7, <2>2
  <2>5. ASSUME NEW k \in 0 .. n - 1, k \in M PROVE k + 1 \in M
    <3> DEFINE a == after[k]
               x == ls[k + 1]
    <3>1. k + 1 \in 1 .. n /\ (k + 1) - 1 = k /\ k + 1 \in 0 .. n /\ k \in 0 .. n
      BY <1>1
    <3>2. after[k + 1] = ReleaseAll(a, Freed(x)) /\ a \in UsageType /\ x \in Entries
      BY <3>1, <1>1, <1>7, <1>8
    <3>3. r[k + 1] = r[k] + w[x] /\ r[k] \in Nat /\ w[x] \in Nat
      BY <3>1, <3>2, <2>1, <2>2
    <3> HIDE DEF a, x
    <3>4. Meter(after[k + 1], g) = Minus(Meter(a, g), w[x])
      <4>1. Freed(x) \in Seq(Leases)
        BY <3>2, FreedType
      <4>2. Meter(ReleaseAll(a, Freed(x)), g) = Minus(Meter(a, g), Sum(Freed(x), g))
        BY <3>2, <4>1, ReleaseAllMeter
      <4>3. Sum(Freed(x), g) = w[x]
        BY <3>2, FreedSum, OwedType DEF w
      <4> QED BY <3>2, <4>2, <4>3
    <3>5. Meter(a, g) = Minus(Meter(u, g), r[k])
      BY <2>5 DEF a
    <3>6. Meter(after[k + 1], g) = Minus(Meter(u, g), r[k + 1])
      BY <3>3, <3>4, <3>5, <2>3 DEF Minus
    <3> QED BY <3>1, <3>6
  <2>6. 0 .. n \subseteq M
    <3> HIDE DEF M
    <3> QED BY <1>1, <2>4, <2>5, IntervalInduction
  <2>7. Meter(after[n], g) = Minus(Meter(u, g), r[n])
    BY <1>1, <2>6
  <2> QED BY <2>2, <2>7 DEF w
<1>10. ReleaseEntries(u, ls) = after[n] /\ after[n] \in UsageType
  BY <1>1, <1>8 DEF ReleaseEntries, after
<1> HIDE DEF after, n
<1> QED BY <1>9, <1>10

-----------------------------------------------------------------------------
(* What a set of owners has leased.                                        *)

LEMMA SetListed ==
    ASSUME NEW X, IsFiniteSet(X)
    PROVE  Lists(SetToSeq(X), Cardinality(X), X) /\ Cardinality(X) \in Nat
<1> DEFINE n == Cardinality(X)
           q == SetToSeq(X)
<1>1. n \in Nat /\ ExistsBijection(1..n, X)
  BY FS_CardinalityType
<1>2. \E f \in [1..n -> X] : IsInjective(f)
  BY <1>1 DEF ExistsBijection, Bijection, Injection
<1>3. q \in [1..n -> X] /\ IsInjective(q)
  BY <1>2 DEF SetToSeq
<1>4. Cardinality(1..n) = n
  <2>1. 1 \in Int /\ n \in Int /\ (1 > n => n = 0)
    BY <1>1
  <2> HIDE DEF n
  <2>2. Cardinality(1..n) = IF 1 > n THEN 0 ELSE n - 1 + 1
    BY <2>1, FS_Interval
  <2> QED BY <2>1, <2>2
<1> HIDE DEF q
<1>5. q \in Injection(1..n, X)
  BY <1>3 DEF Injection
<1>6. q \in Surjection(1..n, X)
  <2>1. Cardinality(1..n) = Cardinality(X)
    BY <1>4
  <2> HIDE DEF n
  <2> QED BY <1>5, <2>1, FS_Injection
<1>7. \A x \in X : \E i \in 1..n : q[i] = x
  BY <1>6 DEF Surjection
<1>8. \A i, j \in 1..n : q[i] = q[j] => i = j
  BY <1>3 DEF IsInjective
<1> QED BY <1>1, <1>3, <1>7, <1>8 DEF Lists, q

LeasesIn(X) == IsFiniteSet(X) /\ \A x \in X : x.lease \in Leases
SetSum(X, g) == Sum(SubLeases(X), g)
AmountIn(X, g) == [x \in X |-> Amount(x.lease, g)]

\* It is what any list of it adds up to.
LEMMA SetSumListed ==
    ASSUME NEW Y, LeasesIn(Y), NEW X \in SUBSET Y, NEW g \in Gauges,
           NEW n \in Nat, NEW q, Lists(q, n, X)
    PROVE  SetSum(X, g) = Weight(AmountIn(Y, g), q) /\ SetSum(X, g) \in Nat
<1> DEFINE w == AmountIn(Y, g)
           p == SetToSeq(X)
           ls == SubLeases(X)
<1>1. IsFiniteSet(X) /\ \A x \in X : x.lease \in Leases
  BY FS_Subset DEF LeasesIn
<1>2. Lists(p, Cardinality(X), X) /\ Cardinality(X) \in Nat
  BY <1>1, SetListed
<1>3. Cardinality(X) = n
  BY ListsSize
<1>4. w \in [Y -> Nat]
  BY MeterType DEF AmountIn, LeasesIn
<1>5. Weight(w, q) = Weight(w, p)
  <2>1. Lists(p, n, X)
    BY <1>2, <1>3
  <2> HIDE DEF w, p
  <2> QED BY <1>4, <2>1, WeightOfLists
<1>6. p \in [1..n -> X]
  BY <1>2, <1>3 DEF Lists
<1>7. ls = [i \in 1..n |-> p[i].lease]
  BY <1>6 DEF SubLeases
<1>8. \A i \in 1..n : p[i] \in X /\ p[i] \in Y /\ p[i].lease \in Leases
  BY <1>1, <1>6
<1> HIDE DEF p
<1>9. Weigh(AmountOf(g), ls) = [i \in 1..n |-> Amount(p[i].lease, g)]
  BY <1>7, <1>8 DEF Weigh, AmountOf
<1>10. Weigh(w, p) = [i \in 1..n |-> Amount(p[i].lease, g)]
  BY <1>6, <1>8 DEF Weigh, AmountIn
<1>11. SetSum(X, g) = Weight(w, p)
  BY <1>9, <1>10 DEF SetSum, Sum, Weight
<1>12. ls \in Seq(Leases)
  BY <1>1, SubLeasesType
<1> QED BY <1>5, <1>11, <1>12, SumType DEF SetSum

LEMMA SetSumUnion ==
    ASSUME NEW X, LeasesIn(X), NEW Y, LeasesIn(Y), X \cap Y = {}, NEW g \in Gauges
    PROVE  /\ LeasesIn(X \cup Y)
           /\ SetSum(X \cup Y, g) = SetSum(X, g) + SetSum(Y, g)
           /\ SetSum(X, g) \in Nat /\ SetSum(Y, g) \in Nat
<1> DEFINE Z == X \cup Y
           w == AmountIn(Z, g)
           p == SetToSeq(X)
           q == SetToSeq(Y)
           n == Cardinality(X)
           m == Cardinality(Y)
<1>1. LeasesIn(Z)
  BY FS_Union DEF LeasesIn
<1>2. Lists(p, n, X) /\ n \in Nat /\ Lists(q, m, Y) /\ m \in Nat
  BY SetListed DEF LeasesIn
<1>3. X \in SUBSET Z /\ Y \in SUBSET Z /\ Z \in SUBSET Z /\ n + m \in Nat
  BY <1>2
<1> HIDE DEF p, q, n, m
<1>4. Lists(p \o q, n + m, Z)
  BY <1>2, ListsConcat
<1>5. w \in [Z -> Nat]
  BY <1>1, MeterType DEF AmountIn, LeasesIn
<1>6. p \in Seq(Z) /\ q \in Seq(Z)
  <2>1. p \in [1..n -> X] /\ q \in [1..m -> Y]
    BY <1>2 DEF Lists
  <2>2. p \in [1..n -> Z] /\ q \in [1..m -> Z]
    BY <2>1
  <2> HIDE DEF Z
  <2> QED BY <2>2, <1>2
<1> HIDE DEF Z, w
<1>7. Weight(w, p \o q) = Weight(w, p) + Weight(w, q)
  BY <1>5, <1>6, WeightConcat
<1>8. SetSum(Z, g) = Weight(w, p \o q)
  BY <1>1, <1>3, <1>4, SetSumListed DEF w
<1>9. SetSum(X, g) = Weight(w, p) /\ SetSum(X, g) \in Nat
  BY <1>1, <1>2, <1>3, SetSumListed DEF w
<1>10. SetSum(Y, g) = Weight(w, q) /\ SetSum(Y, g) \in Nat
  BY <1>1, <1>2, <1>3, SetSumListed DEF w
<1> QED BY <1>1, <1>7, <1>8, <1>9, <1>10 DEF Z

LEMMA SetSumOne ==
    ASSUME NEW x, x.lease \in Leases, NEW g \in Gauges
    PROVE  /\ LeasesIn({x}) /\ SetSum({x}, g) = Amount(x.lease, g)
           /\ LeasesIn({}) /\ SetSum({}, g) = 0
<1>1. LeasesIn({x}) /\ LeasesIn({})
  BY FS_Singleton, FS_EmptySet DEF LeasesIn
<1> DEFINE X == {x}
           w == AmountIn(X, g)
           q == <<x>>
<1>2. w \in [X -> Nat] /\ w[x] = Amount(x.lease, g) /\ x \in X /\ w[x] \in Nat
  BY MeterType DEF AmountIn
<1>3. Lists(q, 1, X)
  BY DEF Lists
<1>4. q = Append(<<>>, x) /\ <<>> \in Seq(X)
  OBVIOUS
<1> HIDE DEF w, q
<1>5. SetSum(X, g) = Weight(w, q)
  BY <1>1, <1>3, SetSumListed DEF w
<1>6. Weight(w, Append(<<>>, x)) = Weight(w, <<>>) + w[x]
  <2> HIDE DEF X
  <2> QED BY <1>2, <1>4, WeightAppend
<1>7. SetSum(X, g) = Amount(x.lease, g)
  BY <1>2, <1>4, <1>5, <1>6, WeightEmpty
<1>8. SetSum({}, g) = 0
  <2>1. Lists(<<>>, 0, {})
    BY DEF Lists
  <2>2. SetSum({}, g) = Weight(AmountIn({}, g), <<>>)
    BY <1>1, <2>1, SetSumListed
  <2> QED BY <2>2, WeightEmpty
<1> QED BY <1>1, <1>7, <1>8

\* A new member adds its lease.
AddsOne(X, x, g) ==
    /\ LeasesIn(X \cup {x})
    /\ SetSum(X, g) \in Nat
    /\ SetSum(X \cup {x}, g) = SetSum(X, g) + IF x \in X THEN 0 ELSE Amount(x.lease, g)
LEMMA SetSumAdds ==
    ASSUME NEW X, LeasesIn(X), NEW x, x.lease \in Leases, NEW g \in Gauges
    PROVE  AddsOne(X, x, g)
<1> USE DEF AddsOne
<1>1. CASE x \in X
  <2>1. X \cup {x} = X
    BY <1>1
  <2>2. SetSum(X, g) \in Nat
    BY SetSumUnion, SetSumOne
  <2> QED BY <1>1, <2>1, <2>2
<1>2. CASE x \notin X
  <2>1. X \cap {x} = {} /\ LeasesIn({x})
    BY <1>2, SetSumOne
  <2>2. LeasesIn(X \cup {x}) /\ SetSum(X \cup {x}, g) = SetSum(X, g) + SetSum({x}, g)
        /\ SetSum(X, g) \in Nat
    <3> DEFINE Y == {x}
    <3>1. X \cap Y = {} /\ LeasesIn(Y)
      BY <2>1
    <3> HIDE DEF Y
    <3>2. LeasesIn(X \cup Y) /\ SetSum(X \cup Y, g) = SetSum(X, g) + SetSum(Y, g)
          /\ SetSum(X, g) \in Nat
      BY <3>1, SetSumUnion
    <3> QED BY <3>2 DEF Y
  <2>3. SetSum({x}, g) = Amount(x.lease, g)
    BY SetSumOne
  <2> QED BY <1>2, <2>2, <2>3
<1> QED BY <1>1, <1>2

-----------------------------------------------------------------------------
(* The cache's entries: one for a key, each with a number of its own.      *)

LenOf == [e \in Entries |-> e.len]
Apart(c) ==
    /\ \A i, j \in DOMAIN c : c[i].key = c[j].key => i = j
    /\ \A i, j \in DOMAIN c : c[i].rid = c[j].rid => i = j
Present(c, key) == IF \E i \in DOMAIN c : c[i].key = key THEN 1 ELSE 0

LEMMA LenOfType ==
    LenOf \in [Entries -> Nat] /\ \A e \in Entries : LenOf[e] = e.len
BY DEF LenOf, Entries

\* Positions of a subsequence come from positions of their own.
LEMMA NthApart ==
    ASSUME NEW I \in SUBSET Nat, IsFiniteSet(I), NEW k \in 1..Cardinality(I), NEW l \in 1..Cardinality(I),
           Nth(I, k) = Nth(I, l)
    PROVE  k = l
<1>1. Cardinality(Below(I, Nth(I, k))) = k - 1
  BY NthExists DEF Nth
<1>2. Cardinality(Below(I, Nth(I, l))) = l - 1
  BY NthExists DEF Nth
<1>3. Cardinality(I) \in Nat
  BY FS_CardinalityType
<1> QED BY <1>1, <1>2, <1>3

LEMMA SubsequenceApart ==
    ASSUME NEW c \in Seq(Entries), Apart(c), NEW I \in SUBSET DOMAIN c
    PROVE  /\ Apart(Subsequence(c, I)) /\ Subsequence(c, I) \in Seq(Entries)
           /\ \A i \in DOMAIN Subsequence(c, I) : \E j \in I : Subsequence(c, I)[i] = c[j]
           /\ \A j \in I : \E i \in DOMAIN Subsequence(c, I) : Subsequence(c, I)[i] = c[j]
<1> DEFINE s == Subsequence(c, I)
           n == Cardinality(I)
<1>1. /\ s \in Seq(Entries) /\ IsFiniteSet(I) /\ DOMAIN s = 1..n
      /\ \A k \in 1..n : Nth(I, k) \in I /\ s[k] = c[Nth(I, k)]
      /\ \A i \in I : \E k \in 1..n : Nth(I, k) = i
  BY SubsequenceProperties
<1>2. I \in SUBSET Nat
  OBVIOUS
<1>3. \A k, l \in 1..n : Nth(I, k) = Nth(I, l) => k = l
  BY <1>1, <1>2, NthApart
<1> HIDE DEF s
<1>4. Apart(s)
  <2>1. ASSUME NEW i \in DOMAIN s, NEW j \in DOMAIN s, s[i].key = s[j].key \/ s[i].rid = s[j].rid
        PROVE  i = j
    <3>1. Nth(I, i) \in DOMAIN c /\ Nth(I, j) \in DOMAIN c /\ s[i] = c[Nth(I, i)] /\ s[j] = c[Nth(I, j)]
      BY <1>1
    <3>2. Nth(I, i) = Nth(I, j)
      BY <2>1, <3>1 DEF Apart
    <3> QED BY <1>1, <1>3, <3>2
  <2> QED BY <2>1 DEF Apart
<1>5. \A i \in DOMAIN s : \E j \in I : s[i] = c[j]
  BY <1>1
<1>6. \A j \in I : \E i \in DOMAIN s : s[i] = c[j]
  BY <1>1
<1> QED BY <1>1, <1>4, <1>5, <1>6 DEF s

\* The entry under a key, if there is one, and the others.
LEMMA OthersSplit ==
    ASSUME NEW c \in Seq(Entries), Apart(c), NEW key
    PROVE  /\ Others(c, key) \in SUBSET DOMAIN c
           /\ IsFiniteSet(Others(c, key)) /\ Cardinality(Others(c, key)) \in Nat /\ Len(c) \in Nat
           /\ Cardinality(Others(c, key)) + Present(c, key) = Len(c) /\ Present(c, key) \in Nat
           /\ OldLen(c, key) \in Nat
           /\ \A i \in DOMAIN c : c[i].key = key => OldLen(c, key) = c[i].len
           /\ Present(c, key) = 0 => OldLen(c, key) = 0
           /\ Weight(LenOf, c) = Weight(LenOf, Subsequence(c, Others(c, key))) + OldLen(c, key)
           /\ Weight(LenOf, Subsequence(c, Others(c, key))) \in Nat
<1> DEFINE O == Others(c, key)
           I == {i \in 1..Len(c) : c[i].key = key}
           n == Len(c)
           p == Position(c, key)
<1>1. O \in SUBSET DOMAIN c /\ DOMAIN c = 1..n /\ n \in Nat /\ DOMAIN c \ O = I
  BY DEF Others
<1>2. IsFiniteSet(O) /\ Cardinality(O) \in Nat
  <2> HIDE DEF O
  <2> QED BY <1>1, SubsequenceProperties
<1>3. Weight(LenOf, c) = Weight(LenOf, Subsequence(c, O)) + Weight(LenOf, Subsequence(c, I))
      /\ Weight(LenOf, Subsequence(c, O)) \in Nat
  <2> HIDE DEF O, I
  <2>1. Weight(LenOf, c) = Weight(LenOf, Subsequence(c, O)) + Weight(LenOf, Subsequence(c, DOMAIN c \ O))
        /\ Weight(LenOf, Subsequence(c, O)) \in Nat
    <3>1. LenOf \in [Entries -> Nat] /\ c \in Seq(Entries) /\ O \in SUBSET DOMAIN c
      BY <1>1, LenOfType
    <3> HIDE DEF LenOf, Entries
    <3> QED BY <3>1, WeightSplit
  <2> QED BY <1>1, <2>1
<1>4. p = IF I # {} THEN Min(I) ELSE 0
  BY DEF Position, SelectInSeq
<1>5. CASE I = {}
  <2>1. p = 0 /\ OldLen(c, key) = 0
    BY <1>4, <1>5 DEF OldLen
  <2>2. \A i \in DOMAIN c : c[i].key # key
    BY <1>1, <1>5
  <2>3. Present(c, key) = 0
    BY <2>2 DEF Present
  <2>4. O = DOMAIN c
    BY <2>2 DEF Others
  <2>5. Cardinality(O) = n
    <3>1. 1 \in Int /\ n \in Int /\ (1 > n => n = 0)
      BY <1>1
    <3> HIDE DEF n, O
    <3>2. Cardinality(1..n) = IF 1 > n THEN 0 ELSE n - 1 + 1
      BY <3>1, FS_Interval
    <3> QED BY <3>1, <3>2, <2>4, <1>1
  <2>6. Subsequence(c, I) = <<>>
    <3>1. Cardinality(I) = 0
      <4> HIDE DEF I
      <4> QED BY <1>5, FS_EmptySet
    <3> HIDE DEF I
    <3> QED BY <3>1 DEF Subsequence
  <2> HIDE DEF O, I, p
  <2>7. Weight(LenOf, Subsequence(c, I)) = 0
    BY <2>6, WeightEmpty
  <2> QED BY <1>1, <1>2, <1>3, <2>1, <2>2, <2>3, <2>5, <2>7 DEF O
<1>6. CASE I # {}
  <2>1. PICK i \in DOMAIN c : c[i].key = key
    BY <1>1, <1>6
  <2>2. I = {i}
    BY <1>1, <2>1 DEF Apart
  <2>3. p = i
    <3>1. p = CHOOSE x \in {i} : \A y \in {i} : x <= y
      BY <1>4, <1>6, <2>2 DEF Min
    <3>2. i \in Nat
      BY <1>1
    <3> HIDE DEF p
    <3> QED BY <3>1, <3>2
  <2>4. OldLen(c, key) = c[i].len
    <3>1. i # 0
      BY <1>1
    <3> QED BY <2>3, <3>1 DEF OldLen
  <2>5. c[i] \in Entries /\ c[i].len \in Nat
    <3>1. c[i] \in Entries
      OBVIOUS
    <3> QED BY <3>1 DEF Entries
  <2>6. Weight(LenOf, Subsequence(c, I)) = c[i].len
    <3>1. Weight(LenOf, Subsequence(c, {i})) = LenOf[c[i]]
      BY LenOfType, WeightOne
    <3> QED BY <3>1, <2>2, <2>5, LenOfType
  <2>7. O = DOMAIN c \ {i}
    BY <1>1, <2>2
  <2>8. Cardinality(O) = n - 1
    <3>1. 1 \in Int /\ n \in Int /\ ~(1 > n) /\ i \in 1..n
      BY <1>1
    <3> HIDE DEF n, O
    <3>2. IsFiniteSet(1..n) /\ Cardinality(1..n) = IF 1 > n THEN 0 ELSE n - 1 + 1
      BY <3>1, FS_Interval
    <3>3. Cardinality((1..n) \ {i}) = Cardinality(1..n) - 1
      <4> DEFINE S == 1..n
      <4>1. i \in S /\ IsFiniteSet(S)
        BY <3>1, <3>2
      <4> HIDE DEF S
      <4>2. Cardinality(S \ {i}) = Cardinality(S) - 1
        BY <4>1, FS_RemoveElement
      <4> QED BY <4>2 DEF S
    <3> QED BY <3>1, <3>2, <3>3, <2>7, <1>1
  <2>9. Present(c, key) = 1
    BY <2>1 DEF Present
  <2>10. \A j \in DOMAIN c : c[j].key = key => j = i
    BY <2>1 DEF Apart
  <2> HIDE DEF O, I, p
  <2> QED BY <1>1, <1>2, <1>3, <2>4, <2>5, <2>6, <2>8, <2>9, <2>10 DEF O
<1> QED BY <1>5, <1>6

-----------------------------------------------------------------------------
(* Evictions, and the insertion, exactly.                                  *)

\* Nat minus what it contains.
LEMMA MinusOfSum ==
    ASSUME NEW a \in Nat, NEW b \in Nat
    PROVE  Minus(a + b, b) = a /\ Minus(a + b, a) = b
BY DEF Minus

LEMMA LensWeigh ==
    ASSUME NEW c \in Seq(Entries)
    PROVE  Total([i \in DOMAIN c |-> c[i].len]) = Weight(LenOf, c) /\ Weight(LenOf, c) \in Nat
<1>1. DOMAIN c = 1..Len(c) /\ \A i \in 1..Len(c) : c[i] \in Entries
  OBVIOUS
<1>2. \A i \in DOMAIN c : LenOf[c[i]] = c[i].len
  <2> HIDE DEF Entries
  <2> QED BY <1>1, LenOfType
<1>3. Weigh(LenOf, c) = [i \in DOMAIN c |-> c[i].len]
  BY <1>2 DEF Weigh
<1>4. Weight(LenOf, c) \in Nat
  <2>1. LenOf \in [Entries -> Nat]
    BY LenOfType
  <2> HIDE DEF LenOf, Entries
  <2> QED BY <2>1, WeighType
<1> QED BY <1>3, <1>4 DEF Weight

\* A cache, its own counter and the books, when all else leased is worth R.
Keeps(st, R) ==
    /\ st.cache \in Seq(Entries) /\ st.usage \in UsageType
    /\ Apart(st.cache)
    /\ st.bytes = Weight(LenOf, st.cache)
    /\ \A g \in Gauges : Meter(st.usage, g) = R[g] + Weight(OwedOf(held, g), st.cache)
\* d holds some of the entries of c, every one under the key among them.
Culled(d, c, key) ==
    /\ \A i \in DOMAIN d : \E j \in DOMAIN c : d[i] = c[j]
    /\ Present(d, key) = Present(c, key) /\ OldLen(d, key) = OldLen(c, key)
    /\ Len(d) <= Len(c) /\ Weight(LenOf, d) <= Weight(LenOf, c)

LEMMA DroppedKeeps ==
    ASSUME NEW R \in [Gauges -> Nat], NEW st, Keeps(st, R), NEW key, NEW k
    PROVE  Keeps(Dropped(st, key, k), R) /\ Culled(Dropped(st, key, k).cache, st.cache, key)
<1> DEFINE c == st.cache
           gone == {i \in DOMAIN c : Goes(c, key, k, i)}
           rest == DOMAIN c \ gone
           out == Subsequence(c, gone)
           d == Subsequence(c, rest)
           z == Dropped(st, key, k)
<1>1. gone \in SUBSET DOMAIN c /\ rest \in SUBSET DOMAIN c /\ c \in Seq(Entries) /\ Apart(c)
      /\ st.usage \in UsageType /\ st.bytes = Weight(LenOf, c)
  BY DEF Keeps
<1>2. \A i \in DOMAIN c : c[i].key = key => i \in rest
  BY DEF Goes, Others
<1>3. z.cache = d /\ z.bytes = Minus(st.bytes, Total([i \in DOMAIN out |-> out[i].len]))
      /\ z.usage = ReleaseEntries(st.usage, out)
  BY DEF Dropped
<1> HIDE DEF c, gone, z, Entries, LenOf
<1>4. out \in Seq(Entries)
  BY <1>1, SubsequenceProperties
<1>5. /\ Apart(d) /\ d \in Seq(Entries)
      /\ \A i \in DOMAIN d : \E j \in rest : d[i] = c[j]
      /\ \A j \in rest : \E i \in DOMAIN d : d[i] = c[j]
  <2> HIDE DEF rest
  <2> QED BY <1>1, SubsequenceApart
<1>6. Len(d) <= Len(c)
  <2> HIDE DEF rest
  <2> QED BY <1>1, SubsequenceProperties
<1> HIDE DEF rest
<1>7. Weight(LenOf, c) = Weight(LenOf, out) + Weight(LenOf, d)
      /\ Weight(LenOf, out) \in Nat /\ Weight(LenOf, d) \in Nat
  <2>1. LenOf \in [Entries -> Nat]
    BY LenOfType
  <2>2. /\ Weight(LenOf, c) = Weight(LenOf, Subsequence(c, gone)) + Weight(LenOf, Subsequence(c, DOMAIN c \ gone))
        /\ Weight(LenOf, Subsequence(c, gone)) \in Nat /\ Weight(LenOf, Subsequence(c, DOMAIN c \ gone)) \in Nat
    <3>1. c \in Seq(Entries) /\ gone \in SUBSET DOMAIN c
      BY <1>1
    <3>2. SplitsAt(LenOf, c, gone)
      <4> HIDE DEF out, d
      <4> QED BY <3>1, <2>1, WeightSplits
    <3> QED BY <3>2 DEF SplitsAt
  <2> QED BY <2>2 DEF rest
<1>8. z.bytes = Weight(LenOf, d)
  <2>1. Total([i \in DOMAIN out |-> out[i].len]) = Weight(LenOf, out)
    <3> HIDE DEF out
    <3> QED BY <1>4, LensWeigh
  <2>2. Minus(Weight(LenOf, out) + Weight(LenOf, d), Weight(LenOf, out)) = Weight(LenOf, d)
    BY <1>7, MinusOfSum
  <2> QED BY <2>1, <2>2, <1>1, <1>3, <1>7
<1>9. z.usage \in UsageType
  <2> HIDE DEF out
  <2> QED BY <1>1, <1>3, <1>4, ReleaseEntriesMeter
<1>10. ASSUME NEW g \in Gauges
       PROVE  Meter(z.usage, g) = R[g] + Weight(OwedOf(held, g), d)
  <2> DEFINE w == OwedOf(held, g)
  <2>1. w \in [Entries -> Nat]
    BY OwedType
  <2>2. Meter(z.usage, g) = Minus(Meter(st.usage, g), Weight(w, out))
    <3> HIDE DEF out
    <3> QED BY <1>1, <1>3, <1>4, ReleaseEntriesMeter
  <2>3. Meter(st.usage, g) = R[g] + Weight(w, c)
    BY DEF Keeps, c
  <2> HIDE DEF w
  <2>4. Weight(w, c) = Weight(w, out) + Weight(w, d)
        /\ Weight(w, out) \in Nat /\ Weight(w, d) \in Nat
    <3>1. /\ Weight(w, c) = Weight(w, Subsequence(c, gone)) + Weight(w, Subsequence(c, DOMAIN c \ gone))
          /\ Weight(w, Subsequence(c, gone)) \in Nat /\ Weight(w, Subsequence(c, DOMAIN c \ gone)) \in Nat
      <4>1. c \in Seq(Entries) /\ gone \in SUBSET DOMAIN c
        BY <1>1
      <4>2. SplitsAt(w, c, gone)
        <5> HIDE DEF out, d
        <5> QED BY <4>1, <2>1, WeightSplits
      <4> QED BY <4>2 DEF SplitsAt
    <3> QED BY <3>1 DEF rest
  <2>5. R[g] \in Nat
    OBVIOUS
  <2> HIDE DEF out, d
  <2>6. Meter(z.usage, g) = R[g] + Weight(w, d)
    BY <2>2, <2>3, <2>4, <2>5 DEF Minus
  <2> QED BY <2>6 DEF w
<1> HIDE DEF out, d
<1>11. Keeps(z, R)
  BY <1>3, <1>5, <1>8, <1>9, <1>10 DEF Keeps
<1>12. \A i \in DOMAIN d : \E j \in DOMAIN c : d[i] = c[j]
  BY <1>1, <1>5
<1>13. Present(d, key) = Present(c, key) /\ OldLen(d, key) = OldLen(c, key)
  <2>1. /\ \A i \in DOMAIN c : c[i].key = key => OldLen(c, key) = c[i].len
        /\ Present(c, key) = 0 => OldLen(c, key) = 0
    BY <1>1, OthersSplit
  <2>2. /\ \A i \in DOMAIN d : d[i].key = key => OldLen(d, key) = d[i].len
        /\ Present(d, key) = 0 => OldLen(d, key) = 0
    BY <1>5, OthersSplit
  <2>3. CASE \E i \in DOMAIN c : c[i].key = key
    <3>1. PICK i \in DOMAIN c : c[i].key = key
      BY <2>3
    <3>2. PICK j \in DOMAIN d : d[j] = c[i]
      BY <3>1, <1>2, <1>5
    <3>3. OldLen(c, key) = c[i].len /\ OldLen(d, key) = d[j].len
      BY <2>1, <2>2, <3>1, <3>2
    <3>4. Present(c, key) = 1 /\ Present(d, key) = 1
      BY <3>1, <3>2 DEF Present
    <3> QED BY <3>2, <3>3, <3>4
  <2>4. CASE ~\E i \in DOMAIN c : c[i].key = key
    <3>1. ~\E i \in DOMAIN d : d[i].key = key
      BY <2>4, <1>12
    <3>2. Present(c, key) = 0 /\ Present(d, key) = 0
      BY <2>4, <3>1 DEF Present
    <3> QED BY <3>2, <2>1, <2>2
  <2> QED BY <2>3, <2>4
<1>14. Weight(LenOf, d) <= Weight(LenOf, c)
  <2>1. \A a, b \in Nat : b <= a + b
    OBVIOUS
  <2> QED BY <2>1, <1>7
<1>15. Culled(z.cache, st.cache, key)
  BY <1>3, <1>6, <1>12, <1>13, <1>14 DEF Culled, c
<1> QED BY <1>11, <1>15 DEF z

\* Room for an entry of this length, once the one it replaces is gone.
Roomy(st, key, len) ==
    /\ (Len(st.cache) - Present(st.cache, key)) + 1 <= CacheCount
    /\ (st.bytes - OldLen(st.cache, key)) + len <= CacheBytes

LEMMA FitsIsRoomy ==
    ASSUME NEW R, NEW st, Keeps(st, R), NEW key, NEW len \in Nat
    PROVE  Fits(st, key, len) <=> Roomy(st, key, len)
<1> DEFINE c == st.cache
           o == Cardinality(Others(c, key))
           p == Present(c, key)
           l == OldLen(c, key)
           w == Weight(LenOf, Subsequence(c, Others(c, key)))
<1>1. c \in Seq(Entries) /\ Apart(c) /\ st.bytes = Weight(LenOf, c)
  BY DEF Keeps
<1> HIDE DEF c
<1>2. o \in Nat /\ p \in Nat /\ l \in Nat /\ w \in Nat /\ o + p = Len(c) /\ Weight(LenOf, c) = w + l
  BY <1>1, OthersSplit
<1>3. Fits(st, key, len) <=> o + 1 <= CacheCount /\ Minus(st.bytes, l) + len <= CacheBytes
  BY DEF Fits, c
<1>4. Roomy(st, key, len) <=> (Len(c) - p) + 1 <= CacheCount /\ (st.bytes - l) + len <= CacheBytes
  BY DEF Roomy, c
<1> HIDE DEF o, p, l, w
<1>5. Minus(w + l, l) = w /\ (w + l) - l = w /\ Len(c) - p = o
  <2>1. (o + p) - p = o
    BY <1>2
  <2> QED BY <2>1, <1>2, MinusOfSum
<1> QED BY <1>1, <1>2, <1>3, <1>4, <1>5

LEMMA CulledRoomy ==
    ASSUME NEW R, NEW st, Keeps(st, R), NEW z, Keeps(z, R), NEW key, Culled(z.cache, st.cache, key),
           NEW len \in Nat, Roomy(st, key, len)
    PROVE  Roomy(z, key, len)
<1>1. /\ Present(st.cache, key) \in Nat /\ OldLen(st.cache, key) \in Nat /\ Len(st.cache) \in Nat
      /\ Weight(LenOf, st.cache) \in Nat /\ st.bytes = Weight(LenOf, st.cache)
  BY OthersSplit, LensWeigh DEF Keeps
<1>2. Len(z.cache) \in Nat /\ Weight(LenOf, z.cache) \in Nat /\ z.bytes = Weight(LenOf, z.cache)
  BY OthersSplit, LensWeigh DEF Keeps
<1>3. /\ Present(z.cache, key) = Present(st.cache, key) /\ OldLen(z.cache, key) = OldLen(st.cache, key)
      /\ Len(z.cache) <= Len(st.cache) /\ Weight(LenOf, z.cache) <= Weight(LenOf, st.cache)
  BY DEF Culled
<1>4. CacheCount \in Nat /\ CacheBytes \in Nat
  BY ResourcesAssumption
<1>5. (Len(st.cache) - Present(st.cache, key)) + 1 <= CacheCount
      /\ (st.bytes - OldLen(st.cache, key)) + len <= CacheBytes
  BY DEF Roomy
<1>6. /\ \A n, m, p, b \in Nat : m <= n /\ (n - p) + 1 <= b => (m - p) + 1 <= b
      /\ \A n, m, l, a, b \in Nat : m <= n /\ (n - l) + a <= b => (m - l) + a <= b
  OBVIOUS
<1>7. (Len(z.cache) - Present(st.cache, key)) + 1 <= CacheCount
  BY <1>1, <1>2, <1>3, <1>4, <1>5, <1>6
<1>8. (z.bytes - OldLen(st.cache, key)) + len <= CacheBytes
  <2>1. z.bytes \in Nat /\ st.bytes \in Nat /\ z.bytes <= st.bytes
    BY <1>1, <1>2, <1>3
  <2> QED BY <2>1, <1>1, <1>4, <1>5, <1>6
<1> QED BY <1>3, <1>7, <1>8 DEF Roomy

\* The first loop ends with room for the new entry.
LEMMA RoomMade ==
    ASSUME NEW R \in [Gauges -> Nat], NEW st, Keeps(st, R), NEW key,
           NEW len \in Nat, len <= CacheBytes
    PROVE  /\ Keeps(MakeRoom(st, key, len), R) /\ Culled(MakeRoom(st, key, len).cache, st.cache, key)
           /\ Roomy(MakeRoom(st, key, len), key, len)
<1> DEFINE c == st.cache
           I == Others(c, key)
           n == Cardinality(I)
           K == {k \in Evictions(st, key) : Fits(Dropped(st, key, k), key, len)}
           all == Dropped(st, key, n)
<1>1. c \in Seq(Entries) /\ Apart(c)
  BY DEF Keeps
<1> HIDE DEF c, I
<1>2. I \in SUBSET DOMAIN c /\ IsFiniteSet(I) /\ n \in Nat
  BY <1>1, OthersSplit DEF I
<1>3. Evictions(st, key) = 0..n
  BY DEF Evictions, I, c
<1>4. Keeps(all, R)
  BY DroppedKeeps
<1> DEFINE d == all.cache
<1>5. d \in Seq(Entries) /\ Apart(d) /\ all.bytes = Weight(LenOf, d)
  BY <1>4 DEF Keeps
<1>6. \A i \in DOMAIN d : d[i].key = key
  <2> DEFINE gone == {i \in DOMAIN c : Goes(c, key, n, i)}
             rest == DOMAIN c \ gone
  <2>1. d = Subsequence(c, rest)
    BY DEF Dropped, c
  <2>2. I \in SUBSET gone
    <3>1. ASSUME NEW i \in I PROVE Goes(c, key, n, i)
      <4> DEFINE B == {j \in I : j <= i}
      <4>1. B \in SUBSET I
        OBVIOUS
      <4> HIDE DEF B, n
      <4>2. Cardinality(B) <= Cardinality(I)
        BY <4>1, <1>2, FS_Subset
      <4> QED BY <4>2 DEF Goes, I, n, B
    <3> QED BY <3>1, <1>2
  <2>3. rest \in SUBSET DOMAIN c /\ \A j \in rest : c[j].key = key
    BY <2>2 DEF Others, I
  <2> HIDE DEF rest, d
  <2>4. \A i \in DOMAIN Subsequence(c, rest) : \E j \in rest : Subsequence(c, rest)[i] = c[j]
    BY <2>3, <1>1, SubsequenceApart
  <2> QED BY <2>1, <2>3, <2>4
<1>7. Fits(all, key, len)
  <2> DEFINE l == OldLen(d, key)
  <2>1. Others(d, key) = {}
    BY <1>6 DEF Others
  <2> HIDE DEF d
  <2>2. Cardinality(Others(d, key)) = 0
    BY <2>1, FS_EmptySet
  <2>3. l \in Nat /\ Weight(LenOf, d) = Weight(LenOf, Subsequence(d, Others(d, key))) + l
    BY <1>5, OthersSplit
  <2>4. Subsequence(d, Others(d, key)) = <<>>
    BY <2>2 DEF Subsequence
  <2>5. Weight(LenOf, d) = l
    <3>1. Weight(LenOf, Subsequence(d, Others(d, key))) = 0
      BY <2>4, WeightEmpty
    <3> HIDE DEF l
    <3> QED BY <3>1, <2>3
  <2>6. Minus(l, l) = 0
    BY <2>3 DEF Minus
  <2>7. 1 <= CacheCount
    BY ResourcesAssumption
  <2>8. Cardinality(Others(d, key)) + 1 <= CacheCount
    BY <2>2, <2>7
  <2>9. Minus(all.bytes, l) + len <= CacheBytes
    BY <1>5, <2>5, <2>6
  <2> QED BY <2>8, <2>9 DEF Fits, d
<1> HIDE DEF n, all
<1>8. n \in K
  BY <1>2, <1>3, <1>7 DEF all
<1>9. K \in SUBSET Nat
  BY <1>2, <1>3
<1>10. Min(K) \in K
  <2>1. Min(K) = CHOOSE x \in K : \A y \in K : x <= y
    BY DEF Min
  <2> HIDE DEF K
  <2>2. \E x \in K : \A y \in K : x <= y
    BY <1>8, <1>9, LeastNat
  <2> QED BY <2>1, <2>2
<1> DEFINE z == Dropped(st, key, Min(K))
<1>11. Keeps(z, R) /\ Culled(z.cache, st.cache, key)
  BY DroppedKeeps
<1>12. Fits(z, key, len)
  BY <1>10
<1>13. MakeRoom(st, key, len) = z
  BY DEF MakeRoom
<1> HIDE DEF z
<1>14. Roomy(z, key, len)
  BY <1>11, <1>12, FitsIsRoomy
<1> QED BY <1>11, <1>13, <1>14

\* All else leased, and the key of the entry to come.
WithKey(R) == [g \in Gauges |-> R[g] + Amount(KeyLease, g)]

LEMMA WithKeyType ==
    ASSUME NEW R \in [Gauges -> Nat]
    PROVE  WithKey(R) \in [Gauges -> Nat]
           /\ \A g \in Gauges : /\ WithKey(R)[g] = R[g] + Amount(KeyLease, g)
                                /\ R[g] \in Nat /\ Amount(KeyLease, g) \in Nat
<1>1. KeyLease \in Leases
  BY InsertLeases
<1>2. \A g \in Gauges : Amount(KeyLease, g) \in Nat
  BY <1>1, MeterType
<1> QED BY <1>2 DEF WithKey

\* Whether entries hold clones is a matter of their numbers.
LEMMA OwedFresh ==
    ASSUME NEW e \in Entries, \A h \in held : h.rid # e.rid, NEW g \in Gauges
    PROVE  OwedOf(held, g)[e] = Amount(e.keyLease, g) + Amount(e.lease, g)
           /\ Amount(e.keyLease, g) \in Nat /\ Amount(e.lease, g) \in Nat
<1>1. e.keyLease \in Leases /\ e.lease \in Leases
  BY DEF Entries
<1> HIDE DEF Entries
<1>2. Amount(e.keyLease, g) \in Nat /\ Amount(e.lease, g) \in Nat
  BY <1>1, MeterType
<1>3. ~\E h \in held : h.rid = e.rid
  OBVIOUS
<1> QED BY <1>2, <1>3, OwedType DEF Owed

LEMMA InsertedKeeps ==
    ASSUME NEW R \in [Gauges -> Nat], NEW st, Keeps(st, WithKey(R)), NEW key \in Keys, NEW len \in Nat,
           Roomy(st, key, len), NEW lease \in Leases,
           cache \in Seq(Entries), held \subseteq Clones, IsFiniteSet(held),
           \A i \in DOMAIN st.cache : \E j \in DOMAIN cache : st.cache[i] = cache[j]
    PROVE  LET in == Inserted(st, key, len, lease, KeyLease)
           IN  /\ Keeps(in, R) /\ Len(in.cache) <= CacheCount /\ in.bytes <= CacheBytes
               /\ in.cache # <<>>
               /\ Last(in.cache).rid = NextRid
               /\ \A i \in DOMAIN in.cache :
                    in.cache[i].rid = NextRid \/ \E j \in DOMAIN cache : in.cache[i] = cache[j]
<1> DEFINE c == st.cache
           I == Others(c, key)
           kept == Subsequence(c, I)
           old == Subsequence(c, DOMAIN c \ I)
           new == [key |-> key, len |-> len, lease |-> lease, keyLease |-> KeyLease, rid |-> NextRid]
           in == Inserted(st, key, len, lease, KeyLease)
           d == Append(kept, new)
           n == Cardinality(I)
<1>1. c \in Seq(Entries) /\ Apart(c) /\ st.usage \in UsageType /\ st.bytes = Weight(LenOf, c)
  BY DEF Keeps
<1>2. NextRid \in Nat /\ (\A i \in DOMAIN c : c[i].rid # NextRid) /\ \A h \in held : h.rid # NextRid
  BY NextRidFresh
<1>3. KeyLease \in Leases
  BY InsertLeases
<1>4. new \in Entries /\ new.key = key /\ new.len = len /\ new.lease = lease
      /\ new.keyLease = KeyLease /\ new.rid = NextRid
  BY <1>2, <1>3 DEF Entries
<1>5. in.cache = d /\ in.bytes = Minus(st.bytes, OldLen(c, key)) + len
      /\ in.usage = ReleaseEntries(Reserve(st.usage, lease), old)
  BY DEF Inserted, With, Ousted
<1>6. I \in SUBSET DOMAIN c /\ \A i \in I : c[i].key # key
  BY DEF Others
<1>7. /\ n \in Nat /\ Present(c, key) \in Nat /\ OldLen(c, key) \in Nat
      /\ n + Present(c, key) = Len(c) /\ Weight(LenOf, c) = Weight(LenOf, kept) + OldLen(c, key)
      /\ Weight(LenOf, kept) \in Nat
  BY <1>1, OthersSplit
<1> HIDE DEF c, I, in, new, Entries, LenOf
<1>8. /\ Apart(kept) /\ kept \in Seq(Entries)
      /\ \A i \in DOMAIN kept : \E j \in I : kept[i] = c[j]
  BY <1>1, <1>6, SubsequenceApart
<1>9. Len(kept) = n /\ DOMAIN kept = 1..n
  BY <1>1, <1>6, SubsequenceProperties
<1>10. old \in Seq(Entries)
  <2>1. DOMAIN c \ I \in SUBSET DOMAIN c
    OBVIOUS
  <2> QED BY <2>1, <1>1, SubsequenceProperties
<1> HIDE DEF kept, old, n
<1>11. d \in Seq(Entries) /\ Len(d) = n + 1 /\ DOMAIN d = 1..(n + 1) /\ d[n + 1] = new
       /\ \A i \in 1..n : d[i] = kept[i]
  <2>1. d \in Seq(Entries) /\ Len(d) = n + 1 /\ d[n + 1] = new /\ \A i \in 1..n : d[i] = kept[i]
    BY <1>4, <1>8, <1>9, <1>7, AppendProperties
  <2> HIDE DEF d
  <2> QED BY <2>1
<1> HIDE DEF d
<1>12. \A i \in 1..(n + 1) : i = n + 1 \/ i \in 1..n
  BY <1>7
<1>13. \A i \in 1..n : \E j \in I : d[i] = c[j]
  BY SMTT(30), <1>8, <1>9, <1>11
<1>14. \A i \in 1..n : d[i].key # key /\ d[i].rid # NextRid
  BY <1>2, <1>6, <1>13
<1>15. Apart(d)
  <2>1. ASSUME NEW i \in DOMAIN d, NEW j \in DOMAIN d, d[i].key = d[j].key \/ d[i].rid = d[j].rid
        PROVE  i = j
    <3>1. CASE i \in 1..n /\ j \in 1..n
      BY <2>1, <3>1, <1>8, <1>9, <1>11 DEF Apart
    <3>2. CASE i = n + 1 /\ j \in 1..n
      BY <2>1, <3>2, <1>4, <1>11, <1>14
    <3>3. CASE i \in 1..n /\ j = n + 1
      BY <2>1, <3>3, <1>4, <1>11, <1>14
    <3>4. CASE i = n + 1 /\ j = n + 1
      BY <3>4
    <3> QED BY <3>1, <3>2, <3>3, <3>4, <1>11, <1>12
  <2> QED BY <2>1 DEF Apart
<1>16. Weight(LenOf, d) = Weight(LenOf, kept) + len
  <2>1. LenOf \in [Entries -> Nat] /\ LenOf[new] = len
    BY <1>4, LenOfType
  <2>2. Weight(LenOf, Append(kept, new)) = Weight(LenOf, kept) + LenOf[new]
    BY <2>1, <1>4, <1>8, WeightAppend
  <2> QED BY <2>1, <2>2 DEF d
<1>17. Minus(Weight(LenOf, kept) + OldLen(c, key), OldLen(c, key)) = Weight(LenOf, kept)
  BY <1>7, MinusOfSum
<1>18. in.bytes = Weight(LenOf, d)
  BY <1>1, <1>5, <1>7, <1>16, <1>17
<1>19. Len(d) <= CacheCount /\ in.bytes <= CacheBytes
  <2>1. (Len(c) - Present(c, key)) + 1 <= CacheCount /\ (st.bytes - OldLen(c, key)) + len <= CacheBytes
    BY DEF Roomy, c
  <2>2. Len(c) - Present(c, key) = n
    <3>1. (n + Present(c, key)) - Present(c, key) = n
      BY <1>7
    <3> QED BY <3>1, <1>7
  <2>3. st.bytes - OldLen(c, key) = Weight(LenOf, kept)
    <3>1. (Weight(LenOf, kept) + OldLen(c, key)) - OldLen(c, key) = Weight(LenOf, kept)
      BY <1>7
    <3> QED BY <3>1, <1>1, <1>7
  <2> QED BY <2>1, <2>2, <2>3, <1>11, <1>16, <1>18
<1>20. Reserve(st.usage, lease) \in UsageType
  BY <1>1, ReserveMeter
<1>21. in.usage \in UsageType
  BY <1>5, <1>10, <1>20, ReleaseEntriesMeter
<1>22. ASSUME NEW g \in Gauges
       PROVE  Meter(in.usage, g) = R[g] + Weight(OwedOf(held, g), d)
  <2> DEFINE w == OwedOf(held, g)
             u == Reserve(st.usage, lease)
  <2>1. w \in [Entries -> Nat]
    BY OwedType
  <2>2. Meter(in.usage, g) = Minus(Meter(u, g), Weight(w, old))
    BY <1>5, <1>10, <1>20, ReleaseEntriesMeter
  <2>3. Meter(u, g) = Meter(st.usage, g) + Amount(lease, g)
    BY <1>1, ReserveMeter
  <2>4. Meter(st.usage, g) = WithKey(R)[g] + Weight(w, c)
    BY DEF Keeps, c
  <2>5. WithKey(R)[g] = R[g] + Amount(KeyLease, g) /\ R[g] \in Nat /\ Amount(KeyLease, g) \in Nat
    BY WithKeyType
  <2>6. w[new] = Amount(KeyLease, g) + Amount(lease, g) /\ Amount(lease, g) \in Nat
    <3>1. \A h \in held : h.rid # new.rid
      BY <1>2, <1>4
    <3>2. OwedOf(held, g)[new] = Amount(new.keyLease, g) + Amount(new.lease, g)
          /\ Amount(new.lease, g) \in Nat
      BY <3>1, <1>4, OwedFresh
    <3> QED BY <3>2, <1>4
  <2> HIDE DEF w, u
  <2>7. Weight(w, d) = Weight(w, kept) + w[new]
    <3>1. Weight(w, Append(kept, new)) = Weight(w, kept) + w[new]
      BY <2>1, <1>4, <1>8, WeightAppend
    <3> QED BY <3>1 DEF d
  <2>8. Weight(w, c) = Weight(w, kept) + Weight(w, old)
        /\ Weight(w, kept) \in Nat /\ Weight(w, old) \in Nat
    <3>1. SplitsAt(w, c, I)
      BY <2>1, <1>1, <1>6, WeightSplits
    <3> QED BY <3>1 DEF SplitsAt, kept, old
  <2>9. Meter(in.usage, g) = R[g] + Weight(w, d)
    <3> DEFINE k == Amount(KeyLease, g)
               l == Amount(lease, g)
               a == Weight(w, kept)
               b == Weight(w, old)
               r == R[g]
    <3>1. Meter(in.usage, g) = Minus(((r + k) + (a + b)) + l, b) /\ Weight(w, d) = a + (k + l)
      BY <2>2, <2>3, <2>4, <2>5, <2>6, <2>7, <2>8
    <3>2. r \in Nat /\ k \in Nat /\ l \in Nat /\ a \in Nat /\ b \in Nat
      BY <2>5, <2>6, <2>8
    <3> HIDE DEF r, k, l, a, b
    <3>3. Minus(((r + k) + (a + b)) + l, b) = r + (a + (k + l))
      BY <3>2 DEF Minus
    <3> QED BY <3>1, <3>3 DEF r
  <2> QED BY <2>9 DEF w
<1>23. Keeps(in, R)
  BY <1>5, <1>11, <1>15, <1>18, <1>21, <1>22 DEF Keeps
<1>24. d # <<>> /\ Last(d).rid = NextRid
  BY <1>4, <1>7, <1>11 DEF Last
<1>25. ASSUME NEW i \in DOMAIN d
       PROVE  d[i].rid = NextRid \/ \E j \in DOMAIN cache : d[i] = cache[j]
  <2>1. CASE i = n + 1
    BY <2>1, <1>4, <1>11
  <2>2. CASE i \in 1..n
    <3>1. PICK j \in I : d[i] = c[j]
      BY <2>2, <1>13
    <3> QED BY <3>1, <1>6 DEF c
  <2> QED BY <2>1, <2>2, <1>11, <1>12
<1> QED BY <1>5, <1>19, <1>23, <1>24, <1>25 DEF in

\* A shorter cache is within the bounds its original was within.
LEMMA CulledBounded ==
    ASSUME NEW R, NEW st, Keeps(st, R), NEW z, Keeps(z, R), NEW key, Culled(z.cache, st.cache, key),
           st.bytes <= CacheBytes, Len(st.cache) <= CacheCount
    PROVE  z.bytes <= CacheBytes /\ Len(z.cache) <= CacheCount
<1>1. st.cache \in Seq(Entries) /\ z.cache \in Seq(Entries)
  BY DEF Keeps
<1>2. Len(st.cache) \in Nat /\ Len(z.cache) \in Nat
      /\ Weight(LenOf, st.cache) \in Nat /\ Weight(LenOf, z.cache) \in Nat
  <2>1. Weight(LenOf, st.cache) \in Nat /\ Weight(LenOf, z.cache) \in Nat
    BY <1>1, LensWeigh
  <2> HIDE DEF Entries
  <2> QED BY <1>1, <2>1
<1>3. st.bytes = Weight(LenOf, st.cache) /\ z.bytes = Weight(LenOf, z.cache)
  BY DEF Keeps
<1>4. Len(z.cache) <= Len(st.cache) /\ Weight(LenOf, z.cache) <= Weight(LenOf, st.cache)
  BY DEF Culled
<1>5. CacheBytes \in Nat /\ CacheCount \in Nat
  BY ResourcesAssumption
<1>6. \A a, b, x \in Nat : a <= b /\ b <= x => a <= x
  OBVIOUS
<1> QED BY <1>2, <1>3, <1>4, <1>5, <1>6

\* insert, every branch of it: the books are exact and the cache in its bounds.
LEMMA InsertExact ==
    ASSUME NEW R \in [Gauges -> Nat], NEW now, Keeps(now, R),
           now = [cache |-> cache, bytes |-> cacheBytes, usage |-> usage],
           held \subseteq Clones, IsFiniteSet(held),
           cacheBytes <= CacheBytes, Len(cache) <= CacheCount,
           NEW key \in Keys, NEW len \in Nat, NEW cap \in Nat
    PROVE  LET r == Insert(key, len, cap)
           IN  /\ Keeps(r, R) /\ Len(r.cache) <= CacheCount /\ r.bytes <= CacheBytes
               /\ r.ok => r.cache # <<>> /\ Last(r.cache).rid = NextRid
               /\ \A i \in DOMAIN r.cache :
                    r.cache[i].rid = NextRid \/ \E j \in DOMAIN cache : r.cache[i] = cache[j]
<1> DEFINE lease == Lease("ResourceCache", cap, cap + ArcCost)
           keyed == [cache |-> cache, bytes |-> cacheBytes, usage |-> Reserve(usage, KeyLease)]
           st == MakeRoom(keyed, key, len)
           ks == AdmittedAfter(st, key, lease)
           all == Dropped(st, key, Max(Evictions(st, key)))
           room == Dropped(st, key, Min(ks))
           in == Inserted(room, key, len, lease, KeyLease)
           r == Insert(key, len, cap)
           Q == WithKey(R)
<1>1. lease \in Leases /\ KeyLease \in Leases
  BY InsertLeases
<1>2. r = IF len > CacheBytes \/ ~Admits(usage, KeyLease)
          THEN [cache |-> cache, bytes |-> cacheBytes, usage |-> usage, ok |-> FALSE]
          ELSE IF ks = {}
          THEN [cache |-> all.cache, bytes |-> all.bytes, ok |-> FALSE,
                usage |-> Release(all.usage, KeyLease)]
          ELSE [cache |-> in.cache, bytes |-> in.bytes, usage |-> in.usage, ok |-> TRUE]
  BY DEF Insert
<1>3. /\ cache \in Seq(Entries) /\ usage \in UsageType /\ Apart(cache)
      /\ cacheBytes = Weight(LenOf, cache)
      /\ \A g \in Gauges : Meter(usage, g) = R[g] + Weight(OwedOf(held, g), cache)
  BY DEF Keeps
<1>4. CacheBytes \in Nat
  BY ResourcesAssumption
<1> HIDE DEF r, lease, Entries, LenOf
<1>5. CASE len > CacheBytes \/ ~Admits(usage, KeyLease)
  <2>1. r.cache = cache /\ r.bytes = cacheBytes /\ r.usage = usage /\ r.ok = FALSE
    BY <1>2, <1>5
  <2>2. Keeps(r, R)
    BY <2>1, <1>3 DEF Keeps
  <2> QED BY <2>1, <2>2 DEF r
<1>6. CASE ~(len > CacheBytes \/ ~Admits(usage, KeyLease))
  <2>0. len <= CacheBytes
    BY <1>4, <1>6
  <2>1. Q \in [Gauges -> Nat]
    BY WithKeyType
  <2>2. keyed.cache = cache /\ keyed.bytes = cacheBytes /\ keyed.usage = Reserve(usage, KeyLease)
    OBVIOUS
  <2> HIDE DEF keyed
  <2>3. Keeps(keyed, Q)
    <3>1. keyed.usage \in UsageType
      BY <2>2, <1>1, <1>3, ReserveMeter
    <3>2. ASSUME NEW g \in Gauges
          PROVE  Meter(keyed.usage, g) = Q[g] + Weight(OwedOf(held, g), cache)
      <4>1. Meter(keyed.usage, g) = Meter(usage, g) + Amount(KeyLease, g)
        BY <2>2, <1>1, <1>3, ReserveMeter
      <4>2. Q[g] = R[g] + Amount(KeyLease, g) /\ R[g] \in Nat /\ Amount(KeyLease, g) \in Nat
        BY WithKeyType
      <4>3. Weight(OwedOf(held, g), cache) \in Nat
        <5>1. OwedOf(held, g) \in [Entries -> Nat]
          BY OwedType
        <5> QED BY <5>1, <1>3, WeighType
      <4>4. \A a, b, c \in Nat : (a + b) + c = (a + c) + b
        OBVIOUS
      <4> QED BY <4>1, <4>2, <4>3, <4>4, <1>3
    <3> HIDE DEF Q
    <3> QED BY <3>1, <3>2, <2>2, <1>3 DEF Keeps
  <2> HIDE DEF Q
  <2>4. Keeps(st, Q) /\ Culled(st.cache, cache, key) /\ Roomy(st, key, len)
    BY <2>0, <2>1, <2>2, <2>3, RoomMade
  <2> HIDE DEF st
  <2>5. Keeps(all, Q) /\ Culled(all.cache, st.cache, key) /\ Keeps(room, Q) /\ Culled(room.cache, st.cache, key)
    BY <2>1, <2>4, DroppedKeeps
  <2> HIDE DEF all
  <2>6. CASE ks = {}
    <3>1. r.cache = all.cache /\ r.bytes = all.bytes /\ r.usage = Release(all.usage, KeyLease) /\ r.ok = FALSE
      BY <1>2, <1>6, <2>6
    <3>2. all.cache \in Seq(Entries) /\ all.usage \in UsageType /\ Apart(all.cache)
          /\ all.bytes = Weight(LenOf, all.cache)
          /\ \A g \in Gauges : Meter(all.usage, g) = Q[g] + Weight(OwedOf(held, g), all.cache)
      BY <2>5 DEF Keeps
    <3>3. Release(all.usage, KeyLease) \in UsageType
      BY <3>2, <1>1, ReleaseMeter
    <3>4. ASSUME NEW g \in Gauges
          PROVE  Meter(Release(all.usage, KeyLease), g) = R[g] + Weight(OwedOf(held, g), all.cache)
      <4> DEFINE a == Weight(OwedOf(held, g), all.cache)
                 k == Amount(KeyLease, g)
                 x == R[g]
      <4>1. Meter(Release(all.usage, KeyLease), g) = Minus(Meter(all.usage, g), k)
        BY <3>2, <1>1, ReleaseMeter
      <4>2. Q[g] = x + k /\ x \in Nat /\ k \in Nat
        BY WithKeyType DEF Q
      <4>3. a \in Nat
        <5>1. OwedOf(held, g) \in [Entries -> Nat]
          BY OwedType
        <5> QED BY <5>1, <3>2, WeighType
      <4>4. Meter(all.usage, g) = Q[g] + a
        BY <3>2
      <4> HIDE DEF a, k, x
      <4>5. Minus((x + k) + a, k) = x + a
        BY <4>2, <4>3 DEF Minus
      <4>6. Meter(Release(all.usage, KeyLease), g) = x + a
        BY <4>1, <4>2, <4>4, <4>5
      <4> QED BY <4>6 DEF x, a
    <3>5. Keeps(r, R)
      BY <3>1, <3>2, <3>3, <3>4 DEF Keeps
    <3>6. st.bytes <= CacheBytes /\ Len(st.cache) <= CacheCount
      BY <2>2, <2>3, <2>4, CulledBounded
    <3>7. all.bytes <= CacheBytes /\ Len(all.cache) <= CacheCount
      BY <2>4, <2>5, <3>6, CulledBounded
    <3>8. \A i \in DOMAIN all.cache : \E j \in DOMAIN cache : all.cache[i] = cache[j]
      BY <2>4, <2>5 DEF Culled
    <3> QED BY <3>1, <3>5, <3>7, <3>8 DEF r
  <2>7. CASE ks # {}
    <3>1. r.cache = in.cache /\ r.bytes = in.bytes /\ r.usage = in.usage
      BY <1>2, <1>6, <2>7
    <3> HIDE DEF room, ks
    <3>2. \A i \in DOMAIN room.cache : \E j \in DOMAIN cache : room.cache[i] = cache[j]
      BY <2>4, <2>5 DEF Culled
    <3>3. Roomy(room, key, len)
      BY <2>4, <2>5, CulledRoomy
    <3>4. Keeps(room, WithKey(R))
      BY <2>5 DEF Q
    <3>5. /\ Keeps(in, R) /\ Len(in.cache) <= CacheCount /\ in.bytes <= CacheBytes
          /\ in.cache # <<>>
          /\ Last(in.cache).rid = NextRid
          /\ \A i \in DOMAIN in.cache :
               in.cache[i].rid = NextRid \/ \E j \in DOMAIN cache : in.cache[i] = cache[j]
      BY <3>2, <3>3, <3>4, <1>1, <1>3, InsertedKeeps
    <3> HIDE DEF in
    <3>6. Keeps(r, R)
      BY <3>1, <3>5 DEF Keeps
    <3> QED BY <3>1, <3>5, <3>6 DEF r
  <2> QED BY <2>6, <2>7
<1> QED BY <1>5, <1>6

-----------------------------------------------------------------------------
(* Shared bytes: one lease for them, whoever owns them.                    *)

Shared(c, hs) ==
    /\ Apart(c)
    /\ \A i \in DOMAIN c : \A h \in hs : h.rid = c[i].rid => h = Clone(c[i])
    /\ \A h, k \in hs : h.rid = k.rid => h = k

\* A clone handed out takes the lease over from the entry: together they
\* stand for as much as before.
LEMMA HoldOne ==
    ASSUME NEW c \in Seq(Entries), Apart(c), NEW hs, LeasesIn(hs), NEW i \in DOMAIN c,
           \A h \in hs : h.rid = c[i].rid => h = Clone(c[i]),
           NEW g \in Gauges, NEW more, more = hs \cup {Clone(c[i])}
    PROVE  /\ LeasesIn(more)
           /\ Weight(OwedOf(more, g), c) + SetSum(more, g) = Weight(OwedOf(hs, g), c) + SetSum(hs, g)
           /\ Weight(OwedOf(more, g), c) \in Nat /\ SetSum(more, g) \in Nat
           /\ Weight(OwedOf(hs, g), c) \in Nat /\ SetSum(hs, g) \in Nat
<1> DEFINE e == Clone(c[i])
           w == OwedOf(hs, g)
           v == OwedOf(more, g)
           k == Amount(c[i].keyLease, g)
           l == Amount(c[i].lease, g)
<1>1. DOMAIN c = 1..Len(c) /\ Len(c) \in Nat /\ \A j \in 1..Len(c) : c[j] \in Entries
  <2> HIDE DEF Entries
  <2> QED OBVIOUS
<1>2. e.lease = c[i].lease /\ e.rid = c[i].rid /\ c[i].lease \in Leases /\ c[i].keyLease \in Leases
  <2>1. c[i] \in Entries
    BY <1>1
  <2> QED BY <2>1 DEF Clone, Entries
<1>3. l \in Nat /\ k \in Nat
  BY <1>2, MeterType
<1>4. w \in [Entries -> Nat] /\ (\A x \in Entries : w[x] = Owed(hs, x, g))
      /\ v \in [Entries -> Nat] /\ \A x \in Entries : v[x] = Owed(more, x, g)
  BY OwedType
<1> HIDE DEF e, w, v, k, l, Entries
<1>5. LeasesIn(more) /\ SetSum(hs, g) \in Nat
      /\ SetSum(more, g) = SetSum(hs, g) + IF e \in hs THEN 0 ELSE l
  <2>1. LeasesIn(hs \cup {e}) /\ SetSum(hs, g) \in Nat
        /\ SetSum(hs \cup {e}, g) = SetSum(hs, g) + IF e \in hs THEN 0 ELSE Amount(e.lease, g)
    <3>1. e.lease \in Leases
      BY <1>2
    <3>2. AddsOne(hs, e, g)
      BY <3>1, SetSumAdds
    <3> QED BY <3>2 DEF AddsOne
  <2>2. more = hs \cup {e} /\ Amount(e.lease, g) = l
    BY <1>2 DEF e, l
  <2> QED BY <2>1, <2>2
<1>6. Weight(w, c) \in Nat /\ Weight(v, c) \in Nat
  BY <1>4, WeighType
<1>7. CASE e \in hs
  <2>1. more = hs
    BY <1>7 DEF e
  <2> QED BY <2>1, <1>5, <1>6 DEF w, v
<1>8. CASE e \notin hs
  <2>1. ~(\E h \in hs : h.rid = c[i].rid) /\ \E h \in more : h.rid = c[i].rid
    BY <1>2, <1>8 DEF e
  <2>2. w[c[i]] = k + l /\ v[c[i]] = k
    <3>1. c[i] \in Entries
      BY <1>1
    <3>2. w[c[i]] = Owed(hs, c[i], g) /\ v[c[i]] = Owed(more, c[i], g)
      BY <3>1, <1>4
    <3>3. Owed(hs, c[i], g) = k + l
      BY <2>1 DEF Owed, k, l
    <3>4. Owed(more, c[i], g) = k + 0
      BY <2>1 DEF Owed, k
    <3> QED BY <3>2, <3>3, <3>4, <1>3
  <2>3. ASSUME NEW j \in 1..Len(c), j # i PROVE w[c[j]] = v[c[j]]
    <3>1. c[j] \in Entries /\ c[j].rid # c[i].rid
      BY <2>3, <1>1 DEF Apart
    <3>2. (\E h \in hs : h.rid = c[j].rid) <=> (\E h \in more : h.rid = c[j].rid)
      BY <3>1, <1>2 DEF e
    <3>3. Owed(hs, c[j], g) = Owed(more, c[j], g)
      BY <3>2 DEF Owed
    <3> QED BY <3>1, <3>3, <1>4
  <2> DEFINE ns == Weigh(w, c)
             ms == Weigh(v, c)
  <2>4. ns \in Seq(Nat) /\ Len(ns) = Len(c) /\ \A j \in 1..Len(c) : ns[j] = w[c[j]]
    <3>1. IsWeighed(w, c)
      BY <1>4, WeighedAll
    <3> QED BY <3>1 DEF IsWeighed
  <2>5. ms \in Seq(Nat) /\ Len(ms) = Len(c) /\ \A j \in 1..Len(c) : ms[j] = v[c[j]]
    <3>1. IsWeighed(v, c)
      BY <1>4, WeighedAll
    <3> QED BY <3>1 DEF IsWeighed
  <2>6. Weight(w, c) = Total(ns) /\ Weight(v, c) = Total(ms)
    BY DEF Weight
  <2> HIDE DEF ns, ms
  <2>7. Total(ns) + ms[i] = Total(ms) + ns[i]
    <3>1. Len(ns) = Len(ms) /\ i \in 1..Len(ns) /\ \A j \in 1..Len(ns) : j # i => ns[j] = ms[j]
      BY <1>1, <2>3, <2>4, <2>5
    <3> QED BY <3>1, <2>4, <2>5, TotalChange
  <2>8. ns[i] = k + l /\ ms[i] = k
    BY <2>2, <2>4, <2>5, <1>1
  <2>9. Weight(w, c) + k = Weight(v, c) + (k + l)
    BY <2>6, <2>7, <2>8
  <2>10. Weight(v, c) + (SetSum(hs, g) + l) = Weight(w, c) + SetSum(hs, g)
    <3> DEFINE a == Weight(w, c)
               b == Weight(v, c)
               s == SetSum(hs, g)
    <3>1. a \in Nat /\ b \in Nat /\ s \in Nat /\ a + k = b + (k + l)
      BY <2>9, <1>5, <1>6
    <3> HIDE DEF a, b, s
    <3>2. b + (s + l) = a + s
      BY <3>1, <1>3
    <3> QED BY <3>2 DEF a, b, s
  <2>11. SetSum(more, g) = SetSum(hs, g) + l /\ SetSum(hs, g) + l \in Nat
    BY <1>3, <1>5, <1>8
  <2> QED BY <2>10, <2>11, <1>5, <1>6 DEF w, v
<1> QED BY <1>7, <1>8

\* And a clone of bytes the cache does not have is nothing to its entries.
LEMMA HoldNone ==
    ASSUME NEW c \in Seq(Entries), NEW hs, NEW more, NEW h, more = hs \cup {h},
           \A i \in DOMAIN c : c[i].rid # h.rid, NEW g \in Gauges
    PROVE  Weight(OwedOf(more, g), c) = Weight(OwedOf(hs, g), c)
<1> DEFINE w == OwedOf(hs, g)
           v == OwedOf(more, g)
<1>1. \A j \in DOMAIN c : c[j] \in Entries
  <2> HIDE DEF Entries
  <2> QED OBVIOUS
<1>2. (\A x \in Entries : w[x] = Owed(hs, x, g)) /\ \A x \in Entries : v[x] = Owed(more, x, g)
  BY OwedType
<1> HIDE DEF w, v, Entries
<1>3. ASSUME NEW j \in DOMAIN c PROVE w[c[j]] = v[c[j]]
  <2>1. (\E x \in hs : x.rid = c[j].rid) <=> (\E x \in more : x.rid = c[j].rid)
    OBVIOUS
  <2>2. Owed(hs, c[j], g) = Owed(more, c[j], g)
    BY <2>1 DEF Owed
  <2> QED BY <2>2, <1>1, <1>2
<1>4. Weigh(w, c) = Weigh(v, c)
  BY <1>3 DEF Weigh
<1> QED BY <1>4 DEF Weight, w, v

-----------------------------------------------------------------------------
(* What the queue of updates has leased.                                   *)

CostOf(g) == [u \in QueuedUpdates |-> Amount(u.lease, g)]

LEMMA CostType ==
    ASSUME NEW g \in Gauges
    PROVE  CostOf(g) \in [QueuedUpdates -> Nat]
           /\ \A u \in QueuedUpdates : CostOf(g)[u] = Amount(u.lease, g) /\ u.lease \in Leases
<1>1. \A u \in QueuedUpdates : u.lease \in Leases
  BY DEF QueuedUpdates
<1>2. \A u \in QueuedUpdates : Amount(u.lease, g) \in Nat
  <2> HIDE DEF QueuedUpdates
  <2> QED BY <1>1, MeterType
<1> QED BY <1>1, <1>2 DEF CostOf

LEMMA QueueSum ==
    ASSUME NEW q \in Seq(QueuedUpdates), NEW g \in Gauges
    PROVE  Sum(LeasesOf(q), g) = Weight(CostOf(g), q) /\ Weight(CostOf(g), q) \in Nat
           /\ LeasesOf(q) \in Seq(Leases)
<1>1. DOMAIN q = 1..Len(q) /\ \A i \in 1..Len(q) : q[i] \in QueuedUpdates
  <2> HIDE DEF QueuedUpdates
  <2> QED OBVIOUS
<1>2. LeasesOf(q) \in Seq(Leases)
  BY LeasesOfType
<1>3. LeasesOf(q) = [i \in DOMAIN q |-> q[i].lease] /\ DOMAIN LeasesOf(q) = DOMAIN q
  BY DEF LeasesOf
<1>4. \A i \in DOMAIN q : AmountOf(g)[LeasesOf(q)[i]] = CostOf(g)[q[i]]
  <2>1. ASSUME NEW i \in DOMAIN q PROVE AmountOf(g)[LeasesOf(q)[i]] = CostOf(g)[q[i]]
    <3>1. q[i] \in QueuedUpdates /\ q[i].lease \in Leases /\ CostOf(g)[q[i]] = Amount(q[i].lease, g)
      BY <1>1, CostType
    <3>2. LeasesOf(q)[i] = q[i].lease
      BY <1>3
    <3> QED BY <3>1, <3>2 DEF AmountOf
  <2> QED BY <2>1
<1>5. Weigh(AmountOf(g), LeasesOf(q)) = Weigh(CostOf(g), q)
  BY <1>3, <1>4 DEF Weigh
<1>6. Weight(CostOf(g), q) \in Nat
  <2>1. CostOf(g) \in [QueuedUpdates -> Nat]
    BY CostType
  <2> QED BY <2>1, WeighType
<1> QED BY <1>2, <1>5, <1>6 DEF Sum, Weight

LEMMA PopSum ==
    ASSUME NEW r \in Rings, r.len # 0, NEW g \in Gauges
    PROVE  /\ Weight(CostOf(g), Queued(r))
              = Weight(CostOf(g), Queued(pop_front(r))) + Amount(Front1(r).lease, g)
           /\ Weight(CostOf(g), Queued(pop_front(r))) \in Nat /\ Amount(Front1(r).lease, g) \in Nat
<1> DEFINE w == CostOf(g)
           q == Queued(r)
           u == Front1(r)
           p == pop_front(r)
           o == Omitting(q, 1)
<1>1. /\ u = q[1] /\ u \in QueuedUpdates /\ p \in Rings /\ p.len = r.len - 1
      /\ \A i \in 1..(r.len - 1) : Queued(p)[i] = q[i + 1]
  BY PopProperties
<1>2. q \in Seq(QueuedUpdates) /\ Len(q) = r.len /\ r.len \in Nat
  BY QueuedProperties
<1> HIDE DEF p
<1>3. Queued(p) \in Seq(QueuedUpdates) /\ Len(Queued(p)) = p.len
  BY <1>1, QueuedProperties
<1>4. w \in [QueuedUpdates -> Nat] /\ w[u] = Amount(u.lease, g) /\ w[u] \in Nat
  BY <1>1, CostType
<1> HIDE DEF w, q, u
<1>5. 1 \in 1..Len(q)
  BY <1>2
<1>6. o \in Seq(QueuedUpdates) /\ Len(o) = Len(q) - 1
      /\ \A k \in 1..Len(q) - 1 : o[k] = IF k < 1 THEN q[k] ELSE q[k + 1]
  BY <1>2, <1>5, OmittingType
<1> HIDE DEF o
<1>7. \A k \in 1..(r.len - 1) : o[k] = q[k + 1]
  BY <1>2, <1>6
<1>8. o = Queued(p)
  BY <1>1, <1>2, <1>3, <1>6, <1>7, SeqEqual
<1>9. Weight(w, q) = Weight(w, o) + w[q[1]] /\ Weight(w, o) \in Nat
  BY <1>2, <1>4, <1>5, WeightOmitting DEF o
<1> QED BY <1>1, <1>4, <1>8, <1>9 DEF w, q, u, p

LEMMA PushSum ==
    ASSUME NEW r \in Rings, NEW u \in QueuedUpdates, can_push(r, u.wire), NEW g \in Gauges
    PROVE  /\ Weight(CostOf(g), Queued(push_back(r, u)))
              = Weight(CostOf(g), Queued(r)) + Amount(u.lease, g)
           /\ Weight(CostOf(g), Queued(r)) \in Nat /\ Amount(u.lease, g) \in Nat
<1> DEFINE w == CostOf(g)
           q == Queued(r)
           b == push_back(r, u)
           a == Append(q, u)
<1>1. /\ b \in Rings /\ b.len = r.len + 1
      /\ (\A i \in 1..r.len : Queued(b)[i] = q[i]) /\ Queued(b)[r.len + 1] = u
  BY PushProperties
<1>2. q \in Seq(QueuedUpdates) /\ Len(q) = r.len /\ r.len \in Nat
  BY QueuedProperties
<1> HIDE DEF b
<1>3. Queued(b) \in Seq(QueuedUpdates) /\ Len(Queued(b)) = b.len
  BY <1>1, QueuedProperties
<1>4. w \in [QueuedUpdates -> Nat] /\ w[u] = Amount(u.lease, g) /\ w[u] \in Nat
  BY CostType
<1> HIDE DEF w, q
<1>5. a \in Seq(QueuedUpdates) /\ Len(a) = r.len + 1 /\ (\A i \in 1..r.len : a[i] = q[i])
      /\ a[r.len + 1] = u
  BY <1>2, AppendProperties
<1>6. Weight(w, a) = Weight(w, q) + w[u] /\ Weight(w, q) \in Nat
  BY <1>2, <1>4, WeightAppend, WeighType
<1> HIDE DEF a
<1>7. \A i \in 1..(r.len + 1) : i = r.len + 1 \/ i \in 1..r.len
  BY <1>2
<1>8. \A i \in 1..(r.len + 1) : Queued(b)[i] = a[i]
  BY <1>1, <1>5, <1>7
<1>9. a = Queued(b)
  BY <1>1, <1>3, <1>5, <1>8, SeqEqual
<1> QED BY <1>4, <1>6, <1>9 DEF w, q, b

\* Some of the queue popped: what is left and what was taken are all of it.
LEMMA RestSum ==
    ASSUME ring \in Rings, NEW n \in 0..ring.len, NEW g \in Gauges
    PROVE  LET q == Queued(ring)
           IN  /\ Weight(CostOf(g), q)
                  = Weight(CostOf(g), SubSeq(q, 1, n)) + Weight(CostOf(g), Queued(Rest(n)))
               /\ SubSeq(q, 1, n) \in Seq(QueuedUpdates)
               /\ Weight(CostOf(g), SubSeq(q, 1, n)) \in Nat /\ Weight(CostOf(g), Queued(Rest(n))) \in Nat
<1> DEFINE w == CostOf(g)
           q == Queued(ring)
           r == Rest(n)
           a == SubSeq(q, 1, n)
           b == SubSeq(q, n + 1, Len(q))
<1>1. r \in Rings /\ r.len = ring.len - n
      /\ \A i \in 1..(ring.len - n) : Queued(r)[i] = q[n + i]
  BY RestProperties
<1>2. q \in Seq(QueuedUpdates) /\ Len(q) = ring.len /\ ring.len \in Nat
  BY QueuedProperties
<1> HIDE DEF r, q
<1>3. Queued(r) \in Seq(QueuedUpdates) /\ Len(Queued(r)) = ring.len - n
  BY <1>1, QueuedProperties
<1>4. w \in [QueuedUpdates -> Nat]
  BY CostType
<1>5. a \in Seq(QueuedUpdates)
  <2>1. 1 \in Int /\ n \in Int /\ \A i \in 1..n : q[i] \in QueuedUpdates
    <3> HIDE DEF QueuedUpdates
    <3> QED BY <1>2
  <2> QED BY <2>1, SubSeqProperties
<1>6. b \in Seq(QueuedUpdates) /\ Len(b) = ring.len - n
      /\ \A i \in 1..(ring.len - n) : b[i] = q[n + i]
  <2> DEFINE m == Len(q)
  <2>1. n + 1 \in Int /\ m \in Int /\ \A i \in (n + 1)..m : q[i] \in QueuedUpdates
    <3> HIDE DEF QueuedUpdates
    <3> QED BY <1>2
  <2>2. m = ring.len
    BY <1>2
  <2> HIDE DEF m
  <2>3. b = SubSeq(q, n + 1, m)
    BY DEF m
  <2> HIDE DEF b
  <2>4. /\ b \in Seq(QueuedUpdates) /\ Len(b) = IF n + 1 <= m THEN m - (n + 1) + 1 ELSE 0
        /\ \A i \in 1..m - (n + 1) + 1 : b[i] = q[n + 1 + i - 1]
    BY <2>1, <2>3, SubSeqProperties
  <2>5. m - (n + 1) + 1 = ring.len - n /\ (n + 1 <= m \/ ring.len - n = 0)
    BY <2>2, <1>2
  <2>6. \A i \in 1..(ring.len - n) : n + 1 + i - 1 = n + i
    BY <1>2
  <2> QED BY <2>4, <2>5, <2>6
<1>7. a \o b = q
  <2>1. 1 \in 1..Len(q) + 1 /\ n \in 1 - 1..Len(q) /\ Len(q) \in n..Len(q)
    BY <1>2
  <2>2. a \o b = SubSeq(q, 1, Len(q))
    BY <2>1, <1>2, ConcatAdjacentSubSeq
  <2> HIDE DEF a, b
  <2> QED BY <2>2, <1>2, SubSeqFull
<1> HIDE DEF a, b, w
<1>8. b = Queued(r)
  <2> DEFINE m == ring.len - n
  <2>1. /\ Queued(r) \in Seq(QueuedUpdates) /\ Len(Queued(r)) = m /\ Len(b) = m
        /\ \A i \in 1..m : b[i] = Queued(r)[i]
    BY <1>1, <1>3, <1>6
  <2> HIDE DEF m
  <2> QED BY <2>1, <1>6, SeqEqual
<1>9. Weight(w, a \o b) = Weight(w, a) + Weight(w, b) /\ Weight(w, a) \in Nat /\ Weight(w, b) \in Nat
  <2>1. Weight(w, a \o b) = Weight(w, a) + Weight(w, b)
    BY <1>4, <1>5, <1>6, WeightConcat
  <2>2. Weight(w, a) \in Nat /\ Weight(w, b) \in Nat
    BY <1>4, <1>5, <1>6, WeighType
  <2> QED BY <2>1, <2>2
<1> QED BY <1>5, <1>7, <1>8, <1>9 DEF w, q, r, a

\* The front of it, up to one update, and that one.
LEMMA FrontSum ==
    ASSUME NEW q \in Seq(QueuedUpdates), NEW n \in 1..Len(q), NEW g \in Gauges
    PROVE  /\ Weight(CostOf(g), SubSeq(q, 1, n))
              = Weight(CostOf(g), SubSeq(q, 1, n - 1)) + Amount(q[n].lease, g)
           /\ Weight(CostOf(g), SubSeq(q, 1, n - 1)) \in Nat /\ Amount(q[n].lease, g) \in Nat
           /\ SubSeq(q, 1, n - 1) \in Seq(QueuedUpdates)
<1> DEFINE w == CostOf(g)
           a == SubSeq(q, 1, n - 1)
<1> HIDE DEF QueuedUpdates
<1>1. Len(q) \in Nat /\ (\A i \in 1..(n - 1) : q[i] \in QueuedUpdates) /\ q[n] \in QueuedUpdates
      /\ 1 \in 1..Len(q) /\ n \in 1..Len(q) /\ 1 \in Int /\ n - 1 \in Int
  OBVIOUS
<1>2. a \in Seq(QueuedUpdates)
  BY <1>1, SubSeqProperties
<1>3. w \in [QueuedUpdates -> Nat] /\ w[q[n]] = Amount(q[n].lease, g) /\ w[q[n]] \in Nat
  BY <1>1, CostType
<1>4. SubSeq(q, 1, n) = a \o <<q[n]>>
  <2>1. 1 \in 1..Len(q) /\ n \in 1..Len(q)
    BY <1>1
  <2>2. n \in 1..Len(q) /\ q \in Seq(QueuedUpdates)
    OBVIOUS
  <2> QED BY <2>1, <2>2, SubSeqRecursiveSecond
<1> HIDE DEF a, w
<1>5. a \o <<q[n]>> = Append(a, q[n])
  BY <1>1, <1>2, AppendIsConcat
<1>6. Weight(w, Append(a, q[n])) = Weight(w, a) + w[q[n]] /\ Weight(w, a) \in Nat
  <2> DEFINE x == q[n]
  <2>1. x \in QueuedUpdates
    BY <1>1
  <2> HIDE DEF x
  <2>2. Weight(w, Append(a, x)) = Weight(w, a) + w[x]
    BY <2>1, <1>2, <1>3, WeightAppend
  <2>3. Weight(w, a) \in Nat
    BY <1>2, <1>3, WeighType
  <2> QED BY <2>2, <2>3 DEF x
<1> QED BY <1>2, <1>3, <1>4, <1>5, <1>6 DEF w, a

LEMMA EmptySum ==
    ASSUME NEW r \in Rings, r.len = 0, NEW g \in Gauges
    PROVE  Weight(CostOf(g), Queued(r)) = 0
<1>1. Queued(r) \in Seq(QueuedUpdates) /\ Len(Queued(r)) = 0
  BY QueuedProperties
<1>2. Queued(r) = <<>>
  BY <1>1, EmptySeq
<1> QED BY <1>2, WeightEmpty

\* One turn of the rotation: what leaves the books has left the queue.
LEMMA TurnedSum ==
    ASSUME NEW st \in Holdings, NEW s, NEW g \in Gauges, NEW X \in Nat,
           Meter(st.usage, g) = X + Weight(CostOf(g), Queued(st.ring))
    PROVE  LET t == Turned(st, s) IN Meter(t.usage, g) = X + Weight(CostOf(g), Queued(t.ring))
<1> DEFINE r == st.ring
           u == Front1(r)
           p == pop_front(r)
           w == CostOf(g)
<1>1. r \in Rings /\ st.usage \in GoodUsage /\ st.usage \in UsageType /\ st = [ring |-> r, usage |-> st.usage]
  BY DEF Holdings, GoodUsage
<1>2. CASE r.len = 0
  <2>1. Turned(st, s) = st
    BY <1>1, <1>2, PopEmpty DEF Turned
  <2> QED BY <1>2, <2>1
<1>3. CASE r.len # 0
  <2>1. /\ u \in QueuedUpdates /\ u # None /\ p \in Rings /\ can_push(p, u.wire)
    BY <1>1, <1>3, PopProperties
  <2>2. Weight(w, Queued(r)) = Weight(w, Queued(p)) + Amount(u.lease, g)
        /\ Weight(w, Queued(p)) \in Nat /\ Amount(u.lease, g) \in Nat
    BY <1>1, <1>3, PopSum
  <2>3. CASE u.scope = s
    <3>1. Turned(st, s) = [ring |-> p, usage |-> Release(st.usage, u.lease)]
      BY <2>1, <2>3 DEF Turned
    <3>2. u.lease \in Leases
      BY <2>1, CostType
    <3>3. Meter(Release(st.usage, u.lease), g) = Minus(Meter(st.usage, g), Amount(u.lease, g))
      BY <1>1, <3>2, ReleaseMeter
    <3>4. Meter(st.usage, g) = X + (Weight(w, Queued(p)) + Amount(u.lease, g))
      BY <2>2
    <3>5. Minus(X + (Weight(w, Queued(p)) + Amount(u.lease, g)), Amount(u.lease, g)) = X + Weight(w, Queued(p))
      <4> DEFINE a == Weight(w, Queued(p))
                 b == Amount(u.lease, g)
      <4>1. a \in Nat /\ b \in Nat
        BY <2>2
      <4> HIDE DEF a, b
      <4>2. Minus(X + (a + b), b) = X + a
        BY <4>1 DEF Minus
      <4> QED BY <4>2 DEF a, b
    <3> HIDE DEF p, u
    <3> QED BY <3>1, <3>3, <3>4, <3>5
  <2>4. CASE u.scope # s
    <3> DEFINE b == push_back(p, u)
    <3>1. Turned(st, s) = [st EXCEPT !.ring = b]
      BY <2>1, <2>4 DEF Turned
    <3>2. Weight(w, Queued(b)) = Weight(w, Queued(p)) + Amount(u.lease, g)
      <4> HIDE DEF p, u
      <4> QED BY <2>1, PushSum
    <3> HIDE DEF b
    <3>3. Turned(st, s) = [ring |-> b, usage |-> st.usage]
      BY <3>1, <1>1
    <3> HIDE DEF p, u
    <3> QED BY <3>2, <3>3, <2>2
  <2> QED BY <2>3, <2>4
<1> QED BY <1>2, <1>3

\* And so for the retirement of a scope.
LEMMA RetireSum ==
    ASSUME ring \in Rings, usage \in GoodUsage, NEW s, NEW g \in Gauges, NEW X \in Nat,
           Meter(usage, g) = X + Weight(CostOf(g), Queued(ring))
    PROVE  LET r == retire_scope(s) IN Meter(r.usage, g) = X + Weight(CostOf(g), Queued(r.ring))
<1> DEFINE n == ring.len
           from == [ring |-> ring, usage |-> usage]
           step == [p \in (1..n) \X Holdings |-> Turned(p[2], s)]
           Is(h) == h = [k \in 0..n |-> IF k = 0 THEN from ELSE Turned(h[k - 1], s)]
           after == CHOOSE h : Is(h)
           Exact1(st) == st \in Holdings /\ Meter(st.usage, g) = X + Weight(CostOf(g), Queued(st.ring))
           T == {k \in 0..n : Exact1(after[k])}
<1>1. n \in Nat /\ from \in Holdings /\ from.ring = ring /\ from.usage = usage
  BY QueuedProperties DEF Holdings
<1>2. PICK h \in [0..n -> Holdings] : h[0] = from /\ \A k \in 1..n : h[k] = step[<<k, h[k - 1]>>]
  <2>1. step \in [(1..n) \X Holdings -> Holdings]
    BY TurnedProperties
  <2>2. Runs(Holdings, from, step, n) # {}
    <3> HIDE DEF step, from, n
    <3> QED BY <2>1, <1>1, RecursionExists
  <2> QED BY <2>2 DEF Runs, IsRun
<1> HIDE DEF from
<1>3. \A k \in 1..n : h[k] = Turned(h[k - 1], s)
  <2>1. \A k \in 1..n : h[k - 1] \in Holdings
    BY <1>1
  <2> QED BY <2>1, <1>2
<1>4. Is(h)
  BY <1>1, <1>2, <1>3
<1>5. Is(after)
  <2> HIDE DEF Is
  <2> QED BY <1>4
<1> HIDE DEF after
<1>6. after[0] = from /\ \A k \in 1..n : after[k] = Turned(after[k - 1], s)
  BY <1>1, <1>5
<1>7. 0 \in T
  BY <1>1, <1>6
<1>8. ASSUME NEW k \in 0..n - 1, k \in T PROVE k + 1 \in T
  <2> DEFINE a == after[k]
  <2>1. k + 1 \in 1..n /\ (k + 1) - 1 = k /\ k + 1 \in 0..n
    BY <1>1
  <2>2. after[k + 1] = Turned(a, s)
    BY <2>1, <1>6
  <2>3. a \in Holdings /\ Meter(a.usage, g) = X + Weight(CostOf(g), Queued(a.ring))
    BY <1>8
  <2> HIDE DEF a
  <2>4. Turned(a, s) \in Holdings
    BY <2>3, TurnedProperties
  <2>5. Meter(Turned(a, s).usage, g) = X + Weight(CostOf(g), Queued(Turned(a, s).ring))
    BY <2>3, TurnedSum
  <2>6. Exact1(after[k + 1])
    BY <2>2, <2>4, <2>5
  <2> QED BY <2>1, <2>6
<1>9. n \in T
  <2> HIDE DEF T
  <2>1. 0..n \subseteq T
    BY <1>1, <1>7, <1>8, IntervalInduction
  <2> QED BY <2>1, <1>1
<1>10. retire_scope(s) = after[n]
  BY DEF retire_scope, Rotated, after, from
<1> QED BY <1>9, <1>10

-----------------------------------------------------------------------------
(* The books are what the owners have leased, at every step.               *)

QueueAmount(g) == Weight(CostOf(g), Queued(ring))
SubsAmount(g) == SetSum(subs, g)
HandAmount(g) == IF hand = None THEN 0 ELSE Amount(hand.lease, g)
PageAmount(g) == IF page = None THEN 0 ELSE Amount(page, g)
CacheAmount(g) == Weight(OwedOf(held, g), cache) + SetSum(held, g)
OtherAmount(g) == QueueAmount(g) + SubsAmount(g) + HandAmount(g) + PageAmount(g)
Balanced(g) == Meter(usage, g) = OtherAmount(g) + CacheAmount(g)

CacheBooked ==
    /\ Shared(cache, held)
    /\ cacheBytes = Weight(LenOf, cache)
    /\ cacheBytes <= CacheBytes /\ Len(cache) <= CacheCount
PageOfCells == page # None => page.cat = "SceneCells"
Booked == Sound /\ CacheBooked /\ PageOfCells /\ \A g \in Gauges : Balanced(g)

LEMMA Amounts ==
    ASSUME Sound, NEW g \in Gauges
    PROVE  /\ QueueAmount(g) \in Nat /\ SubsAmount(g) \in Nat /\ HandAmount(g) \in Nat
           /\ PageAmount(g) \in Nat /\ CacheAmount(g) \in Nat
           /\ LeasesIn(held) /\ LeasesIn(subs)
           /\ Weight(OwedOf(held, g), cache) \in Nat /\ SetSum(held, g) \in Nat
           /\ usage \in UsageType
<1>1. QueueAmount(g) \in Nat
  <2>1. Queued(ring) \in Seq(QueuedUpdates)
    BY QueuedProperties DEF Sound
  <2> QED BY <2>1, QueueSum DEF QueueAmount
<1>2. LeasesIn(held) /\ LeasesIn(subs)
  BY DEF LeasesIn, Sound, SubsOK, Subscriptions, Clones
<1>3. KeyLease \in Leases
  BY InsertLeases
<1>4. SetSum(held, g) \in Nat /\ SubsAmount(g) \in Nat
  <2> DEFINE x == [lease |-> KeyLease]
  <2>1. x.lease \in Leases
    BY <1>3
  <2> HIDE DEF x
  <2>2. AddsOne(held, x, g) /\ AddsOne(subs, x, g)
    BY <2>1, <1>2, SetSumAdds
  <2> QED BY <2>2 DEF AddsOne, SubsAmount
<1>5. HandAmount(g) \in Nat
  <2>1. CASE hand = None
    BY <2>1 DEF HandAmount
  <2>2. CASE hand # None
    <3>1. hand.lease \in Leases
      BY <2>2, CostType DEF Sound
    <3> QED BY <2>2, <3>1, MeterType DEF HandAmount
  <2> QED BY <2>1, <2>2
<1>6. PageAmount(g) \in Nat
  <2>1. CASE page = None
    BY <2>1 DEF PageAmount
  <2>2. CASE page # None
    <3>1. page \in Leases
      BY <2>2 DEF Sound
    <3> QED BY <2>2, <3>1, MeterType DEF PageAmount
  <2> QED BY <2>1, <2>2
<1>7. Weight(OwedOf(held, g), cache) \in Nat
  <2>1. OwedOf(held, g) \in [Entries -> Nat] /\ cache \in Seq(Entries)
    BY OwedType DEF Sound
  <2> QED BY <2>1, WeighType
<1>8. usage \in UsageType
  BY DEF Sound, GoodUsage
<1> QED BY <1>1, <1>2, <1>4, <1>5, <1>6, <1>7, <1>8 DEF CacheAmount

LEMMA NoneSum ==
    ASSUME NEW g \in Gauges
    PROVE  SetSum({}, g) = 0 /\ LeasesIn({})
<1> DEFINE x == [lease |-> KeyLease]
<1>1. x.lease \in Leases
  BY InsertLeases
<1> HIDE DEF x
<1> QED BY <1>1, SetSumOne

\* A lease that is admitted and then resized to what was kept.
LEMMA ChargeMeter ==
    ASSUME NEW u \in UsageType, NEW old \in Leases, NEW new \in Leases, new.cat = old.cat
    PROVE  /\ Resize(Reserve(u, old), old, new) \in UsageType
           /\ \A g \in Gauges : Meter(Resize(Reserve(u, old), old, new), g) = Meter(u, g) + Amount(new, g)
<1> DEFINE v == Reserve(u, old)
           z == Resize(v, old, new)
<1>1. v \in UsageType /\ \A g \in Gauges : Meter(v, g) = Meter(u, g) + Amount(old, g)
  BY ReserveMeter
<1> HIDE DEF v
<1>2. ASSUME NEW g \in Gauges
      PROVE  /\ Meter(u, g) \in Nat /\ Amount(old, g) \in Nat /\ Amount(new, g) \in Nat
             /\ Amount(old, g) <= Meter(v, g)
             /\ (Meter(v, g) - Amount(old, g)) + Amount(new, g) = Meter(u, g) + Amount(new, g)
  <2> DEFINE m == Meter(u, g)
             a == Amount(old, g)
             b == Amount(new, g)
  <2>1. m \in Nat /\ a \in Nat /\ b \in Nat /\ Meter(v, g) = m + a
    BY <1>1, MeterType
  <2> HIDE DEF m, a, b
  <2>2. a <= m + a /\ ((m + a) - a) + b = m + b
    BY <2>1
  <2> QED BY <2>1, <2>2 DEF m, a, b
<1>3. z \in UsageType /\ \A g \in Gauges : Meter(z, g) = (Meter(v, g) - Amount(old, g)) + Amount(new, g)
  BY <1>1, <1>2, ResizeMeter
<1> HIDE DEF z
<1>4. \A g \in Gauges : Meter(z, g) = Meter(u, g) + Amount(new, g)
  BY <1>2, <1>3
<1> QED BY <1>3, <1>4 DEF z, v

LEMMA ChargedMeter ==
    ASSUME NEW u \in UsageType, NEW wire \in Nat, NEW extra \in Nat
    PROVE  /\ Charged(u, wire, extra) \in UsageType
           /\ \A g \in Gauges : Meter(Charged(u, wire, extra), g) = Meter(u, g) + Amount(KeptLease(wire, extra), g)
           /\ KeptLease(wire, extra) \in Leases
<1>1. NewLease(wire) \in Leases /\ KeptLease(wire, extra) \in Leases
      /\ KeptLease(wire, extra).cat = NewLease(wire).cat
  BY DEF NewLease, KeptLease, Exact, Lease, Leases, Cats
<1> QED BY <1>1, ChargeMeter DEF Charged

\* The queue given up, and the subscriptions.
LEMMA ClearedMeter ==
    ASSUME Booked, NEW g \in Gauges
    PROVE  /\ Cleared \in UsageType
           /\ Meter(Cleared, g) = SubsAmount(g) + HandAmount(g) + PageAmount(g) + CacheAmount(g)
           /\ Meter(ReleaseAll(Cleared, SubLeases(subs)), g) = HandAmount(g) + PageAmount(g) + CacheAmount(g)
<1> DEFINE q == QueueAmount(g)
           s == SubsAmount(g)
           h == HandAmount(g)
           p == PageAmount(g)
           c == CacheAmount(g)
<1>1. q \in Nat /\ s \in Nat /\ h \in Nat /\ p \in Nat /\ c \in Nat /\ usage \in UsageType
  BY Amounts DEF Booked
<1>2. Meter(usage, g) = q + s + h + p + c
  BY DEF Booked, Balanced, OtherAmount
<1>3. Cleared \in UsageType /\ Meter(Cleared, g) = Minus(Meter(usage, g), q)
  <2>1. Queued(ring) \in Seq(QueuedUpdates)
    BY QueuedProperties DEF Booked, Sound
  <2>2. LeasesOf(Queued(ring)) \in Seq(Leases) /\ Sum(LeasesOf(Queued(ring)), g) = q
    BY <2>1, QueueSum DEF QueueAmount
  <2> HIDE DEF q
  <2> QED BY <2>2, <1>1, ReleaseAllMeter DEF Cleared
<1>4. Meter(ReleaseAll(Cleared, SubLeases(subs)), g) = Minus(Meter(Cleared, g), s)
  <2>1. SubLeases(subs) \in Seq(Leases)
    BY ClearedGood DEF Booked
  <2> QED BY <2>1, <1>3, ReleaseAllMeter DEF SubsAmount, SetSum
<1> HIDE DEF q, s, h, p, c
<1>5. Minus(q + s + h + p + c, q) = s + h + p + c /\ Minus(s + h + p + c, s) = h + p + c
  BY <1>1 DEF Minus
<1> QED BY <1>2, <1>3, <1>4, <1>5 DEF s, h, p, c

LEMMA FreeMeter ==
    ASSUME NEW g \in Gauges
    PROVE  Free \in UsageType /\ Meter(Free, g) = 0
BY DEF Free, UsageType, Gauges, Meter

-----------------------------------------------------------------------------
(* The cache's steps.                                                      *)

LEMMA OtherType ==
    ASSUME Booked, NEW g \in Gauges
    PROVE  /\ OtherAmount(g) \in Nat /\ CacheAmount(g) \in Nat /\ usage \in UsageType
           /\ Meter(usage, g) = OtherAmount(g) + CacheAmount(g)
           /\ Weight(OwedOf(held, g), cache) \in Nat /\ SetSum(held, g) \in Nat
<1>1. /\ QueueAmount(g) \in Nat /\ SubsAmount(g) \in Nat /\ HandAmount(g) \in Nat
      /\ PageAmount(g) \in Nat /\ CacheAmount(g) \in Nat /\ usage \in UsageType
      /\ Weight(OwedOf(held, g), cache) \in Nat /\ SetSum(held, g) \in Nat
  BY Amounts DEF Booked
<1>2. \A a, b, c, d \in Nat : a + b + c + d \in Nat
  OBVIOUS
<1>3. OtherAmount(g) \in Nat
  BY <1>1, <1>2 DEF OtherAmount
<1>4. Balanced(g)
  BY DEF Booked
<1> QED BY <1>1, <1>3, <1>4 DEF Balanced

LEMMA OtherKept ==
    ASSUME UNCHANGED <<ring, subs, hand, page>>, NEW g \in Gauges
    PROVE  OtherAmount(g)' = OtherAmount(g)
<1>1. QueueAmount(g)' = QueueAmount(g) /\ SubsAmount(g)' = SubsAmount(g)
  BY DEF QueueAmount, SubsAmount, Queued
<1>2. HandAmount(g)' = HandAmount(g) /\ PageAmount(g)' = PageAmount(g)
  BY DEF HandAmount, PageAmount
<1> QED BY <1>1, <1>2 DEF OtherAmount

\* The cache as insert finds it: all leases but its entries' are others'.
Reserved == [g \in Gauges |-> OtherAmount(g) + SetSum(held, g)]
CacheNow == [cache |-> cache, bytes |-> cacheBytes, usage |-> usage]

LEMMA NowKeeps ==
    ASSUME Booked
    PROVE  Reserved \in [Gauges -> Nat] /\ Keeps(CacheNow, Reserved)
<1>1. ASSUME NEW g \in Gauges
      PROVE  /\ OtherAmount(g) + SetSum(held, g) \in Nat
             /\ Meter(usage, g) = (OtherAmount(g) + SetSum(held, g)) + Weight(OwedOf(held, g), cache)
  <2> DEFINE o == OtherAmount(g)
             s == SetSum(held, g)
             w == Weight(OwedOf(held, g), cache)
  <2>1. o \in Nat /\ s \in Nat /\ w \in Nat /\ Meter(usage, g) = o + (w + s)
    BY OtherType DEF CacheAmount
  <2> HIDE DEF o, s, w
  <2>2. o + s \in Nat /\ o + (w + s) = (o + s) + w
    BY <2>1
  <2> QED BY <2>1, <2>2 DEF o, s, w
<1>2. \A g \in Gauges : Reserved[g] = OtherAmount(g) + SetSum(held, g)
  BY DEF Reserved
<1>3. Reserved \in [Gauges -> Nat]
  BY <1>1 DEF Reserved
<1>4. CacheNow.cache = cache /\ CacheNow.bytes = cacheBytes /\ CacheNow.usage = usage
  BY DEF CacheNow
<1>5. usage \in UsageType /\ cache \in Seq(Entries) /\ Apart(cache) /\ cacheBytes = Weight(LenOf, cache)
  BY DEF Booked, Sound, GoodUsage, CacheBooked, Shared
<1> HIDE DEF Reserved, CacheNow
<1>6. Keeps(CacheNow, Reserved)
  BY <1>1, <1>2, <1>4, <1>5 DEF Keeps
<1> QED BY <1>3, <1>6

\* What insert returns, and the clone of it that is handed out, if any.
LEMMA InsertBooked ==
    ASSUME Booked, NEW key \in Keys, NEW len \in Nat, NEW cap \in Nat, NEW r,
           r = Insert(key, len, cap), cache' = r.cache, cacheBytes' = r.bytes, usage' = r.usage,
           UNCHANGED <<ring, subs, hand, page>>,
           held' = held \/ (r.ok /\ held' = held \cup {Clone(Last(r.cache))})
    PROVE  CacheBooked' /\ \A g \in Gauges : Balanced(g)'
<1>1. held \subseteq Clones /\ IsFiniteSet(held) /\ cache \in Seq(Entries)
      /\ cacheBytes <= CacheBytes /\ Len(cache) <= CacheCount /\ Shared(cache, held)
  BY DEF Booked, Sound, CacheBooked
<1>2. /\ Keeps(r, Reserved) /\ Len(r.cache) <= CacheCount /\ r.bytes <= CacheBytes
      /\ r.ok => r.cache # <<>> /\ Last(r.cache).rid = NextRid
      /\ \A i \in DOMAIN r.cache :
           r.cache[i].rid = NextRid \/ \E j \in DOMAIN cache : r.cache[i] = cache[j]
  <2>1. Reserved \in [Gauges -> Nat] /\ Keeps(CacheNow, Reserved)
    BY NowKeeps
  <2>2. CacheNow = [cache |-> cache, bytes |-> cacheBytes, usage |-> usage]
    BY DEF CacheNow
  <2> HIDE DEF CacheNow, Reserved
  <2> QED BY <1>1, <2>1, <2>2, InsertExact
<1>3. /\ r.cache \in Seq(Entries) /\ Apart(r.cache) /\ r.usage \in UsageType
      /\ r.bytes = Weight(LenOf, r.cache)
      /\ \A g \in Gauges : Meter(r.usage, g) = (OtherAmount(g) + SetSum(held, g)) + Weight(OwedOf(held, g), r.cache)
  BY <1>2 DEF Keeps, Reserved
<1>4. \A h \in held : h.rid # NextRid
  BY <1>1, NextRidFresh
<1> DEFINE c == r.cache
<1>5. \A i \in DOMAIN c : \A h \in held : h.rid = c[i].rid => h = Clone(c[i])
  BY <1>1, <1>2, <1>4 DEF Shared
<1>6. \A h, k \in held : h.rid = k.rid => h = k
  BY <1>1 DEF Shared
<1> HIDE DEF Entries, Clones, c
<1>7. CASE held' = held
  <2>1. Shared(c, held)
    BY <1>3, <1>5, <1>6 DEF Shared, c
  <2>2. CacheBooked'
    BY <2>1, <1>2, <1>3, <1>7 DEF CacheBooked, c
  <2>3. ASSUME NEW g \in Gauges PROVE Balanced(g)'
    <3> DEFINE o == OtherAmount(g)
               s == SetSum(held, g)
               w == Weight(OwedOf(held, g), c)
    <3>1. o \in Nat /\ s \in Nat
      BY OtherType
    <3>2. w \in Nat
      <4>1. OwedOf(held, g) \in [Entries -> Nat]
        BY OwedType
      <4> QED BY <4>1, <1>3, WeighType DEF c
    <3>3. Meter(usage', g) = (o + s) + w
      BY <1>3 DEF c
    <3>4. CacheAmount(g)' = w + s
      BY <1>7 DEF CacheAmount, c
    <3>5. OtherAmount(g)' = o
      BY OtherKept
    <3> HIDE DEF o, s, w
    <3>6. (o + s) + w = o + (w + s)
      BY <3>1, <3>2
    <3> QED BY <3>3, <3>4, <3>5, <3>6 DEF Balanced
  <2> QED BY <2>2, <2>3
<1>8. CASE r.ok /\ held' = held \cup {Clone(Last(r.cache))}
  <2> DEFINE i == Len(c)
             new == Clone(c[i])
  <2>1. i \in DOMAIN c /\ c[i] = Last(c) /\ c[i].rid = NextRid
    BY <1>2, <1>3, <1>8 DEF Last, c
  <2>2. held' = held \cup {new}
    BY <2>1, <1>8 DEF c
  <2>3. new.rid = NextRid
    BY <2>1 DEF Clone
  <2> HIDE DEF i
  <2>4. \A j \in DOMAIN c : c[j].rid = NextRid => c[j] = c[i]
    BY <2>1, <1>3 DEF Apart, c
  <2>5. \A j \in DOMAIN c : \A h \in held' : h.rid = c[j].rid => h = Clone(c[j])
    BY <2>2, <2>3, <2>4, <1>5
  <2>6. \A h, k \in held' : h.rid = k.rid => h = k
    <3> HIDE DEF new
    <3> QED BY <2>2, <2>3, <1>4, <1>6
  <2>7. Shared(c, held')
    BY <2>5, <2>6, <1>3 DEF Shared, c
  <2>8. CacheBooked'
    BY <2>7, <1>2, <1>3 DEF CacheBooked, c
  <2>9. ASSUME NEW g \in Gauges PROVE Balanced(g)'
    <3> DEFINE o == OtherAmount(g)
               s == SetSum(held, g)
               w == Weight(OwedOf(held, g), c)
               t == SetSum(held', g)
               v == Weight(OwedOf(held', g), c)
    <3>1. o \in Nat /\ LeasesIn(held)
      BY OtherType, Amounts DEF Booked
    <3>2. v + t = w + s /\ v \in Nat /\ t \in Nat /\ w \in Nat /\ s \in Nat
      <4> DEFINE more == held'
      <4>1. more = held \cup {Clone(c[i])}
        BY <2>2
      <4>2. \A h \in held : h.rid = c[i].rid => h = Clone(c[i])
        BY <2>1, <1>5
      <4>3. c \in Seq(Entries) /\ Apart(c)
        BY <1>3 DEF c
      <4> HIDE DEF more, new
      <4>4. /\ Weight(OwedOf(more, g), c) + SetSum(more, g) = Weight(OwedOf(held, g), c) + SetSum(held, g)
            /\ Weight(OwedOf(more, g), c) \in Nat /\ SetSum(more, g) \in Nat
            /\ Weight(OwedOf(held, g), c) \in Nat /\ SetSum(held, g) \in Nat
        BY <2>1, <3>1, <4>1, <4>2, <4>3, HoldOne
      <4> QED BY <4>4 DEF more
    <3>3. Meter(usage', g) = (o + s) + w
      BY <1>3 DEF c
    <3>4. CacheAmount(g)' = v + t
      BY DEF CacheAmount, c
    <3>5. OtherAmount(g)' = o
      BY OtherKept
    <3> HIDE DEF o, s, w, v, t
    <3>6. (o + s) + w = o + (w + s)
      BY <3>1, <3>2
    <3> QED BY <3>2, <3>3, <3>4, <3>5, <3>6 DEF Balanced
  <2> QED BY <2>8, <2>9
<1> QED BY <1>7, <1>8

\* An entry taken out of the cache.
LEMMA OmittedEntry ==
    ASSUME NEW c \in Seq(Entries), Apart(c), NEW i \in DOMAIN c, NEW o, o = Omitting(c, i)
    PROVE  /\ o \in Seq(Entries) /\ Len(o) = Len(c) - 1 /\ DOMAIN o = 1 .. Len(c) - 1 /\ Apart(o)
           /\ \A k \in DOMAIN o : \E j \in DOMAIN c : j # i /\ o[k] = c[j]
<1> DEFINE p(k) == IF k < i THEN k ELSE k + 1
           n == Len(c)
<1> HIDE DEF Entries
<1>1. n \in Nat /\ DOMAIN c = 1..n /\ i \in 1..n
  OBVIOUS
<1>2. o \in Seq(Entries) /\ Len(o) = n - 1
      /\ \A k \in 1..n - 1 : o[k] = IF k < i THEN c[k] ELSE c[k + 1]
  BY <1>1, OmittingType
<1>3. DOMAIN o = 1..n - 1
  BY <1>2
<1>4. \A k \in 1..n - 1 : p(k) \in 1..n /\ p(k) # i /\ o[k] = c[p(k)]
  BY <1>1, <1>2
<1>5. \A k, l \in 1..n - 1 : p(k) = p(l) => k = l
  BY <1>1
<1> HIDE DEF p, n
<1>6. Apart(o)
  <2> DEFINE D == DOMAIN o
  <2>1. D = 1..n - 1
    BY <1>3
  <2>2. \A x, y \in 1..n : (c[x].key = c[y].key => x = y) /\ (c[x].rid = c[y].rid => x = y)
    BY <1>1, Zenon DEF Apart
  <2> HIDE DEF D
  <2>3. ASSUME NEW k \in D, NEW l \in D
        PROVE  (o[k].key = o[l].key => k = l) /\ (o[k].rid = o[l].rid => k = l)
    <3> DEFINE x == p(k)
               y == p(l)
    <3>1. k \in 1..n - 1 /\ l \in 1..n - 1
      BY <2>1
    <3>2. x \in 1..n /\ o[k] = c[x] /\ y \in 1..n /\ o[l] = c[y]
      BY <3>1, <1>4, Zenon
    <3>3. x = y => k = l
      BY <3>1, <1>5, Zenon
    <3> HIDE DEF x, y
    <3> QED BY <2>2, <3>2, <3>3, Zenon
  <2> QED BY <2>3, Zenon DEF Apart, D
<1>7. \A k \in DOMAIN o : \E j \in DOMAIN c : j # i /\ o[k] = c[j]
  BY <1>1, <1>3, <1>4
<1> QED BY <1>2, <1>3, <1>6, <1>7 DEF n

\* An entry moved to the back of it.
Moved(c, i, d) ==
    /\ d \in Seq(Entries) /\ Len(d) = Len(c) /\ Apart(d)
    /\ \A k \in DOMAIN d : \E j \in DOMAIN c : d[k] = c[j]
    /\ \E k \in DOMAIN d : d[k] = c[i]
    /\ \A w \in [Entries -> Nat] : Weight(w, d) = Weight(w, c)

LEMMA MovedEntry ==
    ASSUME NEW c \in Seq(Entries), Apart(c), NEW i \in DOMAIN c
    PROVE  Moved(c, i, Append(RemoveAt(c, i), c[i]))
<1> DEFINE o == Omitting(c, i)
           n == Len(c)
           x == c[i]
           d == Append(RemoveAt(c, i), c[i])
<1> HIDE DEF Entries
<1>1. n \in Nat /\ DOMAIN c = 1..n /\ i \in 1..n /\ x \in Entries
  OBVIOUS
<1>2. o \in Seq(Entries) /\ Len(o) = n - 1 /\ DOMAIN o = 1..n - 1 /\ Apart(o)
      /\ \A k \in DOMAIN o : \E j \in DOMAIN c : j # i /\ o[k] = c[j]
  BY OmittedEntry
<1>3. d = Append(o, x)
  BY DEF RemoveAt, Omitting
<1> HIDE DEF o, x, d
<1>4. d \in Seq(Entries) /\ Len(d) = n /\ d[n] = x /\ \A k \in 1..n - 1 : d[k] = o[k]
  <2>1. /\ Append(o, x) \in Seq(Entries) /\ Len(Append(o, x)) = Len(o) + 1
        /\ Append(o, x)[Len(o) + 1] = x /\ \A k \in 1..Len(o) : Append(o, x)[k] = o[k]
    <3>1. o \in Seq(Entries) /\ x \in Entries
      BY <1>1, <1>2
    <3> QED BY <3>1, AppendProperties
  <2>2. Len(o) + 1 = n
    BY <1>1, <1>2
  <2>3. Len(o) = n - 1
    BY <1>2
  <2> HIDE DEF n
  <2> QED BY <2>1, <2>2, <2>3, <1>3
<1> HIDE DEF n
<1>5. DOMAIN d = 1..n /\ n \in DOMAIN d /\ \A k \in 1..n : k = n \/ k \in 1..n - 1
  <2>1. n \in 1..n /\ \A k \in 1..n : k = n \/ k \in 1..n - 1
    BY <1>1
  <2>2. DOMAIN d = 1..Len(d)
    BY <1>4
  <2> QED BY <2>1, <2>2, <1>4
<1>6. \A k \in DOMAIN d : \E j \in DOMAIN c : d[k] = c[j]
  BY <1>1, <1>2, <1>4, <1>5 DEF x
<1>7. \A k \in 1..n - 1 : \E j \in DOMAIN c : j # i /\ d[k] = c[j]
  BY <1>2, <1>4
<1>8. Apart(d)
  <2>1. ASSUME NEW k \in DOMAIN d, NEW l \in DOMAIN d, d[k].key = d[l].key \/ d[k].rid = d[l].rid
        PROVE  k = l
    <3>1. CASE k = n /\ l = n
      BY <3>1
    <3>2. CASE k = n /\ l \in 1..n - 1
      BY <2>1, <3>2, <1>1, <1>4, <1>7 DEF Apart, x
    <3>3. CASE k \in 1..n - 1 /\ l = n
      BY <2>1, <3>3, <1>1, <1>4, <1>7 DEF Apart, x
    <3>4. CASE k \in 1..n - 1 /\ l \in 1..n - 1
      BY <2>1, <3>4, <1>2, <1>4 DEF Apart
    <3> QED BY <3>1, <3>2, <3>3, <3>4, <1>5
  <2> QED BY <2>1 DEF Apart
<1>9. ASSUME NEW w \in [Entries -> Nat] PROVE Weight(w, d) = Weight(w, c)
  <2>1. Weight(w, Append(o, x)) = Weight(w, o) + w[x]
    BY <1>1, <1>2, WeightAppend
  <2>2. Weight(w, c) = Weight(w, Omitting(c, i)) + w[c[i]]
    <3>1. i \in 1..Len(c)
      BY <1>1 DEF n
    <3> QED BY <3>1, WeightOmitting
  <2> QED BY <2>1, <2>2, <1>3 DEF o, x
<1>10. \E k \in DOMAIN d : d[k] = c[i]
  BY <1>4, <1>5 DEF x
<1> QED BY <1>4, <1>6, <1>8, <1>9, <1>10 DEF n, d, Moved

\* A hit: the entries are the same, one more clone may be held.
LEMMA HitBooked ==
    ASSUME Booked, FetchHit
    PROVE  CacheBooked' /\ \A g \in Gauges : Balanced(g)'
<1>1. PICK i \in DOMAIN cache : cache' = Append(RemoveAt(cache, i), cache[i])
                                /\ held' = held \cup {Clone(cache[i])}
  BY DEF FetchHit
<1>2. UNCHANGED <<usage, cacheBytes, ring, subs, hand, page>>
  BY DEF FetchHit
<1>3. cache \in Seq(Entries) /\ Apart(cache) /\ Shared(cache, held)
      /\ cacheBytes = Weight(LenOf, cache) /\ cacheBytes <= CacheBytes /\ Len(cache) <= CacheCount
  BY DEF Booked, Sound, CacheBooked, Shared
<1> DEFINE c == cache'
           new == Clone(cache[i])
<1>4. c = Append(RemoveAt(cache, i), cache[i]) /\ held' = held \cup {new}
  BY <1>1
<1> HIDE DEF c, Entries
<1>5. /\ c \in Seq(Entries) /\ Len(c) = Len(cache) /\ Apart(c)
      /\ \A k \in DOMAIN c : \E j \in DOMAIN cache : c[k] = cache[j]
      /\ \E k \in DOMAIN c : c[k] = cache[i]
      /\ \A w \in [Entries -> Nat] : Weight(w, c) = Weight(w, cache)
  <2>1. Moved(cache, i, Append(RemoveAt(cache, i), cache[i]))
    BY <1>3, MovedEntry
  <2> QED BY <2>1, <1>4 DEF Moved
<1>6. PICK m \in DOMAIN c : c[m] = cache[i]
  BY <1>5
<1>7. (\A k \in DOMAIN c : \A h \in held : h.rid = c[k].rid => h = Clone(c[k]))
      /\ \A h, k \in held : h.rid = k.rid => h = k
  BY <1>3, <1>5 DEF Shared
<1>8. new.rid = c[m].rid /\ new = Clone(c[m])
  BY <1>6 DEF Clone
<1> HIDE DEF new
<1>9. \A k \in DOMAIN c : c[k].rid = c[m].rid => c[k] = c[m]
  BY <1>5, <1>6 DEF Apart
<1>10. \A k \in DOMAIN c : \A h \in held' : h.rid = c[k].rid => h = Clone(c[k])
  <2>1. ASSUME NEW k \in DOMAIN c, new.rid = c[k].rid PROVE new = Clone(c[k])
    BY <2>1, <1>8, <1>9
  <2> QED BY <2>1, <1>4, <1>7
<1>11. \A h, k \in held' : h.rid = k.rid => h = k
  <2>1. \A h \in held : h.rid = new.rid => h = new
    BY <1>7, <1>8
  <2> QED BY <2>1, <1>4, <1>7
<1>12. Shared(c, held')
  BY <1>5, <1>10, <1>11 DEF Shared
<1>13. CacheBooked'
  <2>1. LenOf \in [Entries -> Nat]
    BY LenOfType
  <2>2. Weight(LenOf, c) = Weight(LenOf, cache)
    BY <2>1, <1>5
  <2> QED BY <2>2, <1>2, <1>3, <1>5, <1>12 DEF CacheBooked, c
<1>14. ASSUME NEW g \in Gauges PROVE Balanced(g)'
  <2> DEFINE more == held'
  <2>1. more = held \cup {Clone(c[m])}
    BY <1>4, <1>8
  <2>2. LeasesIn(held) /\ \A h \in held : h.rid = c[m].rid => h = Clone(c[m])
    BY <1>7, Amounts DEF Booked
  <2> HIDE DEF more
  <2>3. Weight(OwedOf(more, g), c) + SetSum(more, g) = Weight(OwedOf(held, g), c) + SetSum(held, g)
    BY <2>1, <2>2, <1>5, HoldOne
  <2>4. Weight(OwedOf(held, g), c) = Weight(OwedOf(held, g), cache)
    <3>1. OwedOf(held, g) \in [Entries -> Nat]
      BY OwedType
    <3> QED BY <3>1, <1>5
  <2>5. CacheAmount(g)' = CacheAmount(g)
    BY <2>3, <2>4 DEF CacheAmount, more, c
  <2>6. OtherAmount(g)' = OtherAmount(g) /\ Meter(usage, g) = OtherAmount(g) + CacheAmount(g)
    BY <1>2, OtherKept, OtherType
  <2> QED BY <2>5, <2>6, <1>2 DEF Balanced
<1> QED BY <1>13, <1>14

\* An eviction: what goes back is what the entry was the last owner of.
LEMMA EvictBooked ==
    ASSUME Booked, EvictOldest
    PROVE  CacheBooked' /\ \A g \in Gauges : Balanced(g)'
<1> DEFINE c == cache'
           e == cache[1]
<1>1. UNCHANGED <<held, ring, subs, hand, page>>
  BY DEF EvictOldest
<1>2. cache \in Seq(Entries) /\ Apart(cache) /\ Shared(cache, held)
      /\ cacheBytes = Weight(LenOf, cache) /\ cacheBytes <= CacheBytes /\ Len(cache) <= CacheCount
  BY DEF Booked, Sound, CacheBooked, Shared
<1> HIDE DEF Entries
<1>3. cache # <<>> /\ c = Tail(cache) /\ cacheBytes' = Minus(cacheBytes, e.len)
      /\ usage' = ReleaseAll(usage, Freed(e))
  <2>1. Head(cache) = e
    BY <1>2
  <2> QED BY <2>1 DEF EvictOldest
<1> HIDE DEF c
<1>4. 1 \in DOMAIN cache /\ 1 \in 1..Len(cache) /\ e \in Entries /\ Len(cache) \in Nat
  BY <1>2, <1>3
<1>5. c = Omitting(cache, 1)
  <2>1. SubSeq(cache, 1, 1 - 1) = <<>>
    BY SubSeqEmpty
  <2>2. c = SubSeq(cache, 2, Len(cache))
    BY <1>2, <1>3, TailIsSubSeq
  <2>3. c \in Seq(Entries)
    BY <1>2, <1>3
  <2>4. <<>> \o c = c
    BY <2>3, ConcatEmptySeq
  <2> QED BY <2>1, <2>2, <2>4 DEF Omitting
<1>6. c \in Seq(Entries) /\ Len(c) = Len(cache) - 1 /\ Apart(c)
      /\ \A k \in DOMAIN c : \E j \in DOMAIN cache : c[k] = cache[j]
  <2>1. \A o : o = Omitting(cache, 1) =>
           /\ o \in Seq(Entries) /\ Len(o) = Len(cache) - 1 /\ Apart(o)
           /\ \A k \in DOMAIN o : \E j \in DOMAIN cache : j # 1 /\ o[k] = cache[j]
    BY <1>2, <1>4, OmittedEntry
  <2> QED BY <2>1, <1>5
<1> HIDE DEF e
<1>7. ASSUME NEW w \in [Entries -> Nat]
      PROVE  Weight(w, cache) = Weight(w, c) + w[e] /\ w[e] \in Nat /\ Weight(w, c) \in Nat
  <2>1. Weight(w, cache) = Weight(w, Omitting(cache, 1)) + w[cache[1]]
        /\ w[cache[1]] \in Nat /\ Weight(w, Omitting(cache, 1)) \in Nat
    BY <1>2, <1>4, WeightOmitting
  <2> QED BY <2>1, <1>5 DEF e
<1>8. CacheBooked'
  <2>1. Shared(c, held')
    BY <1>1, <1>2, <1>6 DEF Shared
  <2>2. LenOf \in [Entries -> Nat] /\ LenOf[e] = e.len
    BY <1>4, LenOfType
  <2> DEFINE a == Weight(LenOf, c)
             b == e.len
  <2>3. cacheBytes = a + b /\ a \in Nat /\ b \in Nat
    BY <2>2, <1>2, <1>7
  <2>4. cacheBytes' = Minus(a + b, b)
    BY <2>3, <1>3
  <2> HIDE DEF a, b
  <2>5. cacheBytes' = a /\ a <= cacheBytes
    BY <2>3, <2>4 DEF Minus
  <2>6. CacheBytes \in Nat /\ CacheCount \in Nat
    BY ResourcesAssumption
  <2>7. cacheBytes' <= CacheBytes /\ Len(c) <= CacheCount
    BY <2>3, <2>5, <2>6, <1>2, <1>4, <1>6
  <2> QED BY <2>1, <2>5, <2>7 DEF CacheBooked, c, a
<1>9. ASSUME NEW g \in Gauges PROVE Balanced(g)'
  <2> DEFINE w == OwedOf(held, g)
             o == OtherAmount(g)
             s == SetSum(held, g)
             a == Weight(w, c)
             b == w[e]
  <2>1. w \in [Entries -> Nat] /\ w[e] = Owed(held, e, g)
    BY <1>4, OwedType
  <2>2. Weight(w, cache) = a + b /\ a \in Nat /\ b \in Nat
    BY <2>1, <1>7
  <2>3. o \in Nat /\ s \in Nat /\ usage \in UsageType /\ Meter(usage, g) = o + CacheAmount(g)
    BY OtherType
  <2>4. Meter(usage', g) = Minus(Meter(usage, g), b)
    <3>1. Freed(e) \in Seq(Leases) /\ Sum(Freed(e), g) = b
      BY <2>1, <1>4, FreedType, FreedSum
    <3> HIDE DEF b
    <3> QED BY <3>1, <2>3, <1>3, ReleaseAllMeter
  <2>5. CacheAmount(g) = (a + b) + s /\ CacheAmount(g)' = a + s
    BY <2>2, <1>1 DEF CacheAmount, c
  <2>6. OtherAmount(g)' = o
    BY <1>1, OtherKept
  <2> HIDE DEF w, o, s, a, b
  <2>7. Minus(o + ((a + b) + s), b) = o + (a + s)
    BY <2>2, <2>3 DEF Minus
  <2> QED BY <2>3, <2>4, <2>5, <2>6, <2>7 DEF Balanced, o
<1> QED BY <1>8, <1>9

\* A requester done with its clone: the bytes go with their last owner.
LEMMA DropBooked ==
    ASSUME Booked, NEW h \in held, DropClone(h)
    PROVE  CacheBooked' /\ \A g \in Gauges : Balanced(g)'
<1> DEFINE hs == held'
<1>1. UNCHANGED <<cache, cacheBytes, ring, subs, hand, page>> /\ hs = held \ {h}
  BY DEF DropClone
<1>2. cache \in Seq(Entries) /\ Apart(cache) /\ Shared(cache, held)
      /\ cacheBytes = Weight(LenOf, cache) /\ cacheBytes <= CacheBytes /\ Len(cache) <= CacheCount
  BY DEF Booked, Sound, CacheBooked, Shared
<1> HIDE DEF hs, Entries
<1>3. held = hs \cup {h} /\ h \notin hs /\ hs \in SUBSET held
  BY <1>1
<1>4. Shared(cache, hs)
  BY <1>2, <1>3 DEF Shared
<1>5. CacheBooked'
  BY <1>1, <1>2, <1>4 DEF CacheBooked, hs
<1>6. LeasesIn(held) /\ LeasesIn(hs) /\ h.lease \in Leases
  <2>1. held \in SUBSET Clones /\ IsFiniteSet(held)
    BY DEF Booked, Sound
  <2>2. IsFiniteSet(hs)
    BY <2>1, <1>3, FS_Subset
  <2>3. \A k \in held : k.lease \in Leases
    BY <2>1 DEF Clones
  <2> QED BY <2>1, <2>2, <2>3, <1>3 DEF LeasesIn
<1>7. ASSUME NEW g \in Gauges PROVE Balanced(g)'
  <2>0. OtherAmount(g)' = OtherAmount(g) /\ OtherAmount(g) \in Nat /\ usage \in UsageType
        /\ Meter(usage, g) = OtherAmount(g) + CacheAmount(g)
    BY <1>1, OtherKept, OtherType
  <2>1. CASE \E i \in DOMAIN cache : cache[i].rid = h.rid
    <3>1. PICK i \in DOMAIN cache : cache[i].rid = h.rid
      BY <2>1
    <3>2. h = Clone(cache[i]) /\ \A k \in hs : k.rid = cache[i].rid => k = Clone(cache[i])
      BY <3>1, <1>2, <1>3 DEF Shared
    <3>3. held = hs \cup {Clone(cache[i])}
      BY <3>2, <1>3
    <3>4. Weight(OwedOf(held, g), cache) + SetSum(held, g) = Weight(OwedOf(hs, g), cache) + SetSum(hs, g)
      BY <3>2, <3>3, <1>2, <1>6, HoldOne
    <3>5. usage' = usage
      BY <2>1 DEF DropClone
    <3>6. CacheAmount(g)' = CacheAmount(g)
      BY <3>4, <1>1 DEF CacheAmount, hs
    <3> QED BY <3>5, <3>6, <2>0 DEF Balanced
  <2>2. CASE \A i \in DOMAIN cache : cache[i].rid # h.rid
    <3> DEFINE o == OtherAmount(g)
               w == Weight(OwedOf(held, g), cache)
               s == SetSum(hs, g)
               a == Amount(h.lease, g)
    <3>1. Weight(OwedOf(hs, g), cache) = w
      BY <2>2, <1>2, <1>3, HoldNone
    <3>2. SetSum(held, g) = s + a /\ s \in Nat
      <4>1. AddsOne(hs, h, g)
        BY <1>6, SetSumAdds
      <4> QED BY <4>1, <1>3 DEF AddsOne
    <3>3. a \in Nat
      BY <1>6, MeterType
    <3>4. w \in Nat
      BY OtherType
    <3>5. usage' = Release(usage, h.lease)
      BY <2>2 DEF DropClone
    <3>6. Meter(usage', g) = Minus(Meter(usage, g), a)
      BY <3>5, <2>0, <1>6, ReleaseMeter
    <3>7. CacheAmount(g) = w + (s + a) /\ CacheAmount(g)' = w + s
      BY <3>1, <3>2, <1>1 DEF CacheAmount, hs
    <3>8. o \in Nat /\ OtherAmount(g)' = o /\ Meter(usage, g) = o + CacheAmount(g)
      BY <2>0
    <3> HIDE DEF o, w, s, a
    <3>9. Minus(o + (w + (s + a)), a) = o + (w + s)
      BY <3>2, <3>3, <3>4, <3>8 DEF Minus
    <3> QED BY <3>6, <3>7, <3>8, <3>9 DEF Balanced
  <2> QED BY <2>1, <2>2
<1> QED BY <1>5, <1>7

LEMMA CacheStepBooked ==
    ASSUME Booked, FetchMiss \/ InsertAgain \/ FetchHit \/ EvictOldest \/ \E h \in held : DropClone(h)
    PROVE  CacheBooked' /\ \A g \in Gauges : Balanced(g)'
<1>1. CASE FetchMiss
  <2>1. PICK key \in Keys, len \in Sizes, slack \in Slack :
            LET r == Insert(key, len, len + slack)
            IN  /\ cache' = r.cache /\ cacheBytes' = r.bytes /\ usage' = r.usage
                /\ held' = IF r.ok THEN held \cup {Clone(Last(r.cache))} ELSE held
    BY <1>1 DEF FetchMiss
  <2> DEFINE r == Insert(key, len, len + slack)
  <2>2. len \in Nat /\ len + slack \in Nat
    BY ResourcesAssumption
  <2>3. UNCHANGED <<ring, subs, hand, page>>
    BY <1>1 DEF FetchMiss
  <2>4. /\ cache' = r.cache /\ cacheBytes' = r.bytes /\ usage' = r.usage
        /\ held' = held \/ (r.ok /\ held' = held \cup {Clone(Last(r.cache))})
    BY <2>1
  <2>5. r = Insert(key, len, len + slack)
    OBVIOUS
  <2> HIDE DEF r
  <2> QED BY <2>2, <2>3, <2>4, <2>5, InsertBooked
<1>2. CASE InsertAgain
  <2>1. PICK key \in Keys, len \in Sizes :
            LET r == Insert(key, len, len)
            IN  cache' = r.cache /\ cacheBytes' = r.bytes /\ usage' = r.usage
    BY <1>2 DEF InsertAgain
  <2> DEFINE r == Insert(key, len, len)
  <2>2. len \in Nat
    BY ResourcesAssumption
  <2>3. UNCHANGED <<ring, subs, hand, page>> /\ held' = held
    BY <1>2 DEF InsertAgain
  <2>4. cache' = r.cache /\ cacheBytes' = r.bytes /\ usage' = r.usage
    BY <2>1
  <2>5. r = Insert(key, len, len)
    OBVIOUS
  <2> HIDE DEF r
  <2> QED BY <2>2, <2>3, <2>4, <2>5, InsertBooked
<1> QED BY <1>1, <1>2, HitBooked, EvictBooked, DropBooked

-----------------------------------------------------------------------------
(* The ring's steps.                                                       *)

LEMMA CacheKept ==
    ASSUME Booked, UNCHANGED <<cache, cacheBytes, held>>
    PROVE  CacheBooked' /\ \A g \in Gauges : CacheAmount(g)' = CacheAmount(g)
BY DEF Booked, CacheBooked, CacheAmount

\* The amounts an action starts from.
LEMMA Parts ==
    ASSUME Booked, NEW g \in Gauges
    PROVE  /\ Meter(usage, g)
              = QueueAmount(g) + SubsAmount(g) + HandAmount(g) + PageAmount(g) + CacheAmount(g)
           /\ QueueAmount(g) \in Nat /\ SubsAmount(g) \in Nat /\ HandAmount(g) \in Nat
           /\ PageAmount(g) \in Nat /\ CacheAmount(g) \in Nat /\ usage \in UsageType
BY Amounts DEF Booked, Balanced, OtherAmount

\* And the amounts it ends with.
LEMMA PartsAfter ==
    ASSUME NEW g \in Gauges, NEW q, NEW s, NEW h, NEW p, NEW c,
           QueueAmount(g)' = q, SubsAmount(g)' = s, HandAmount(g)' = h, PageAmount(g)' = p,
           CacheAmount(g)' = c, Meter(usage', g) = q + s + h + p + c
    PROVE  Balanced(g)'
BY DEF Balanced, OtherAmount

LEMMA PushedBooked ==
    ASSUME Booked, UpdateDuringRequest, NEW g \in Gauges
    PROVE  Balanced(g)'
<1>1. PICK u \in Updates, sub \in subs, wire \in Sizes, extra \in {0, 2} :
          /\ can_push(ring, wire)
          /\ ring' = push_back(ring, UpdateOf(u, sub, wire, KeptLease(wire, extra)))
          /\ usage' = Charged(usage, wire, extra)
  BY DEF UpdateDuringRequest
<1> DEFINE new == UpdateOf(u, sub, wire, KeptLease(wire, extra))
           q == QueueAmount(g)
           s == SubsAmount(g)
           h == HandAmount(g)
           p == PageAmount(g)
           c == CacheAmount(g)
           a == Amount(KeptLease(wire, extra), g)
<1>2. wire \in Nat /\ extra \in Nat
  BY ResourcesAssumption
<1>3. /\ Meter(usage, g) = q + s + h + p + c /\ usage \in UsageType
      /\ q \in Nat /\ s \in Nat /\ h \in Nat /\ p \in Nat /\ c \in Nat
  BY Parts
<1>4. Meter(usage', g) = Meter(usage, g) + a /\ KeptLease(wire, extra) \in Leases
  BY <1>1, <1>2, <1>3, ChargedMeter
<1>5. a \in Nat
  BY <1>4, MeterType
<1>6. new \in QueuedUpdates /\ new.wire = wire /\ new.lease = KeptLease(wire, extra)
  BY <1>2, <1>4, UpdateOfType DEF Booked, UpdateOf
<1> HIDE DEF new
<1>7. QueueAmount(g)' = q + a
  <2>1. Weight(CostOf(g), Queued(push_back(ring, new)))
        = Weight(CostOf(g), Queued(ring)) + Amount(new.lease, g)
    <3>1. ring \in Rings /\ can_push(ring, new.wire)
      BY <1>1, <1>6 DEF Booked, Sound
    <3> QED BY <3>1, <1>6, PushSum
  <2>2. ring' = push_back(ring, new)
    BY <1>1 DEF new
  <2> QED BY <2>1, <2>2, <1>6 DEF QueueAmount
<1>8. UNCHANGED <<cache, cacheBytes, held, subs, hand, page>>
  BY DEF UpdateDuringRequest
<1>9. SubsAmount(g)' = s /\ HandAmount(g)' = h /\ PageAmount(g)' = p
  BY <1>8 DEF SubsAmount, HandAmount, PageAmount
<1>10. CacheAmount(g)' = c
  BY <1>8, CacheKept
<1> HIDE DEF q, s, h, p, c, a
<1>11. q + s + h + p + c + a = (q + a) + s + h + p + c
  BY <1>3, <1>5
<1>12. Meter(usage', g) = (q + a) + s + h + p + c
  BY <1>3, <1>4, <1>11
<1> QED BY <1>7, <1>9, <1>10, <1>12, PartsAfter

LEMMA PolledBooked ==
    ASSUME Booked, PollQueued, NEW g \in Gauges
    PROVE  Balanced(g)'
<1> DEFINE us == Queued(ring)
           n == Ahead(us)
           ls == LeasesOf(SubSeq(us, 1, n - 1))
           u == us[n]
           q == QueueAmount(g)
           s == SubsAmount(g)
           h == HandAmount(g)
           p == PageAmount(g)
           c == CacheAmount(g)
           a == Amount(u.lease, g)
           b == Weight(CostOf(g), SubSeq(us, 1, n - 1))
           r == Weight(CostOf(g), Queued(Rest(n)))
<1>1. n # 0 /\ hand = None /\ ring' = Rest(n) /\ hand' = u /\ usage' = ReleaseAll(usage, ls)
      /\ UNCHANGED <<cache, cacheBytes, held, subs, page>>
  BY DEF PollQueued
<1>2. n \in DOMAIN us
  BY <1>1, AheadProperties DEF Booked
<1>3. us \in Seq(QueuedUpdates) /\ Len(us) = ring.len /\ ring.len \in Nat /\ ring \in Rings
  BY QueuedProperties DEF Booked, Sound
<1> HIDE DEF n
<1>4. n \in 1..Len(us) /\ n \in 0..ring.len /\ u \in QueuedUpdates
  <2> HIDE DEF us, QueuedUpdates
  <2> QED BY <1>2, <1>3
<1>5. u # None
  BY <1>4, ResourcesAssumption
<1>6. q = Weight(CostOf(g), SubSeq(us, 1, n)) + r /\ r \in Nat
  BY <1>3, <1>4, RestSum DEF QueueAmount
<1>7. Weight(CostOf(g), SubSeq(us, 1, n)) = b + a /\ b \in Nat /\ a \in Nat
      /\ SubSeq(us, 1, n - 1) \in Seq(QueuedUpdates)
  <2> HIDE DEF us
  <2> QED BY <1>3, <1>4, FrontSum
<1>8. ls \in Seq(Leases) /\ Sum(ls, g) = b
  BY <1>7, QueueSum
<1>9. /\ Meter(usage, g) = q + s + h + p + c /\ usage \in UsageType
      /\ q \in Nat /\ s \in Nat /\ h \in Nat /\ p \in Nat /\ c \in Nat
  BY Parts
<1>10. Meter(usage', g) = Minus(Meter(usage, g), b)
  <2> HIDE DEF ls, b
  <2> QED BY <1>1, <1>8, <1>9, ReleaseAllMeter
<1>11. QueueAmount(g)' = r
  BY <1>1 DEF QueueAmount
<1>12. h = 0 /\ HandAmount(g)' = a
  BY <1>1, <1>5 DEF HandAmount
<1>13. SubsAmount(g)' = s /\ PageAmount(g)' = p
  BY <1>1 DEF SubsAmount, PageAmount
<1>14. CacheAmount(g)' = c
  BY <1>1, CacheKept
<1>15. q = (b + a) + r
  BY <1>6, <1>7
<1> HIDE DEF q, s, h, p, c, a, b, r
<1>16. Minus(((b + a) + r) + s + 0 + p + c, b) = r + s + a + p + c
  BY <1>6, <1>7, <1>9 DEF Minus
<1>17. Meter(usage', g) = r + s + a + p + c
  BY <1>9, <1>10, <1>12, <1>15, <1>16
<1> QED BY <1>11, <1>12, <1>13, <1>14, <1>17, PartsAfter

LEMMA DirectBooked ==
    ASSUME Booked, PollDirect, NEW g \in Gauges
    PROVE  Balanced(g)'
<1> DEFINE us == Queued(ring)
           u1 == ReleaseAll(usage, LeasesOf(us))
           q == QueueAmount(g)
           s == SubsAmount(g)
           h == HandAmount(g)
           p == PageAmount(g)
           c == CacheAmount(g)
<1>1. hand = None /\ ring' = Rest(Len(us)) /\ UNCHANGED <<cache, cacheBytes, held, subs, page>>
  BY DEF PollDirect
<1>2. PICK u \in Updates, sub \in subs, wire \in Sizes, extra \in {0, 2} :
          IF TryNew(u1, wire, extra)
          THEN /\ hand' = UpdateOf(u, sub, wire, KeptLease(wire, extra))
               /\ usage' = Charged(u1, wire, extra)
          ELSE hand' = None /\ usage' = u1
  BY DEF PollDirect
<1>3. us \in Seq(QueuedUpdates) /\ Len(us) = ring.len /\ ring.len \in Nat /\ ring \in Rings
  BY QueuedProperties DEF Booked, Sound
<1>4. LeasesOf(us) \in Seq(Leases) /\ Sum(LeasesOf(us), g) = q
  BY <1>3, QueueSum DEF QueueAmount
<1>5. /\ Meter(usage, g) = q + s + h + p + c /\ usage \in UsageType
      /\ q \in Nat /\ s \in Nat /\ h \in Nat /\ p \in Nat /\ c \in Nat
  BY Parts
<1>6. u1 \in UsageType /\ Meter(u1, g) = Minus(Meter(usage, g), q)
  <2> HIDE DEF q
  <2> QED BY <1>4, <1>5, ReleaseAllMeter
<1>7. QueueAmount(g)' = 0
  <2> DEFINE m == ring.len
             z == Rest(m)
  <2>1. m \in 0..ring.len /\ m - m = 0
    BY <1>3
  <2>2. z \in Rings /\ z.len = ring.len - m
    BY <2>1, <1>3, RestProperties
  <2>3. z.len = 0
    BY <2>1, <2>2
  <2>4. ring' = z
    BY <1>1, <1>3
  <2> HIDE DEF z
  <2>5. Weight(CostOf(g), Queued(z)) = 0
    BY <2>2, <2>3, EmptySum
  <2> QED BY <2>4, <2>5 DEF QueueAmount
<1>8. h = 0
  BY <1>1 DEF HandAmount
<1>9. SubsAmount(g)' = s /\ PageAmount(g)' = p
  BY <1>1 DEF SubsAmount, PageAmount
<1>10. CacheAmount(g)' = c
  BY <1>1, CacheKept
<1>11. wire \in Nat /\ extra \in Nat
  BY ResourcesAssumption
<1> HIDE DEF q, s, h, p, c, u1
<1>12. Meter(u1, g) = s + p + c
  <2>1. Minus(q + s + 0 + p + c, q) = s + p + c
    BY <1>5 DEF Minus
  <2> QED BY <2>1, <1>5, <1>6, <1>8
<1>13. CASE TryNew(u1, wire, extra)
  <2> DEFINE l == KeptLease(wire, extra)
             new == UpdateOf(u, sub, wire, l)
             a == Amount(l, g)
  <2>1. hand' = new /\ usage' = Charged(u1, wire, extra)
    BY <1>2, <1>13
  <2>2. Meter(usage', g) = Meter(u1, g) + a /\ l \in Leases
    BY <2>1, <1>6, <1>11, ChargedMeter
  <2>3. new \in QueuedUpdates /\ new.lease = l
    BY <2>2, <1>11, UpdateOfType DEF Booked, UpdateOf
  <2> HIDE DEF new, l
  <2>4. hand' # None
    BY <2>1, <2>3, ResourcesAssumption
  <2>5. HandAmount(g)' = a
    BY <2>1, <2>3, <2>4 DEF HandAmount
  <2>6. a \in Nat
    BY <2>2, MeterType
  <2> HIDE DEF a
  <2>7. s + p + c + a = 0 + s + a + p + c
    BY <2>6, <1>5
  <2>8. Meter(usage', g) = 0 + s + a + p + c
    BY <2>2, <2>7, <1>12
  <2> QED BY <2>5, <2>8, <1>7, <1>9, <1>10, PartsAfter
<1>14. CASE ~TryNew(u1, wire, extra)
  <2>1. hand' = None /\ usage' = u1
    BY <1>2, <1>14
  <2>2. HandAmount(g)' = 0
    BY <2>1 DEF HandAmount
  <2>3. s + p + c = 0 + s + 0 + p + c
    BY <1>5
  <2>4. Meter(usage', g) = 0 + s + 0 + p + c
    BY <2>1, <2>3, <1>12
  <2> QED BY <2>2, <2>4, <1>7, <1>9, <1>10, PartsAfter
<1> QED BY <1>13, <1>14

LEMMA AppliedBooked ==
    ASSUME Booked, Applied, NEW g \in Gauges
    PROVE  Balanced(g)'
<1> DEFINE q == QueueAmount(g)
           s == SubsAmount(g)
           h == HandAmount(g)
           p == PageAmount(g)
           c == CacheAmount(g)
<1>1. hand # None /\ hand' = None /\ usage' = Release(usage, hand.lease)
      /\ UNCHANGED <<cache, cacheBytes, held, subs, ring, page>>
  BY DEF Applied
<1>2. hand \in QueuedUpdates
  BY <1>1 DEF Booked, Sound
<1>3. hand.lease \in Leases
  BY <1>2, CostType
<1>4. /\ Meter(usage, g) = q + s + h + p + c /\ usage \in UsageType
      /\ q \in Nat /\ s \in Nat /\ h \in Nat /\ p \in Nat /\ c \in Nat
  BY Parts
<1>5. Meter(usage', g) = Minus(Meter(usage, g), h)
  <2>1. h = Amount(hand.lease, g)
    BY <1>1 DEF HandAmount
  <2> QED BY <2>1, <1>1, <1>3, <1>4, ReleaseMeter
<1>6. QueueAmount(g)' = q /\ SubsAmount(g)' = s /\ PageAmount(g)' = p
  BY <1>1 DEF QueueAmount, SubsAmount, PageAmount, Queued
<1>7. HandAmount(g)' = 0
  BY <1>1 DEF HandAmount
<1>8. CacheAmount(g)' = c
  BY <1>1, CacheKept
<1> HIDE DEF q, s, h, p, c
<1>9. Minus(q + s + h + p + c, h) = q + s + 0 + p + c
  BY <1>4 DEF Minus
<1>10. Meter(usage', g) = q + s + 0 + p + c
  BY <1>4, <1>5, <1>9
<1> QED BY <1>6, <1>7, <1>8, <1>10, PartsAfter

LEMMA RingStepBooked ==
    ASSUME Booked, UpdateDuringRequest \/ PollQueued \/ PollDirect \/ Applied
    PROVE  CacheBooked' /\ \A g \in Gauges : Balanced(g)'
<1>1. UNCHANGED <<cache, cacheBytes, held>>
  BY DEF UpdateDuringRequest, PollQueued, PollDirect, Applied
<1>2. CacheBooked'
  BY <1>1, CacheKept
<1> QED BY <1>2, PushedBooked, PolledBooked, DirectBooked, AppliedBooked

-----------------------------------------------------------------------------
(* The subscriptions' steps and the page's.                                *)

\* All that belongs to the pages is given up.
LEMMA ResetBooked ==
    ASSUME Booked, subs' = {}, ring' = EmptyRing, usage' = ReleaseAll(Cleared, SubLeases(subs)),
           UNCHANGED <<cache, cacheBytes, held, hand, page>>, NEW g \in Gauges
    PROVE  Balanced(g)'
<1> DEFINE h == HandAmount(g)
           p == PageAmount(g)
           c == CacheAmount(g)
<1>1. h \in Nat /\ p \in Nat /\ c \in Nat
  BY Parts
<1>2. Meter(usage', g) = h + p + c
  BY ClearedMeter
<1>3. QueueAmount(g)' = 0
  <2>1. EmptyRing \in Rings /\ EmptyRing.len = 0
    BY EmptyRingGood DEF EmptyRing
  <2> QED BY <2>1, EmptySum DEF QueueAmount
<1>4. SubsAmount(g)' = 0
  BY NoneSum DEF SubsAmount
<1>5. HandAmount(g)' = h /\ PageAmount(g)' = p
  BY DEF HandAmount, PageAmount
<1>6. CacheAmount(g)' = c
  BY CacheKept
<1> HIDE DEF h, p, c
<1>7. Meter(usage', g) = 0 + 0 + h + p + c
  <2>1. h + p + c = 0 + 0 + h + p + c
    BY <1>1
  <2> QED BY <2>1, <1>2
<1> QED BY <1>3, <1>4, <1>5, <1>6, <1>7, PartsAfter

LEMMA LostBooked ==
    ASSUME Booked, ConnectionLost, NEW g \in Gauges
    PROVE  Balanced(g)'
<1> DEFINE s == SubsAmount(g)
           h == HandAmount(g)
           p == PageAmount(g)
           c == CacheAmount(g)
<1>1. ring' = EmptyRing /\ usage' = Cleared /\ UNCHANGED <<cache, cacheBytes, held, subs, hand, page>>
  BY DEF ConnectionLost, clear
<1>2. s \in Nat /\ h \in Nat /\ p \in Nat /\ c \in Nat
  BY Parts
<1>3. Meter(usage', g) = s + h + p + c
  BY <1>1, ClearedMeter
<1>4. QueueAmount(g)' = 0
  <2>1. EmptyRing \in Rings /\ EmptyRing.len = 0
    BY EmptyRingGood DEF EmptyRing
  <2> QED BY <1>1, <2>1, EmptySum DEF QueueAmount
<1>5. SubsAmount(g)' = s /\ HandAmount(g)' = h /\ PageAmount(g)' = p
  BY <1>1 DEF SubsAmount, HandAmount, PageAmount
<1>6. CacheAmount(g)' = c
  BY <1>1, CacheKept
<1> HIDE DEF s, h, p, c
<1>7. Meter(usage', g) = 0 + s + h + p + c
  <2>1. s + h + p + c = 0 + s + h + p + c
    BY <1>2
  <2> QED BY <2>1, <1>3
<1> QED BY <1>4, <1>5, <1>6, <1>7, PartsAfter

LEMMA SubscribedBooked ==
    ASSUME Booked, Subscribe, NEW g \in Gauges
    PROVE  Balanced(g)'
<1>1. PICK region \in Regions :
          /\ OwnerOf(region) = {}
          /\ subs' = subs \cup {[region |-> region, scope |-> scope, lease |-> SubKept]}
          /\ usage' = Resize(Reserve(usage, SubLease(region)), SubLease(region), SubKept)
  BY DEF Subscribe
<1> DEFINE new == [region |-> region, scope |-> scope, lease |-> SubKept]
           q == QueueAmount(g)
           s == SubsAmount(g)
           h == HandAmount(g)
           p == PageAmount(g)
           c == CacheAmount(g)
           a == Amount(SubKept, g)
<1>2. UNCHANGED <<cache, cacheBytes, held, ring, hand, page>>
  BY DEF Subscribe
<1>3. SubLease(region) \in Leases /\ SubKept \in Leases /\ SubKept.cat = SubLease(region).cat
  <2>1. SubsBound \in Nat /\ SubsBound - 1 \in Nat
    BY ResourcesAssumption
  <2> QED BY <2>1 DEF SubLease, SubKept, Exact, Lease, Leases, Cats
<1>4. new.lease = SubKept /\ new.region = region
  OBVIOUS
<1>5. \A t \in subs : t.region # region
  BY <1>1 DEF OwnerOf
<1> HIDE DEF new
<1>6. new \notin subs /\ subs' = subs \cup {new}
  BY <1>1, <1>4, <1>5 DEF new
<1>7. /\ Meter(usage, g) = q + s + h + p + c /\ usage \in UsageType /\ LeasesIn(subs)
      /\ q \in Nat /\ s \in Nat /\ h \in Nat /\ p \in Nat /\ c \in Nat
  BY Parts, Amounts DEF Booked
<1>8. Meter(usage', g) = Meter(usage, g) + a
  BY <1>1, <1>3, <1>7, ChargeMeter
<1>9. a \in Nat
  BY <1>3, MeterType
<1>10. SubsAmount(g)' = s + a
  <2>1. new.lease \in Leases
    BY <1>3, <1>4
  <2>2. AddsOne(subs, new, g)
    BY <2>1, <1>7, SetSumAdds
  <2>3. SetSum(subs \cup {new}, g) = SetSum(subs, g) + Amount(new.lease, g)
    BY <2>2, <1>6 DEF AddsOne
  <2> QED BY <2>3, <1>4, <1>6 DEF SubsAmount
<1>11. QueueAmount(g)' = q /\ HandAmount(g)' = h /\ PageAmount(g)' = p
  BY <1>2 DEF QueueAmount, HandAmount, PageAmount, Queued
<1>12. CacheAmount(g)' = c
  BY <1>2, CacheKept
<1> HIDE DEF q, s, h, p, c, a
<1>13. Meter(usage', g) = q + (s + a) + h + p + c
  <2>1. q + s + h + p + c + a = q + (s + a) + h + p + c
    BY <1>7, <1>9
  <2> QED BY <2>1, <1>7, <1>8
<1> QED BY <1>10, <1>11, <1>12, <1>13, PartsAfter

LEMMA RetiredBooked ==
    ASSUME Booked, RetireOther, NEW g \in Gauges
    PROVE  Balanced(g)'
<1>1. PICK k \in Scopes :
          /\ subs' = subs \ {sub \in subs : sub.scope = k}
          /\ ring' = retire_scope(k).ring
          /\ usage' = ReleaseAll(retire_scope(k).usage, SubLeases({sub \in subs : sub.scope = k}))
  BY DEF RetireOther
<1> DEFINE gone == {sub \in subs : sub.scope = k}
           rest == subs \ gone
           z == retire_scope(k)
           q == QueueAmount(g)
           s == SubsAmount(g)
           h == HandAmount(g)
           p == PageAmount(g)
           c == CacheAmount(g)
           a == SetSum(gone, g)
           b == SetSum(rest, g)
           r == Weight(CostOf(g), Queued(z.ring))
           X == s + h + p + c
<1>2. UNCHANGED <<cache, cacheBytes, held, hand, page>> /\ subs' = rest /\ ring' = z.ring
      /\ usage' = ReleaseAll(z.usage, SubLeases(gone))
  BY <1>1 DEF RetireOther
<1>3. /\ Meter(usage, g) = q + s + h + p + c /\ usage \in UsageType /\ LeasesIn(subs)
      /\ q \in Nat /\ s \in Nat /\ h \in Nat /\ p \in Nat /\ c \in Nat
  BY Parts, Amounts DEF Booked
<1>4. z \in Holdings /\ z.usage \in UsageType /\ z.ring \in Rings
  BY RetireProperties DEF Booked, Sound, Holdings, GoodUsage
<1>5. SubLeases(gone) \in Seq(Leases)
  BY ClearedGood DEF Booked
<1>6. Meter(usage', g) = Minus(Meter(z.usage, g), a)
  <2> HIDE DEF z, gone
  <2> QED BY <1>2, <1>4, <1>5, ReleaseAllMeter DEF SetSum
<1>7. s = b + a /\ b \in Nat /\ a \in Nat
  <2>1. LeasesIn(gone) /\ LeasesIn(rest)
    <3>1. IsFiniteSet(gone) /\ IsFiniteSet(rest)
      <4>1. gone \in SUBSET subs /\ rest \in SUBSET subs
        OBVIOUS
      <4> HIDE DEF gone, rest
      <4> QED BY <4>1, <1>3, FS_Subset DEF LeasesIn
    <3> QED BY <3>1, <1>3 DEF LeasesIn
  <2>2. subs = rest \cup gone /\ rest \cap gone = {}
    OBVIOUS
  <2> HIDE DEF gone, rest
  <2>3. SetSum(rest \cup gone, g) = SetSum(rest, g) + SetSum(gone, g)
        /\ SetSum(rest, g) \in Nat /\ SetSum(gone, g) \in Nat
    <3>1. LeasesIn(rest) /\ LeasesIn(gone) /\ rest \cap gone = {}
      BY <2>1, <2>2
    <3> QED BY <3>1, SetSumUnion
  <2> QED BY <2>2, <2>3 DEF SubsAmount
<1>8. r \in Nat
  <2>1. Queued(z.ring) \in Seq(QueuedUpdates)
    BY <1>4, QueuedProperties
  <2> QED BY <2>1, QueueSum
<1>9. X \in Nat /\ Meter(usage, g) = X + q
  <2> HIDE DEF q, s, h, p, c
  <2>1. s + h + p + c \in Nat /\ q + s + h + p + c = (s + h + p + c) + q
    BY <1>3
  <2> QED BY <2>1, <1>3
<1>10. Meter(z.usage, g) = X + r
  <2> DEFINE Y == X
  <2>1. Y \in Nat /\ Meter(usage, g) = Y + Weight(CostOf(g), Queued(ring))
    BY <1>9 DEF QueueAmount
  <2>2. ring \in Rings /\ usage \in GoodUsage
    BY DEF Booked, Sound
  <2> HIDE DEF Y
  <2>3. Meter(retire_scope(k).usage, g) = Y + Weight(CostOf(g), Queued(retire_scope(k).ring))
    BY <2>1, <2>2, RetireSum
  <2> QED BY <2>3 DEF Y
<1>11. QueueAmount(g)' = r
  BY <1>2 DEF QueueAmount
<1>12. SubsAmount(g)' = b
  BY <1>2 DEF SubsAmount
<1>13. HandAmount(g)' = h /\ PageAmount(g)' = p
  BY <1>2 DEF HandAmount, PageAmount
<1>14. CacheAmount(g)' = c
  BY <1>2, CacheKept
<1>15. Meter(usage', g) = r + b + h + p + c
  <2>1. Meter(usage', g) = Minus((s + h + p + c) + r, a)
    BY <1>6, <1>10
  <2> HIDE DEF q, s, h, p, c, a, b, r
  <2>2. Minus(((b + a) + h + p + c) + r, a) = r + b + h + p + c
    BY <1>3, <1>7, <1>8 DEF Minus
  <2> QED BY <2>1, <2>2, <1>7
<1> HIDE DEF q, s, h, p, c, a, b, r, z, X
<1> QED BY <1>11, <1>12, <1>13, <1>14, <1>15, PartsAfter

LEMMA OwnerStepBooked ==
    ASSUME Booked, Subscribe \/ Activate \/ RetireCurrent \/ RetireOther \/ ConnectionLost \/ Disconnect
    PROVE  CacheBooked' /\ \A g \in Gauges : Balanced(g)'
<1>1. UNCHANGED <<cache, cacheBytes, held, hand, page>>
  BY DEF Subscribe, Activate, RetireCurrent, RetireOther, ConnectionLost, Disconnect
<1>2. CacheBooked'
  BY <1>1, CacheKept
<1>3. ASSUME NEW g \in Gauges PROVE Balanced(g)'
  <2>1. CASE subs' = {} /\ ring' = EmptyRing /\ usage' = ReleaseAll(Cleared, SubLeases(subs))
    BY <2>1, <1>1, ResetBooked
  <2>2. CASE UNCHANGED <<subs, ring, usage>>
    <3>1. Balanced(g)
      BY DEF Booked
    <3> QED BY <3>1, <2>2, <1>1
        DEF Balanced, OtherAmount, QueueAmount, SubsAmount, HandAmount, PageAmount, CacheAmount, Queued
  <2>3. CASE Activate
    BY <2>1, <2>3 DEF Activate
  <2>4. CASE Disconnect
    BY <2>1, <2>4 DEF Disconnect
  <2>5. CASE RetireCurrent
    BY <2>1, <2>2, <2>5 DEF RetireCurrent
  <2> QED BY <2>3, <2>4, <2>5, SubscribedBooked, RetiredBooked, LostBooked
<1> QED BY <1>2, <1>3

LEMMA PageStepBooked ==
    ASSUME Booked, OpenPage \/ ResizePage \/ ClosePage
    PROVE  CacheBooked' /\ \A g \in Gauges : Balanced(g)'
<1>1. UNCHANGED <<cache, cacheBytes, held, subs, ring, hand>>
  BY DEF OpenPage, ResizePage, ClosePage
<1>2. CacheBooked'
  BY <1>1, CacheKept
<1>3. ASSUME NEW n \in PageUnits
      PROVE  PageLease(n) \in Leases /\ PageLease(n).cat = "SceneCells" /\ PageLease(n) # None
  <2>1. n \in Nat /\ 2 * n \in Nat
    BY ResourcesAssumption
  <2>2. PageLease(n) \in Leases /\ PageLease(n).cat = "SceneCells"
    BY <2>1 DEF PageLease, Lease, Leases, Cats
  <2> QED BY <2>2, ResourcesAssumption
<1>4. ASSUME NEW g \in Gauges PROVE Balanced(g)'
  <2> DEFINE q == QueueAmount(g)
             s == SubsAmount(g)
             h == HandAmount(g)
             p == PageAmount(g)
             c == CacheAmount(g)
  <2>1. /\ Meter(usage, g) = q + s + h + p + c /\ usage \in UsageType
        /\ q \in Nat /\ s \in Nat /\ h \in Nat /\ p \in Nat /\ c \in Nat
    BY Parts
  <2>2. QueueAmount(g)' = q /\ SubsAmount(g)' = s /\ HandAmount(g)' = h
    BY <1>1 DEF QueueAmount, SubsAmount, HandAmount, Queued
  <2>3. CacheAmount(g)' = c
    BY <1>1, CacheKept
  <2>4. page # None => page \in Leases /\ p = Amount(page, g)
    BY DEF Booked, Sound, PageAmount
  <2>5. CASE OpenPage
    <3>1. PICK n \in PageUnits : page' = PageLease(n) /\ usage' = Reserve(usage, PageLease(n))
      BY <2>5 DEF OpenPage
    <3> DEFINE a == Amount(PageLease(n), g)
    <3>2. p = 0 /\ PageAmount(g)' = a
      BY <2>5, <3>1, <1>3 DEF OpenPage, PageAmount
    <3>3. Meter(usage', g) = Meter(usage, g) + a
      BY <3>1, <1>3, <2>1, ReserveMeter
    <3>4. a \in Nat
      BY <1>3, MeterType
    <3> HIDE DEF q, s, h, p, c, a
    <3>5. q + s + h + 0 + c + a = q + s + h + a + c
      BY <2>1, <3>4
    <3>6. Meter(usage', g) = q + s + h + a + c
      BY <2>1, <3>2, <3>3, <3>5
    <3> QED BY <2>2, <2>3, <3>2, <3>6, PartsAfter
  <2>6. CASE ResizePage
    <3>1. PICK n \in PageUnits : page' = PageLease(n) /\ usage' = Resize(usage, page, PageLease(n))
      BY <2>6 DEF ResizePage
    <3> DEFINE a == Amount(PageLease(n), g)
    <3>2. page # None /\ page \in Leases /\ p = Amount(page, g)
      BY <2>4, <2>6 DEF ResizePage
    <3>3. PageAmount(g)' = a
      BY <3>1, <1>3 DEF PageAmount
    <3>4. PageLease(n).cat = page.cat /\ \A f \in Gauges : Amount(page, f) <= Meter(usage, f)
      <4>1. PageLease(n).cat = page.cat
        BY <3>2, <1>3 DEF Booked, PageOfCells
      <4>2. ASSUME NEW f \in Gauges PROVE Amount(page, f) <= Meter(usage, f)
        <5> DEFINE i == QueueAmount(f)
                   j == SubsAmount(f)
                   k == HandAmount(f)
                   l == Amount(page, f)
                   m == CacheAmount(f)
        <5>1. l = PageAmount(f)
          BY <3>2 DEF PageAmount
        <5>2. /\ Meter(usage, f) = i + j + k + l + m
              /\ i \in Nat /\ j \in Nat /\ k \in Nat /\ l \in Nat /\ m \in Nat
          BY <5>1, Parts
        <5> HIDE DEF i, j, k, l, m
        <5>3. l <= i + j + k + l + m
          BY <5>2
        <5> QED BY <5>2, <5>3 DEF l
      <4> QED BY <4>1, <4>2
    <3>5. Meter(usage', g) = (Meter(usage, g) - p) + a
      BY <3>1, <3>2, <3>4, <1>3, <2>1, ResizeMeter
    <3>6. a \in Nat
      BY <1>3, MeterType
    <3> HIDE DEF q, s, h, p, c, a
    <3>7. ((q + s + h + p + c) - p) + a = q + s + h + a + c
      BY <2>1, <3>6
    <3>8. Meter(usage', g) = q + s + h + a + c
      BY <2>1, <3>5, <3>7
    <3> QED BY <2>2, <2>3, <3>3, <3>8, PartsAfter
  <2>7. CASE ClosePage
    <3>1. page # None /\ page' = None /\ usage' = Release(usage, page)
      BY <2>7 DEF ClosePage
    <3>2. Meter(usage', g) = Minus(Meter(usage, g), p)
      BY <3>1, <2>1, <2>4, ReleaseMeter
    <3>3. PageAmount(g)' = 0
      BY <3>1 DEF PageAmount
    <3> HIDE DEF q, s, h, p, c
    <3>4. Minus(q + s + h + p + c, p) = q + s + h + 0 + c
      BY <2>1 DEF Minus
    <3>5. Meter(usage', g) = q + s + h + 0 + c
      BY <2>1, <3>2, <3>4
    <3> QED BY <2>2, <2>3, <3>3, <3>5, PartsAfter
  <2> QED BY <2>5, <2>6, <2>7
<1> QED BY <1>2, <1>4

\* What is opened for the page stays a lease of its category.
LEMMA NextPageOfCells ==
    PageOfCells /\ [Next]_vars => PageOfCells'
<1> SUFFICES ASSUME PageOfCells, [Next]_vars PROVE PageOfCells'
  OBVIOUS
<1>1. \A n : PageLease(n).cat = "SceneCells"
  BY DEF PageLease, Lease
<1>2. CASE OpenPage \/ ResizePage \/ ClosePage
  BY <1>1, <1>2 DEF OpenPage, ResizePage, ClosePage, PageOfCells
<1>3. CASE page' = page
  BY <1>3 DEF PageOfCells
<1>4. CASE FetchMiss \/ InsertAgain \/ FetchHit \/ EvictOldest \/ \E h \in held : DropClone(h)
  BY <1>3, <1>4 DEF FetchMiss, InsertAgain, FetchHit, EvictOldest, DropClone
<1>5. CASE UpdateDuringRequest \/ PollQueued \/ PollDirect \/ Applied
  BY <1>3, <1>5 DEF UpdateDuringRequest, PollQueued, PollDirect, Applied
<1>6. CASE Subscribe \/ Activate \/ RetireCurrent \/ RetireOther \/ ConnectionLost \/ Disconnect
  BY <1>3, <1>6 DEF Subscribe, Activate, RetireCurrent, RetireOther, ConnectionLost, Disconnect
<1>7. CASE UNCHANGED vars
  BY <1>3, <1>7 DEF vars
<1> QED BY <1>2, <1>4, <1>5, <1>6, <1>7 DEF Next

LEMMA InitBooked ==
    Init => Booked
<1> SUFFICES ASSUME Init PROVE Booked
  OBVIOUS
<1>1. Sound
  BY InitSound
<1>2. cache = <<>> /\ cacheBytes = 0 /\ held = {} /\ subs = {} /\ ring = EmptyRing /\ hand = None
      /\ page = None /\ usage = Free
  BY DEF Init
<1>3. CacheBooked
  <2>1. Weight(LenOf, <<>>) = 0
    BY WeightEmpty
  <2>2. Len(cache) = 0 /\ DOMAIN cache = {}
    BY <1>2
  <2>3. 0 <= CacheBytes /\ 0 <= CacheCount
    BY ResourcesAssumption
  <2> QED BY <1>2, <2>1, <2>2, <2>3 DEF CacheBooked, Shared, Apart
<1>4. ASSUME NEW g \in Gauges PROVE Balanced(g)
  <2>1. QueueAmount(g) = 0
    BY <1>2, EmptyRingGood, EmptySum DEF QueueAmount
  <2>2. SubsAmount(g) = 0 /\ SetSum(held, g) = 0
    BY <1>2, NoneSum DEF SubsAmount
  <2>3. HandAmount(g) = 0 /\ PageAmount(g) = 0
    BY <1>2 DEF HandAmount, PageAmount
  <2>4. Weight(OwedOf(held, g), cache) = 0
    BY <1>2, WeightEmpty
  <2>5. Meter(usage, g) = 0
    BY <1>2, FreeMeter
  <2> QED BY <2>1, <2>2, <2>3, <2>4, <2>5 DEF Balanced, OtherAmount, CacheAmount
<1>5. PageOfCells
  BY <1>2 DEF PageOfCells
<1> QED BY <1>1, <1>3, <1>4, <1>5 DEF Booked

LEMMA NextBooked ==
    Booked /\ [Next]_vars => Booked'
<1> SUFFICES ASSUME Booked, [Next]_vars PROVE Booked'
  OBVIOUS
<1>1. Sound' /\ PageOfCells'
  BY NextSound, NextPageOfCells DEF Booked
<1>2. CacheBooked' /\ \A g \in Gauges : Balanced(g)'
  <2>1. CASE Next
    BY <2>1, CacheStepBooked, RingStepBooked, OwnerStepBooked, PageStepBooked DEF Next
  <2>2. CASE UNCHANGED vars
    <3>1. CacheBooked /\ \A g \in Gauges : Balanced(g)
      BY DEF Booked
    <3>2. \A g \in Gauges : OtherAmount(g)' = OtherAmount(g)
      BY <2>2, OtherKept DEF vars
    <3>3. CacheBooked' /\ \A g \in Gauges : CacheAmount(g)' = CacheAmount(g)
      BY <2>2, CacheKept DEF vars
    <3> QED BY <3>1, <3>2, <3>3, <2>2 DEF vars, Balanced
  <2> QED BY <2>1, <2>2
<1> QED BY <1>1, <1>2 DEF Booked

-----------------------------------------------------------------------------
(* What that says of the cache and of the leases alive.                    *)

LEMMA BookedCacheExact ==
    Booked => CacheExact
<1> SUFFICES ASSUME Booked PROVE CacheExact
  OBVIOUS
<1>1. cache \in Seq(Entries) /\ Apart(cache) /\ cacheBytes = Weight(LenOf, cache)
      /\ cacheBytes <= CacheBytes /\ Len(cache) <= CacheCount
  BY DEF Booked, Sound, CacheBooked, Shared
<1>2. Total([i \in DOMAIN cache |-> cache[i].len]) = Weight(LenOf, cache)
  BY <1>1, LensWeigh
<1>3. \A i, j \in DOMAIN cache : cache[i].key = cache[j].key => i = j
  BY <1>1 DEF Apart
<1> QED BY <1>1, <1>2, <1>3 DEF CacheExact

LEMMA ConcatSum ==
    ASSUME NEW ls \in Seq(Leases), NEW ms \in Seq(Leases), NEW g \in Gauges
    PROVE  ls \o ms \in Seq(Leases) /\ Sum(ls \o ms, g) = Sum(ls, g) + Sum(ms, g)
<1>1. AmountOf(g) \in [Leases -> Nat]
  BY SumType
<1>2. Weight(AmountOf(g), ls \o ms) = Weight(AmountOf(g), ls) + Weight(AmountOf(g), ms)
  BY <1>1, WeightConcat
<1>3. ls \o ms \in Seq(Leases)
  BY ConcatProperties
<1> QED BY <1>2, <1>3 DEF Sum

LEMMA OneSum ==
    ASSUME NEW l \in Leases, NEW g \in Gauges
    PROVE  <<l>> \in Seq(Leases) /\ Sum(<<l>>, g) = Amount(l, g)
<1> DEFINE w == AmountOf(g)
<1>1. w \in [Leases -> Nat] /\ w[l] = Amount(l, g)
  BY SumType DEF AmountOf
<1> HIDE DEF w, Leases
<1>2. <<>> \in Seq(Leases) /\ <<l>> = Append(<<>>, l) /\ <<l>> \in Seq(Leases)
  OBVIOUS
<1>3. Weight(w, Append(<<>>, l)) = Weight(w, <<>>) + w[l]
  BY <1>1, <1>2, WeightAppend
<1>4. Weight(w, <<>>) = 0
  BY WeightEmpty
<1>5. Amount(l, g) \in Nat
  BY MeterType DEF Leases
<1> QED BY <1>1, <1>2, <1>3, <1>4, <1>5 DEF Sum, w

\* The keys' leases of the cache, and one for the bytes of each clone or entry.
KeyLeases == [i \in DOMAIN cache |-> cache[i].keyLease]
SharedBytes == {Clone(cache[i]) : i \in DOMAIN cache} \cup held

LEMMA CacheAmountAlive ==
    ASSUME Booked, NEW g \in Gauges
    PROVE  /\ CacheAmount(g) = Sum(KeyLeases, g) + SetSum(SharedBytes, g)
           /\ KeyLeases \in Seq(Leases) /\ LeasesIn(SharedBytes)
           /\ Sum(KeyLeases, g) \in Nat /\ SetSum(SharedBytes, g) \in Nat
<1> DEFINE n == Len(cache)
           X(k) == held \cup {Clone(cache[i]) : i \in 1..k}
           W(k) == Weight(OwedOf(X(k), g), cache)
           Same(k) == /\ LeasesIn(X(k)) /\ W(k) + SetSum(X(k), g) = CacheAmount(g)
                      /\ W(k) \in Nat /\ SetSum(X(k), g) \in Nat
           T == {k \in 0..n : Same(k)}
<1>1. cache \in Seq(Entries) /\ Apart(cache) /\ Shared(cache, held)
  BY DEF Booked, Sound, CacheBooked, Shared
<1>2. n \in Nat /\ DOMAIN cache = 1..n /\ \A i \in 1..n : cache[i] \in Entries
  <2> HIDE DEF Entries
  <2> QED BY <1>1
<1>3. Same(0)
  <2>1. X(0) = held
    OBVIOUS
  <2>2. LeasesIn(held) /\ Weight(OwedOf(held, g), cache) \in Nat /\ SetSum(held, g) \in Nat
    BY Amounts DEF Booked
  <2> HIDE DEF X
  <2> QED BY <2>1, <2>2 DEF CacheAmount
<1>4. ASSUME NEW k \in 0..n - 1, Same(k) PROVE Same(k + 1)
  <2> DEFINE i == k + 1
             hs == X(k)
             more == X(i)
  <2>1. i \in DOMAIN cache /\ \A j \in 1..i : j \in 1..k \/ j = i
    BY <1>2
  <2>2. more = hs \cup {Clone(cache[i])}
    <3>1. \A j \in 1..k : j \in 1..i
      BY <1>2
    <3>2. i \in 1..i
      BY <1>2
    <3> HIDE DEF i
    <3> QED BY <2>1, <3>1, <3>2
  <2>3. \A h \in hs : h.rid = cache[i].rid => h = Clone(cache[i])
    <3>1. \A j \in 1..k : j \in DOMAIN cache /\ Clone(cache[j]).rid = cache[j].rid
      BY <1>2 DEF Clone
    <3> HIDE DEF i
    <3> QED BY <2>1, <3>1, <1>1 DEF Apart, Shared
  <2>4. LeasesIn(hs) /\ Weight(OwedOf(hs, g), cache) + SetSum(hs, g) = CacheAmount(g)
    BY <1>4
  <2> HIDE DEF i, hs, more
  <2>5. /\ LeasesIn(more)
        /\ Weight(OwedOf(more, g), cache) + SetSum(more, g) = Weight(OwedOf(hs, g), cache) + SetSum(hs, g)
        /\ Weight(OwedOf(more, g), cache) \in Nat /\ SetSum(more, g) \in Nat
    BY <2>1, <2>2, <2>3, <2>4, <1>1, HoldOne
  <2>6. Same(i)
    BY <2>4, <2>5 DEF more
  <2> QED BY <2>6 DEF i
<1>5. Same(n)
  <2> HIDE DEF Same, n
  <2>1. 0 \in T
    BY <1>2, <1>3
  <2>2. ASSUME NEW k \in 0..n - 1, k \in T PROVE k + 1 \in T
    BY <2>2, <1>2, <1>4
  <2> HIDE DEF T
  <2>3. 0..n \subseteq T
    BY <2>1, <2>2, <1>2, IntervalInduction
  <2>4. n \in T
    BY <2>3, <1>2
  <2> QED BY <2>4 DEF T
<1>6. X(n) = SharedBytes
  BY <1>2 DEF SharedBytes
<1>7. KeyLeases \in Seq(Leases)
  <2>1. \A i \in 1..n : cache[i].keyLease \in Leases
    BY <1>2 DEF Entries
  <2>2. KeyLeases = [i \in 1..n |-> cache[i].keyLease]
    BY <1>2 DEF KeyLeases
  <2> HIDE DEF n, Leases
  <2> QED BY <2>1, <2>2, <1>2, SeqDef
<1>8. Weigh(OwedOf(SharedBytes, g), cache) = Weigh(AmountOf(g), KeyLeases)
  <2> DEFINE v == OwedOf(SharedBytes, g)
             w == AmountOf(g)
  <2>1. \A x \in Entries : v[x] = Owed(SharedBytes, x, g)
    BY OwedType
  <2>2. ASSUME NEW i \in DOMAIN cache PROVE v[cache[i]] = w[KeyLeases[i]]
    <3>1. cache[i] \in Entries
      BY <1>2
    <3>2. cache[i].keyLease \in Leases /\ Clone(cache[i]).rid = cache[i].rid
      BY <3>1 DEF Entries, Clone
    <3>3. \E h \in SharedBytes : h.rid = cache[i].rid
      BY <3>2 DEF SharedBytes
    <3>4. Owed(SharedBytes, cache[i], g) = Amount(cache[i].keyLease, g) + 0
      BY <3>3 DEF Owed
    <3>5. KeyLeases[i] = cache[i].keyLease
      BY DEF KeyLeases
    <3>6. w[KeyLeases[i]] = Amount(cache[i].keyLease, g) /\ Amount(cache[i].keyLease, g) \in Nat
      BY <3>2, <3>5, MeterType DEF AmountOf
    <3> HIDE DEF v, w
    <3> QED BY <2>1, <3>1, <3>4, <3>6
  <2>3. DOMAIN KeyLeases = DOMAIN cache
    BY DEF KeyLeases
  <2> HIDE DEF v, w
  <2>4. Weigh(v, cache) = Weigh(w, KeyLeases)
    BY <2>2, <2>3 DEF Weigh
  <2> QED BY <2>4 DEF v, w
<1>9. W(n) = Sum(KeyLeases, g)
  <2>1. W(n) = Weight(OwedOf(SharedBytes, g), cache)
    BY <1>6
  <2> QED BY <2>1, <1>8 DEF Weight, Sum
<1> HIDE DEF W, X, n
<1> QED BY <1>5, <1>6, <1>7, <1>9

LEMMA BookedBooksExact ==
    Booked => BooksExact
<1> SUFFICES ASSUME Booked PROVE BooksExact
  OBVIOUS
<1> DEFINE a == LeasesOf(Queued(ring))
           b == SubLeases(subs)
           c == KeyLeases
           d == SubLeases(SharedBytes)
           e == IF hand = None THEN <<>> ELSE <<hand.lease>>
           f == IF page = None THEN <<>> ELSE <<page>>
           z == ReserveAll(Free, Alive)
<1>1. Alive = a \o b \o c \o d \o e \o f
  BY DEF Alive, KeyLeases, SharedBytes
<1>2. Queued(ring) \in Seq(QueuedUpdates) /\ hand \in QueuedUpdates \cup {None} /\ page \in Leases \cup {None}
  BY QueuedProperties DEF Booked, Sound
<1>3. a \in Seq(Leases) /\ b \in Seq(Leases) /\ c \in Seq(Leases) /\ d \in Seq(Leases)
  <2> DEFINE g == <<"bytes", "SceneCells">>
  <2>1. g \in Gauges
    BY DEF Gauges, Cats
  <2> HIDE DEF g
  <2>2. a \in Seq(Leases)
    BY <1>2, <2>1, QueueSum
  <2>3. b \in Seq(Leases)
    BY ClearedGood DEF Booked
  <2>4. c \in Seq(Leases) /\ LeasesIn(SharedBytes)
    BY <2>1, CacheAmountAlive
  <2>5. d \in Seq(Leases)
    BY <2>4, SubLeasesType DEF LeasesIn
  <2> QED BY <2>2, <2>3, <2>4, <2>5
<1>4. ASSUME NEW g \in Gauges
      PROVE  e \in Seq(Leases) /\ Sum(e, g) = HandAmount(g)
  <2>1. CASE hand = None
    BY <2>1, WeightEmpty DEF HandAmount, Sum
  <2>2. CASE hand # None
    <3>1. hand.lease \in Leases
      BY <1>2, <2>2, CostType
    <3> QED BY <2>2, <3>1, OneSum DEF HandAmount
  <2> QED BY <2>1, <2>2
<1>5. ASSUME NEW g \in Gauges
      PROVE  f \in Seq(Leases) /\ Sum(f, g) = PageAmount(g)
  <2>1. CASE page = None
    BY <2>1, WeightEmpty DEF PageAmount, Sum
  <2>2. CASE page # None
    BY <1>2, <2>2, OneSum DEF PageAmount
  <2> QED BY <2>1, <2>2
<1>6. ASSUME NEW g \in Gauges
      PROVE  Alive \in Seq(Leases) /\ Sum(Alive, g) = Meter(usage, g)
  <2> DEFINE q == QueueAmount(g)
             s == SubsAmount(g)
             h == HandAmount(g)
             p == PageAmount(g)
             k == Sum(c, g)
             m == SetSum(SharedBytes, g)
  <2>1. Sum(a, g) = q /\ Sum(b, g) = s /\ Sum(d, g) = m
    BY <1>2, QueueSum DEF QueueAmount, SubsAmount, SetSum
  <2>2. Sum(e, g) = h /\ Sum(f, g) = p /\ e \in Seq(Leases) /\ f \in Seq(Leases)
    BY <1>4, <1>5
  <2>3. k \in Nat /\ m \in Nat /\ CacheAmount(g) = k + m
    BY CacheAmountAlive
  <2>4. Meter(usage, g) = q + s + h + p + CacheAmount(g)
        /\ q \in Nat /\ s \in Nat /\ h \in Nat /\ p \in Nat
    BY Parts
  <2> HIDE DEF a, b, c, d, e, f
  <2>5. a \o b \in Seq(Leases) /\ Sum(a \o b, g) = Sum(a, g) + Sum(b, g)
    BY <1>3, ConcatSum
  <2> DEFINE i == a \o b
             j == i \o c
             l == j \o d
             n == l \o e
  <2>6. j \in Seq(Leases) /\ Sum(j, g) = Sum(i, g) + k
    <3> HIDE DEF i
    <3>1. i \in Seq(Leases)
      BY <2>5 DEF i
    <3> QED BY <3>1, <1>3, ConcatSum
  <2>7. l \in Seq(Leases) /\ Sum(l, g) = Sum(j, g) + Sum(d, g)
    <3> HIDE DEF j
    <3>1. j \in Seq(Leases)
      BY <2>6
    <3> QED BY <3>1, <1>3, ConcatSum
  <2>8. n \in Seq(Leases) /\ Sum(n, g) = Sum(l, g) + Sum(e, g)
    <3> HIDE DEF l
    <3>1. l \in Seq(Leases)
      BY <2>7
    <3> QED BY <3>1, <2>2, ConcatSum
  <2>9. n \o f \in Seq(Leases) /\ Sum(n \o f, g) = Sum(n, g) + Sum(f, g)
    <3> HIDE DEF n
    <3>1. n \in Seq(Leases)
      BY <2>8
    <3> QED BY <3>1, <2>2, ConcatSum
  <2>10. Alive = n \o f
    BY <1>1
  <2> HIDE DEF n, l, j
  <2>11. Sum(n \o f, g) = ((((q + s) + k) + m) + h) + p
    BY <2>1, <2>2, <2>5, <2>6, <2>7, <2>8, <2>9
  <2> HIDE DEF q, s, h, p, k, m
  <2>12. ((((q + s) + k) + m) + h) + p = q + s + h + p + (k + m)
    BY <2>3, <2>4
  <2> QED BY <2>3, <2>4, <2>9, <2>10, <2>11, <2>12
<1>7. usage \in UsageType
  BY DEF Booked, Sound, GoodUsage
<1> HIDE DEF a, b, c, d, e, f
<1>8. Alive \in Seq(Leases)
  <2> DEFINE g == <<"bytes", "SceneCells">>
  <2>1. g \in Gauges
    BY DEF Gauges, Cats
  <2> HIDE DEF g
  <2> QED BY <2>1, <1>6
<1>9. Free \in UsageType
  BY DEF Free, UsageType
<1>10. z \in UsageType /\ \A g \in Gauges : Meter(z, g) = Meter(Free, g) + Sum(Alive, g)
  BY <1>8, <1>9, ReserveAllMeter
<1>11. ASSUME NEW g \in Gauges PROVE Meter(usage, g) = Meter(z, g)
  <2>1. Meter(usage, g) \in Nat
    BY <1>7, MeterType
  <2>2. Meter(Free, g) = 0
    BY FreeMeter
  <2>3. Meter(z, g) = 0 + Meter(usage, g)
    BY <1>6, <1>10, <2>2
  <2> QED BY <2>1, <2>3
<1> HIDE DEF z
<1>12. usage = z
  BY <1>7, <1>10, <1>11, SameBooks
<1> QED BY <1>12 DEF BooksExact, z

\* The gauges of the governor read what the owners have leased, whatever order
\* they come and go in, for any limits and any sizes: a cached resource's bytes
\* count once however many clones of it are out, and until the last is dropped.
THEOREM BookedAlways ==
    Spec => []Booked
BY InitBooked, NextBooked, PTL DEF Spec

\* ResourceCache keeps its own counter right and itself within its bounds
\* through both loops of insert, a replaced key, a refused reservation that has
\* already evicted, hits that reorder it and evictions of bytes still shared.
THEOREM CacheExactAlways ==
    Spec => []CacheExact
BY BookedCacheExact, BookedAlways, PTL

\* No lease is leaked and none released twice: the governor's usage is what
\* reserving every lease alive, once, from an empty governor would make it.
THEOREM BooksExactAlways ==
    Spec => []BooksExact
BY BookedBooksExact, BookedAlways, PTL
=============================================================================
