-------------------------- MODULE LiveWatchProofs --------------------------
(***************************************************************************)
(* TLAPS proofs about LiveWatch, for every set of files, connections and   *)
(* contents and every limit.                                               *)
(***************************************************************************)
EXTENDS LiveWatch, DataLemmas, SequenceTheorems, TLAPS

\* What the registry task may rely on in the middle of an arm.
JobOK ==
    /\ job.pc = "sweep" => job.todo \subseteq DOMAIN files
    /\ job.pc = "attach" => /\ pc[job.conn] = "attach"
                            /\ want[job.conn].ask.file \in DOMAIN files
    /\ job.pc = "read" => /\ job.file \in DOMAIN files
                          /\ job.todo \subseteq DOMAIN files
                          /\ job.conn # NoConn => /\ pc[job.conn] = "attach"
                                                  /\ want[job.conn].ask.file = job.file

\* A flush is always at one of the connection's subscriptions.
FlushOK == \A c \in Conns : pc[c] = "flush" => at[c] \in DOMAIN subs[c]

\* The generation an attach was answered with is current, or a wake is pending.
GivenOK ==
    \A c \in Conns : pc[c] = "send" /\ want[c].given.id # Current(want[c].ask.file).id => wake[c]

\* A closed connection has dropped its subscriptions.
ClosedOK == \A c \in Conns : pc[c] = "closed" => subs[c] = <<>>

Inv == TypeOK /\ JobOK /\ FlushOK /\ ClosedOK /\ SubscribedIsWatched /\ NoLostWake /\ GivenOK

\* The parts of the state each kind of step touches, typed.
DiskType == disk \in [Files -> [exists : BOOLEAN, text : Texts, stamp : Nat \ {NoStamp}, again : BOOLEAN]]
RegType  == /\ DOMAIN files \subseteq Files
            /\ files \in [DOMAIN files -> Entry]
            /\ dirRefs \in [Dirs -> Nat]
            /\ source \in {"up", "dead", "ended"}
            /\ job \in Job
ConnType == /\ pc \in [Conns -> {"loop", "attach", "send", "flush", "closed"}]
            /\ subs \in [Conns -> Seq(Sub)]
            /\ wake \in [Conns -> BOOLEAN]
            /\ at \in [Conns -> Nat \ {0}]
            /\ asks \in [Conns -> Nat]
            /\ DOMAIN want = Conns
            /\ \A c \in Conns : /\ pc[c] = "attach" => want[c].ask \in Ask
                                /\ pc[c] = "send" => want[c].ask \in Ask /\ want[c].given \in Gen

\* The type invariant falls into the part of the disk, of the registry and of the connections.
LEMMA TypeSplit == TypeOK <=> DiskType /\ RegType /\ ConnType
  BY DEF TypeOK, DiskType, RegType, ConnType

\* The empty registry, with every connection in its loop, satisfies the invariant.
LEMMA InitInv == Init => Inv
<1> SUFFICES ASSUME Init PROVE Inv
  OBVIOUS
<1> USE ConstantsAssumption DEF Init
<1>1. DiskType
  <2>1. [exists : {TRUE}, text : Texts, stamp : {1}, again : {FALSE}]
          \subseteq [exists : BOOLEAN, text : Texts, stamp : Nat \ {NoStamp}, again : BOOLEAN]
    <3>1. {TRUE} \subseteq BOOLEAN /\ {FALSE} \subseteq BOOLEAN
      BY Zenon
    <3>2. {1} \subseteq Nat \ {NoStamp}
      BY DEF NoStamp
    <3> QED BY <3>1, <3>2, Zenon
  <2> QED BY <2>1, Zenon DEF DiskType
<1>2. RegType
  BY DEF RegType, IdleJob, Job
<1>3. ConnType
  BY DEF ConnType
<1>4. JobOK /\ FlushOK /\ ClosedOK /\ SubscribedIsWatched /\ NoLostWake /\ GivenOK
  BY DEF JobOK, FlushOK, ClosedOK, SubscribedIsWatched, NoLostWake, GivenOK, Holds, IdleJob
<1> QED BY <1>1, <1>2, <1>3, <1>4, TypeSplit DEF Inv

-----------------------------------------------------------------------------
(* What reap leaves.                                                       *)

\* reap only removes entries, keeps the ones somebody holds a receiver of and
\* leaves the survivors alone.
LEMMA EndArmLemma ==
  ASSUME NEW STATE fs, NEW STATE held,
         DOMAIN fs \subseteq Files, fs \in [DOMAIN fs -> Entry],
         dirRefs \in [Dirs -> Nat],
         EndArm(fs, held)
  PROVE  /\ DOMAIN files' \subseteq DOMAIN fs
         /\ files' \in [DOMAIN files' -> Entry]
         /\ \A f \in DOMAIN files' : files'[f] = fs[f]
         /\ \A f \in DOMAIN fs : f \in held \/ (\E c \in Conns : Holds(c, f)) => f \in DOMAIN files'
         /\ dirRefs' \in [Dirs -> Nat]
<1> DEFINE kept == {f \in DOMAIN fs : f \in held \/ \E c \in Conns : Holds(c, f)}
           emptied == {DirOf[f] : f \in DOMAIN fs \ kept} \ {DirOf[f] : f \in kept}
<1>1. /\ files' = [f \in kept |-> fs[f]]
      /\ dirRefs' = [d \in Dirs |->
                       IF d \in emptied /\ dirRefs[d] > 0 THEN dirRefs[d] - 1 ELSE dirRefs[d]]
  BY Zenon DEF EndArm
<1>2. dirRefs' \in [Dirs -> Nat]
  <2> HIDE DEF emptied
  <2> QED BY <1>1
<1>3. DOMAIN files' = kept /\ \A f \in kept : files'[f] = fs[f] /\ fs[f] \in Entry
  <2>1. kept \subseteq DOMAIN fs
    OBVIOUS
  <2> HIDE DEF kept
  <2> QED BY <1>1, <2>1
<1>4. files' \in [kept -> Entry]
  <2> HIDE DEF kept
  <2> QED BY <1>1, <1>3
<1> QED BY <1>2, <1>3, <1>4

\* Marking entries dirty changes neither their generation nor their wakes.
LEMMA MarkedDirtyLemma ==
  ASSUME NEW STATE fs, NEW STATE S, DOMAIN fs \subseteq Files, fs \in [DOMAIN fs -> Entry]
  PROVE  /\ DOMAIN MarkedDirty(fs, S) = DOMAIN fs
         /\ MarkedDirty(fs, S) \in [DOMAIN fs -> Entry]
         /\ \A f \in DOMAIN fs : /\ MarkedDirty(fs, S)[f].gen = fs[f].gen
                                 /\ MarkedDirty(fs, S)[f].wakes = fs[f].wakes
  BY DEF MarkedDirty, Entry

\* A subscription is a receiver of its file.
LEMMA SubHolds ==
  ASSUME ConnType, NEW c \in Conns, NEW i \in DOMAIN subs[c]
  PROVE  /\ subs[c][i] \in Sub
         /\ subs[c][i].file \in Files
         /\ Holds(c, subs[c][i].file)
<1>1. subs[c] \in Seq(Sub)
  BY DEF ConnType
<1>2. subs[c][i] \in Sub
  BY <1>1
<1>3. subs[c][i].file \in Files
  BY <1>2 DEF Sub
<1> QED BY <1>2, <1>3 DEF Holds

\* A generation's text is a sequence of characters, whether published or empty.
LEMMA GenText ==
  ASSUME NEW g \in Gen
  PROVE  g.text \in Seq(Chars)
<1>1. g.text \in Texts \/ g.text = <<>>
  BY DEF Gen
<1>2. <<>> \in Seq(Chars)
  OBVIOUS
<1> QED BY <1>1, <1>2, ConstantsAssumption

-----------------------------------------------------------------------------
(* Steps that publish nothing.                                             *)

ConnOK == FlushOK /\ ClosedOK /\ SubscribedIsWatched /\ NoLostWake /\ GivenOK

\* A registry step that keeps the generation and the wakes of every entry
\* somebody holds a receiver of preserves what connections rely on.
LEMMA Quiet ==
  ASSUME ConnType, ConnOK,
         UNCHANGED <<pc, subs, wake, at, want>>,
         \A c \in Conns : \A f \in Files : Holds(c, f) =>
             /\ f \in DOMAIN files'
             /\ files'[f].gen = files[f].gen
             /\ files'[f].wakes = files[f].wakes
  PROVE  ConnOK'
<1> USE DEF ConnOK
<1>1. FlushOK' /\ ClosedOK'
  BY DEF FlushOK, ClosedOK
<1>2. \A c \in Conns : \A f \in Files : Holds(c, f)' <=> Holds(c, f)
  BY DEF Holds
<1>3. SubscribedIsWatched'
  BY <1>2 DEF SubscribedIsWatched
<1>4. \A c \in Conns : \A i \in DOMAIN subs[c] :
        subs[c][i].file \in Files /\ Holds(c, subs[c][i].file)
  BY SubHolds
<1>5. NoLostWake'
  BY <1>4 DEF NoLostWake, Current
<1>6. \A c \in Conns : pc[c] = "send" => want[c].ask.file \in Files /\ Holds(c, want[c].ask.file)
  BY DEF Holds, ConnType, Ask
<1>7. GivenOK'
  BY <1>6 DEF GivenOK, Current
<1> QED BY <1>1, <1>3, <1>5, <1>7

-----------------------------------------------------------------------------
(* The end of a refresh.                                                   *)

\* refresh_if_changed of f has turned `files` into fs: only f's entry moved, a new
\* generation has woken every open connection listed in the entry, and no open
\* connection was dropped from the list.
RefreshOf(f, fs) ==
    /\ DOMAIN fs = DOMAIN files
    /\ fs \in [DOMAIN files -> Entry]
    /\ \A g \in DOMAIN files : g # f => fs[g] = files[g]
    /\ wake' \in [Conns -> BOOLEAN]
    /\ \A d \in Conns : wake[d] => wake'[d]
    /\ \A d \in Conns : pc[d] # "closed" =>
          /\ fs[f].wakes[d] >= files[f].wakes[d]
          /\ files[f].wakes[d] > 0 /\ fs[f].gen.id # files[f].gen.id => wake'[d]

\* Whatever follows the refresh -- the next file of a sweep, or the tail of an
\* attach -- re-establishes the invariant.
LEMMA RefreshedLemma ==
  ASSUME Inv, NEW STATE f, NEW STATE fs, NEW STATE todo, NEW STATE c,
         f \in DOMAIN files, RefreshOf(f, fs),
         todo \subseteq DOMAIN files,
         c = NoConn \/ (c \in Conns /\ pc[c] = "attach" /\ want[c].ask.file = f),
         Refreshed(f, fs, todo, c),
         UNCHANGED <<disk, source, subs, at, asks>>
  PROVE  Inv'
<1> USE ConstantsAssumption
<1>0. DiskType /\ RegType /\ ConnType /\ ConnOK
  BY TypeSplit DEF Inv, ConnOK
<1>a. DOMAIN fs \subseteq Files /\ fs \in [DOMAIN fs -> Entry] /\ dirRefs \in [Dirs -> Nat]
  BY <1>0 DEF RefreshOf, RegType
<1>b. \A d \in Conns : \A g \in Files : Holds(d, g) =>
        /\ g \in DOMAIN files /\ files[g].wakes[d] > 0 /\ files[g].wakes[d] \in Nat
        /\ pc[d] # "closed"
  BY <1>0, SMTT(40) DEF ConnOK, SubscribedIsWatched, Holds, ClosedOK, RegType, Entry
<1>c. \A d \in Conns : \A g \in Files : Holds(d, g) =>
        /\ fs[g].wakes[d] > 0
        /\ fs[g].gen.id # files[g].gen.id => wake'[d]
  <2> SUFFICES ASSUME NEW d \in Conns, NEW g \in Files, Holds(d, g)
               PROVE  /\ fs[g].wakes[d] > 0
                      /\ fs[g].gen.id # files[g].gen.id => wake'[d]
    OBVIOUS
  <2>1. CASE g = f
    <3>1. fs[f].wakes[d] >= files[f].wakes[d] /\ fs[f].wakes[d] \in Nat
      BY <1>b, <1>a, <2>1 DEF RefreshOf, Entry
    <3> QED BY <3>1, <1>b, <2>1, SMTT(40) DEF RefreshOf
  <2>2. CASE g # f
    BY <1>b, <2>2 DEF RefreshOf
  <2> QED BY <2>1, <2>2
<1>d. \A d \in Conns : wake[d] => wake'[d]
  BY DEF RefreshOf
\* Facts shared by every outcome: the entries held now are in files' as fs has them.
<1>e. ASSUME \A g \in DOMAIN files' : files'[g].gen = fs[g].gen,
             \A d \in Conns : \A g \in Files : Holds(d, g) =>
                g \in DOMAIN files' /\ files'[g].wakes[d] >= fs[g].wakes[d] /\ files'[g].wakes[d] \in Nat,
             UNCHANGED subs, UNCHANGED at,
             \A d \in Conns : pc[d] # "attach" => pc'[d] = pc[d] /\ want'[d] = want[d],
             \A d \in Conns : pc[d] = "attach" => pc'[d] \in {"attach", "send"},
             \A d \in Conns : pc[d] = "attach" /\ pc'[d] = "send" =>
                LET g == want'[d].ask.file IN
                  /\ g \in DOMAIN files' /\ files'[g].wakes[d] > 0
                  /\ want'[d].given = files'[g].gen
      PROVE  ConnOK'
  <2>1. FlushOK' /\ ClosedOK'
    BY <1>e, <1>0 DEF ConnOK, FlushOK, ClosedOK, ConnType
  <2>2. ASSUME NEW d \in Conns, NEW g \in Files, Holds(d, g)'
        PROVE  \/ Holds(d, g)
               \/ pc[d] = "attach" /\ pc'[d] = "send" /\ g = want'[d].ask.file
    BY <2>2, <1>e, <1>0 DEF Holds, ConnType
  <2>3. SubscribedIsWatched'
    <3> SUFFICES ASSUME NEW d \in Conns, NEW g \in Files, Holds(d, g)'
                 PROVE  g \in DOMAIN files' /\ files'[g].wakes[d] > 0
      BY DEF SubscribedIsWatched
    <3>1. CASE Holds(d, g)
      <4>1. fs[g].wakes[d] > 0 /\ g \in DOMAIN files /\ fs[g] \in Entry
        BY <1>c, <1>b, <3>1 DEF RefreshOf
      <4>2. fs[g].wakes[d] \in Nat
        BY <4>1 DEF Entry
      <4> QED BY <4>1, <4>2, <1>e, <3>1, SMTT(40)
    <3> QED BY <2>2, <1>e, <3>1
  <2>4. NoLostWake'
    <3> SUFFICES ASSUME NEW d \in Conns, NEW i \in DOMAIN subs[d],
                        subs[d][i].base.id # files'[subs[d][i].file].gen.id
                 PROVE  wake'[d] \/ (pc'[d] = "flush" /\ at[d] <= i)
      BY <1>e DEF NoLostWake, Current
    <3> DEFINE g == subs[d][i].file
    <3>1. g \in Files /\ Holds(d, g)
      BY SubHolds, <1>0, SMTT(40)
    <3>2. files'[g].gen = fs[g].gen
      BY <3>1, <1>e
    <3>3. CASE fs[g].gen.id # files[g].gen.id
      BY <3>3, <3>1, <1>c
    <3>4. CASE fs[g].gen.id = files[g].gen.id
      <4>1. wake[d] \/ (pc[d] = "flush" /\ at[d] <= i)
        BY <3>2, <3>4, <1>0 DEF ConnOK, NoLostWake, Current
      <4> QED BY <4>1, <1>d, <1>e, SMTT(40)
    <3> QED BY <3>3, <3>4
  <2>5. GivenOK'
    <3> SUFFICES ASSUME NEW d \in Conns, pc'[d] = "send",
                        want'[d].given.id # files'[want'[d].ask.file].gen.id
                 PROVE  wake'[d]
      BY DEF GivenOK, Current
    <3>1. pc[d] = "send" /\ want'[d] = want[d]
      BY <1>e, <1>0 DEF ConnType
    <3> DEFINE g == want[d].ask.file
    <3>2. g \in Files /\ Holds(d, g)
      BY <3>1, <1>0 DEF Holds, ConnType, Ask
    <3>3. files'[g].gen = fs[g].gen
      BY <3>2, <1>e
    <3>4. CASE fs[g].gen.id # files[g].gen.id
      BY <3>4, <3>2, <1>c, SMTT(40)
    <3>5. CASE fs[g].gen.id = files[g].gen.id
      BY <3>5, <3>3, <3>1, <1>d, <1>0 DEF ConnOK, GivenOK, Current
    <3> QED BY <3>4, <3>5
  <2> QED BY <2>1, <2>3, <2>4, <2>5 DEF ConnOK
<1>1. CASE c # NoConn
  <2> DEFINE ready == [fs EXCEPT ![f].wakes[c] = @ + 1]
  <2>0. c \in Conns /\ pc[c] = "attach" /\ want[c].ask.file = f
    BY <1>1
  <2>1. /\ EndArm(ready, {f})
        /\ pc' = [pc EXCEPT ![c] = "send"]
        /\ want' = [want EXCEPT ![c].given = ready[f].gen]
        /\ job' = IdleJob
    BY <1>1, Zenon DEF Refreshed
  <2>2. /\ DOMAIN ready = DOMAIN fs /\ ready \in [DOMAIN fs -> Entry]
        /\ \A g \in DOMAIN fs : ready[g].gen = fs[g].gen
        /\ \A g \in DOMAIN fs : \A d \in Conns : ready[g].wakes[d] >= fs[g].wakes[d]
        /\ ready[f].wakes[c] > 0
    <3>1. f \in DOMAIN fs /\ fs[f] \in Entry
      BY <1>a DEF RefreshOf
    <3>2. fs[f].wakes \in [Conns -> Nat]
      BY <3>1 DEF Entry
    <3> DEFINE w == [fs[f].wakes EXCEPT ![c] = @ + 1]
               e == [fs[f] EXCEPT !.wakes = w]
    <3>3. w \in [Conns -> Nat] /\ w[c] > 0 /\ \A d \in Conns : w[d] >= fs[f].wakes[d]
      <4> DEFINE old == fs[f].wakes
      <4>1. old \in [Conns -> Nat]
        BY <3>2
      <4> HIDE DEF old
      <4>2. \A d \in Conns : [old EXCEPT ![c] = @ + 1][d] = (IF d = c THEN old[d] + 1 ELSE old[d])
        BY <4>1
      <4>3. \A d \in Conns : old[d] \in Nat
        BY <4>1
      <4>4. [old EXCEPT ![c] = @ + 1] \in [Conns -> Nat]
        BY <4>1, <2>0
      <4> QED BY <2>0, <4>2, <4>3, <4>4, SMTT(40) DEF old
    <3> HIDE DEF w
    <3>4. e \in Entry /\ e.wakes = w /\ e.gen = fs[f].gen
      BY <3>1, <3>3 DEF Entry
    <3> HIDE DEF e
    <3>5. ready = [fs EXCEPT ![f] = e]
      BY DEF e, w
    <3>6. \A g \in DOMAIN fs : g # f => ready[g] = fs[g]
      BY <3>5
    <3>7. DOMAIN ready = DOMAIN fs /\ ready[f] = e /\ ready \in [DOMAIN fs -> Entry]
      BY <3>1, <3>4, <3>5, <1>a
    <3>8. \A g \in DOMAIN fs : g # f => \A d \in Conns : fs[g].wakes[d] \in Nat
      BY <1>a DEF Entry
    <3> HIDE DEF ready
    <3>9. \A g \in DOMAIN fs : ready[g].gen = fs[g].gen
      BY <3>4, <3>6, <3>7
    <3>10. \A g \in DOMAIN fs : \A d \in Conns : ready[g].wakes[d] >= fs[g].wakes[d]
      <4> TAKE g \in DOMAIN fs
      <4>1. CASE g = f
        BY <4>1, <3>3, <3>4, <3>7
      <4>2. CASE g # f
        BY <4>2, <3>6, <3>8
      <4> QED BY <4>1, <4>2
    <3> QED BY <3>3, <3>4, <3>7, <3>9, <3>10
  <2> HIDE DEF ready
  <2>3. /\ DOMAIN files' \subseteq DOMAIN ready
        /\ files' \in [DOMAIN files' -> Entry]
        /\ \A g \in DOMAIN files' : files'[g] = ready[g]
        /\ \A g \in DOMAIN ready : g \in {f} \/ (\E d \in Conns : Holds(d, g)) => g \in DOMAIN files'
        /\ dirRefs' \in [Dirs -> Nat]
    BY <2>1, <2>2, <1>a, EndArmLemma
  <2>4. f \in DOMAIN files' /\ want'[c].ask = want[c].ask /\ want'[c].given = files'[f].gen
    BY <2>0, <2>1, <2>2, <2>3, <1>0 DEF ConnType, RefreshOf
  <2>5. ConnOK'
    <3>1. \A d \in Conns : \A g \in Files : Holds(d, g) =>
             g \in DOMAIN files' /\ files'[g].wakes[d] >= fs[g].wakes[d] /\ files'[g].wakes[d] \in Nat
      <4>1. \A g \in DOMAIN files' : files'[g].wakes \in [Conns -> Nat]
        BY <2>3 DEF Entry
      <4> QED BY <4>1, <1>b, <2>2, <2>3 DEF RefreshOf
    <3>2. \A g \in DOMAIN files' : files'[g].gen = fs[g].gen
      BY <2>2, <2>3
    <3>3. /\ \A d \in Conns : pc[d] # "attach" => pc'[d] = pc[d] /\ want'[d] = want[d]
          /\ \A d \in Conns : pc[d] = "attach" => pc'[d] \in {"attach", "send"}
          /\ \A d \in Conns : pc[d] = "attach" /\ pc'[d] = "send" => d = c
      BY <2>0, <2>1, <1>0 DEF ConnType
    <3>4. \A d \in Conns : pc[d] = "attach" /\ pc'[d] = "send" =>
             LET g == want'[d].ask.file IN
               /\ g \in DOMAIN files' /\ files'[g].wakes[d] > 0
               /\ want'[d].given = files'[g].gen
      BY <3>3, <2>4, <2>3, <2>2, <2>0
    <3> QED BY <3>1, <3>2, <3>3, <3>4, <1>e
  <2>6. JobOK'
    BY <2>1 DEF JobOK, IdleJob
  <2>7. TypeOK'
    <3>1. DiskType'
      BY <1>0 DEF DiskType
    <3>2. RegType'
      BY <1>0, <2>1, <2>2, <2>3, <1>a DEF RegType, IdleJob, Job
    <3>3. files'[f].gen \in Gen
      BY <2>3, <2>4 DEF Entry
    <3>4. ConnType'
      BY <1>0, <2>0, <2>1, <2>4, <3>3 DEF ConnType, RefreshOf
    <3> QED BY <3>1, <3>2, <3>4, TypeSplit DEF DiskType, RegType, ConnType, TypeOK
  <2> QED BY <2>5, <2>6, <2>7 DEF Inv, ConnOK
<1>2. CASE c = NoConn
  <2>0. UNCHANGED <<pc, want>>
    BY <1>2 DEF Refreshed
  <2>1. /\ DOMAIN files' \subseteq DOMAIN fs
        /\ files' \in [DOMAIN files' -> Entry]
        /\ \A g \in DOMAIN files' : files'[g] = fs[g]
        /\ \A g \in DOMAIN fs : (\E d \in Conns : Holds(d, g)) => g \in DOMAIN files'
        /\ dirRefs' \in [Dirs -> Nat]
    <3>1. CASE todo = {}
      <4>1. EndArm(fs, {})
        BY <1>2, <3>1 DEF Refreshed
      <4> QED BY <4>1, <1>a, EndArmLemma
    <3>2. CASE todo # {}
      BY <1>2, <3>2, <1>a DEF Refreshed
    <3> QED BY <3>1, <3>2
  <2>2. ConnOK'
    <3>1. \A d \in Conns : \A g \in Files : Holds(d, g) =>
             g \in DOMAIN files' /\ files'[g].wakes[d] >= fs[g].wakes[d] /\ files'[g].wakes[d] \in Nat
      BY <1>b, <2>1, <1>a, SMTT(40) DEF RefreshOf, Entry
    <3> QED BY <3>1, <2>0, <2>1, <1>e
  <2>3. JobOK' /\ job' \in Job
    <3>1. CASE todo = {}
      BY <1>2, <3>1 DEF Refreshed, JobOK, IdleJob, Job
    <3>2. CASE todo # {}
      <4>1. job' = [pc |-> "sweep", todo |-> todo] /\ files' = fs
        BY <1>2, <3>2 DEF Refreshed
      <4>2. todo \subseteq Files
        BY <1>0 DEF RegType
      <4> QED BY <4>1, <4>2 DEF JobOK, Job, RefreshOf
    <3> QED BY <3>1, <3>2
  <2>4. TypeOK'
    <3>1. DiskType'
      BY <1>0 DEF DiskType
    <3>2. RegType'
      BY <1>0, <2>1, <2>3, <1>a DEF RegType
    <3>3. ConnType'
      BY <1>0, <2>0 DEF ConnType, RefreshOf
    <3> QED BY <3>1, <3>2, <3>3 DEF DiskType, RegType, ConnType, TypeOK
  <2> QED BY <2>2, <2>3, <2>4 DEF Inv, ConnOK
<1> QED BY <1>1, <1>2

-----------------------------------------------------------------------------
(* One lemma per kind of action.                                           *)

\* A registry step that neither publishes nor answers anybody.
LEMMA RegistryQuiet ==
  ASSUME Inv, RegType', JobOK', UNCHANGED <<disk, connVars>>,
         \A c \in Conns : \A f \in Files : Holds(c, f) =>
             /\ f \in DOMAIN files'
             /\ files'[f].gen = files[f].gen
             /\ files'[f].wakes = files[f].wakes
  PROVE  Inv'
<1>1. DiskType /\ RegType /\ ConnType /\ ConnOK
  BY TypeSplit DEF Inv, ConnOK
<1>2. ConnOK'
  BY <1>1, Quiet DEF connVars
<1>3. DiskType' /\ ConnType'
  BY <1>1 DEF DiskType, ConnType, connVars
<1> QED BY <1>2, <1>3 DEF Inv, ConnOK, TypeOK, DiskType, RegType, ConnType

\* An arm that only marks entries dirty, with its trailing reap.
LEMMA MarkArm ==
  ASSUME Inv, NEW STATE S, EndArm(MarkedDirty(files, S), {}), job = IdleJob,
         source' \in {"up", "dead", "ended"}, UNCHANGED <<disk, job, connVars>>
  PROVE  Inv'
<1>1. RegType /\ SubscribedIsWatched
  BY TypeSplit DEF Inv
<1> DEFINE md == MarkedDirty(files, S)
<1>2. /\ DOMAIN md = DOMAIN files /\ md \in [DOMAIN md -> Entry] /\ DOMAIN md \subseteq Files
      /\ \A f \in DOMAIN files : md[f].gen = files[f].gen /\ md[f].wakes = files[f].wakes
  BY <1>1, MarkedDirtyLemma DEF RegType
<1>3. EndArm(md, {})
  OBVIOUS
<1> HIDE DEF md
<1>4. /\ DOMAIN files' \subseteq DOMAIN md
      /\ files' \in [DOMAIN files' -> Entry]
      /\ \A f \in DOMAIN files' : files'[f] = md[f]
      /\ \A f \in DOMAIN md : (\E c \in Conns : Holds(c, f)) => f \in DOMAIN files'
      /\ dirRefs' \in [Dirs -> Nat]
  BY <1>1, <1>2, <1>3, EndArmLemma DEF RegType
<1>5. RegType'
  BY <1>1, <1>2, <1>4 DEF RegType
<1>6. JobOK'
  BY DEF JobOK, IdleJob
<1>7. \A c \in Conns : \A f \in Files : Holds(c, f) =>
        f \in DOMAIN files' /\ files'[f].gen = files[f].gen /\ files'[f].wakes = files[f].wakes
  BY <1>1, <1>2, <1>4 DEF SubscribedIsWatched
<1> QED BY <1>5, <1>6, <1>7, RegistryQuiet

\* Installing a new, dirty and unpublished entry (attach up to its await) keeps the invariant.
LEMMA AttachStartInv ==
  ASSUME Inv, NEW c \in Conns, AttachStart(c)
  PROVE  Inv'
<1> USE ConstantsAssumption
<1>1. RegType /\ ConnType /\ SubscribedIsWatched
  BY TypeSplit DEF Inv
<1> DEFINE f == want[c].ask.file
<1>2. pc[c] = "attach" /\ f \in Files /\ job' = [pc |-> "attach", conn |-> c]
  BY <1>1 DEF AttachStart, ConnType, Ask
<1>3. NewEntry \in Entry
  BY DEF NewEntry, Entry, EmptyGen, Gen, NoStamp
<1>4. /\ RegType' /\ f \in DOMAIN files'
      /\ \A g \in DOMAIN files : g \in DOMAIN files' /\ files'[g] = files[g]
  <2>1. CASE f \in DOMAIN files
    BY <1>1, <1>2, <2>1 DEF AttachStart, RegType, Job
  <2>2. CASE f \notin DOMAIN files
    <3>1. /\ files' = [g \in DOMAIN files \cup {f} |-> IF g = f THEN NewEntry ELSE files[g]]
          /\ dirRefs' = [dirRefs EXCEPT ![DirOf[f]] = IF @ > 0 \/ source = "up" THEN @ + 1 ELSE @]
          /\ source' = source
      BY <2>2 DEF AttachStart
    <3> HIDE DEF f
    <3>2. dirRefs' \in [Dirs -> Nat]
      <4>1. dirRefs \in [Dirs -> Nat]
        BY <1>1 DEF RegType
      <4> DEFINE old == dirRefs[DirOf[f]]
                 new == IF old > 0 \/ source = "up" THEN old + 1 ELSE old
      <4>2. dirRefs' = [dirRefs EXCEPT ![DirOf[f]] = new]
        BY <3>1
      <4>3. old \in Nat
        BY <4>1, <1>2 DEF Dirs, f
      <4>4. new \in Nat
        BY <4>3
      <4> HIDE DEF new
      <4> QED BY <4>1, <4>2, <4>4
    <3>3. /\ DOMAIN files' = DOMAIN files \cup {f} /\ files' \in [DOMAIN files \cup {f} -> Entry]
          /\ \A g \in DOMAIN files : files'[g] = files[g]
      BY <3>1, <2>2, <1>1, <1>3 DEF RegType
    <3> QED BY <3>1, <3>2, <3>3, <1>1, <1>2 DEF RegType, Job
  <2> QED BY <2>1, <2>2
<1>5. JobOK'
  BY <1>2, <1>4 DEF JobOK, AttachStart, connVars
<1>6. \A d \in Conns : \A g \in Files : Holds(d, g) =>
        g \in DOMAIN files' /\ files'[g].gen = files[g].gen /\ files'[g].wakes = files[g].wakes
  BY <1>1, <1>4 DEF SubscribedIsWatched
<1>7. UNCHANGED <<disk, connVars>>
  BY DEF AttachStart
<1> QED BY <1>4, <1>5, <1>6, <1>7, RegistryQuiet

\* Collecting the dirty paths (refresh_dirty) keeps the invariant.
LEMMA SettleInv ==
  ASSUME Inv, Settle
  PROVE  Inv'
<1>1. RegType /\ SubscribedIsWatched
  BY TypeSplit DEF Inv
<1>2. RegType' /\ JobOK'
  BY <1>1 DEF RegType, JobOK, Settle, Job
<1> QED BY <1>1, <1>2, RegistryQuiet DEF Settle, SubscribedIsWatched

\* The reconcile tick, which marks every entry and starts a sweep, keeps the invariant.
LEMMA ReconcileInv ==
  ASSUME Inv, Reconcile
  PROVE  Inv'
<1>1. RegType /\ SubscribedIsWatched
  BY TypeSplit DEF Inv
<1>2. CASE DOMAIN files = {}
  <2>1. MarkedDirty(files, {}) = files
    BY <1>1, <1>2 DEF MarkedDirty, RegType
  <2>2. EndArm(files, {}) /\ UNCHANGED <<disk, job, connVars>> /\ source' = source /\ job = IdleJob
    BY <1>2 DEF Reconcile
  <2>3. EndArm(MarkedDirty(files, {}), {})
    BY <2>1, <2>2
  <2>4. source' \in {"up", "dead", "ended"}
    BY <2>2, <1>1 DEF RegType
  <2> QED BY <2>2, <2>3, <2>4, MarkArm
<1>3. CASE DOMAIN files # {}
  <2>1. /\ files' = MarkedDirty(files, DOMAIN files)
        /\ job' = [pc |-> "sweep", todo |-> DOMAIN files]
        /\ UNCHANGED <<dirRefs, source, disk, connVars>>
    BY <1>3 DEF Reconcile
  <2>2. /\ DOMAIN files' = DOMAIN files /\ files' \in [DOMAIN files -> Entry]
        /\ \A f \in DOMAIN files : files'[f].gen = files[f].gen /\ files'[f].wakes = files[f].wakes
    BY <2>1, <1>1, MarkedDirtyLemma DEF RegType
  <2>3. RegType' /\ JobOK'
    BY <1>1, <2>1, <2>2 DEF RegType, JobOK, Job
  <2> QED BY <1>1, <2>1, <2>2, <2>3, RegistryQuiet DEF SubscribedIsWatched
<1> QED BY <1>2, <1>3

\* The stat of refresh_if_changed, with all its early returns, keeps the invariant.
LEMMA StatInv ==
  ASSUME Inv, NEW f \in Files, Stat(f)
  PROVE  Inv'
<1> USE ConstantsAssumption
<1>1. DiskType /\ RegType /\ ConnType /\ SubscribedIsWatched /\ JobOK
  BY TypeSplit DEF Inv
<1> DEFINE sweep == job.pc = "sweep"
           c     == IF sweep THEN NoConn ELSE job.conn
           todo  == IF sweep THEN job.todo \ {f} ELSE {}
           fs    == IF sweep THEN [files EXCEPT ![f].dirty = FALSE] ELSE files
           now   == disk[f]
           fresh == now.exists /\ now.stamp # files[f].stamp
           large == Len(now.text) > SharedMax
           ft    == IF fresh /\ large THEN [fs EXCEPT ![f].stamp = now.stamp] ELSE fs
<1>2. /\ f \in DOMAIN files
      /\ todo \subseteq DOMAIN files
      /\ c = NoConn \/ (c \in Conns /\ pc[c] = "attach" /\ want[c].ask.file = f)
  BY <1>1 DEF Stat, JobOK, RegType, Job
<1>3. /\ DOMAIN fs = DOMAIN files /\ fs \in [DOMAIN files -> Entry]
      /\ \A g \in DOMAIN files : g # f => fs[g] = files[g]
      /\ fs[f].gen = files[f].gen /\ fs[f].wakes = files[f].wakes
  BY <1>1, <1>2 DEF RegType, Entry
<1>4. now.stamp \in Nat /\ Len(now.text) \in Nat
  BY <1>1 DEF DiskType
<1>5. /\ DOMAIN ft = DOMAIN files /\ ft \in [DOMAIN files -> Entry]
      /\ \A g \in DOMAIN files : g # f => ft[g] = files[g]
      /\ ft[f].gen = files[f].gen /\ ft[f].wakes = files[f].wakes
  <2> HIDE DEF fs, fresh, large, now
  <2> QED BY <1>2, <1>3, <1>4 DEF Entry
<1>6. CASE fresh /\ ~large /\ Affords(Peak(Len(now.text)))
  <2>1. /\ files' = fs
        /\ job' = [pc |-> "read", todo |-> todo, conn |-> c, file |-> f,
                   stamp |-> now.stamp, len |-> Len(now.text)]
        /\ UNCHANGED <<dirRefs, pc, want>>
        /\ UNCHANGED <<disk, source, subs, wake, at, asks>>
    BY <1>6, Zenon DEF Stat
  <2> HIDE DEF fs, now, todo, c
  <2>2. job' \in Job
    BY <2>1, <1>1, <1>2, <1>4 DEF Job, RegType
  <2>3. RegType'
    BY <2>1, <2>2, <1>1, <1>3 DEF RegType
  <2>4. JobOK'
    BY <2>1, <1>2, <1>3 DEF JobOK
  <2> QED BY <2>1, <2>3, <2>4, <1>1, <1>3, RegistryQuiet DEF connVars, SubscribedIsWatched
<1>7. CASE ~(fresh /\ ~large /\ Affords(Peak(Len(now.text))))
  <2>1. Refreshed(f, ft, todo, c) /\ UNCHANGED <<disk, source, subs, wake, at, asks>>
    BY <1>7, Zenon DEF Stat
  <2> HIDE DEF ft, todo, c
  <2>2. RefreshOf(f, ft)
    <3>1. \A d \in Conns : files[f].wakes[d] \in Nat
      BY <1>1, <1>2 DEF RegType, Entry
    <3> QED BY <3>1, <1>5, <2>1, <1>1, SMTT(40) DEF RefreshOf, ConnType
  <2> QED BY <1>2, <2>1, <2>2, RefreshedLemma
<1> QED BY <1>6, <1>7

\* The read and the publish keep the invariant: whoever now owes a generation is woken.
LEMMA ReadFileInv ==
  ASSUME Inv, ReadFile
  PROVE  Inv'
<1> USE ConstantsAssumption
<1>1. DiskType /\ RegType /\ ConnType /\ SubscribedIsWatched /\ JobOK
  BY TypeSplit DEF Inv
<1> DEFINE f    == job.file
           now  == disk[f]
           e    == files[f]
           ok   == now.exists /\ Len(now.text) <= job.len
           publ == ok /\ now.text # e.gen.text
           open == [c \in Conns |-> IF pc[c] = "closed" THEN 0 ELSE e.wakes[c]]
           new  == IF publ THEN [e EXCEPT !.stamp = job.stamp, !.wakes = open,
                                          !.gen = [id |-> e.gen.id + 1, text |-> now.text]]
                   ELSE IF ok THEN [e EXCEPT !.stamp = job.stamp] ELSE e
           fs   == [files EXCEPT ![f] = new]
<1>2. /\ wake' = [c \in Conns |-> wake[c] \/ (publ /\ open[c] > 0)]
      /\ Refreshed(f, fs, job.todo, job.conn)
      /\ UNCHANGED <<disk, source, subs, at, asks>>
      /\ job.pc = "read"
  BY Zenon DEF ReadFile
<1>3. /\ f \in DOMAIN files /\ f \in Files /\ job.todo \subseteq DOMAIN files
      /\ job.stamp \in Nat
      /\ job.conn = NoConn \/ (job.conn \in Conns /\ pc[job.conn] = "attach"
                                /\ want[job.conn].ask.file = f)
  BY <1>1, <1>2 DEF JobOK, RegType, Job
<1>4. e \in Entry /\ now.text \in Texts /\ e.gen.id \in Nat /\ e.wakes \in [Conns -> Nat]
  BY <1>1, <1>3 DEF RegType, DiskType, Entry, Gen
<1>5. open \in [Conns -> Nat] /\ \A d \in Conns : pc[d] # "closed" => open[d] = e.wakes[d]
  <2> HIDE DEF e
  <2> QED BY <1>4
<1>6. /\ new \in Entry
      /\ publ => new.wakes = open /\ new.gen.id # e.gen.id
      /\ ~publ => new.wakes = e.wakes /\ new.gen = e.gen
  <2> HIDE DEF e, now, ok, open
  <2>1. CASE publ
    <3>1. [id |-> e.gen.id + 1, text |-> now.text] \in Gen
      BY <1>4, SMTT(40) DEF Gen
    <3> DEFINE g == [id |-> e.gen.id + 1, text |-> now.text]
    <3>2. new = [e EXCEPT !.stamp = job.stamp, !.wakes = open, !.gen = g]
      BY <2>1
    <3>3. g \in Gen /\ g.id # e.gen.id
      BY <3>1, <1>4, SMTT(40)
    <3> HIDE DEF new, g, publ
    <3>4. new \in Entry /\ new.wakes = open /\ new.gen = g
      BY <3>2, <3>3, <1>3, <1>4, <1>5 DEF Entry
    <3> QED BY <2>1, <3>3, <3>4
  <2>2. CASE ~publ
    BY <2>2, <1>3, <1>4 DEF Entry
  <2> HIDE DEF publ, new
  <2> QED BY <2>1, <2>2, Zenon
<1>7. RefreshOf(f, fs)
  <2> HIDE DEF new, publ, open
  <2>1. /\ DOMAIN fs = DOMAIN files /\ fs \in [DOMAIN files -> Entry]
        /\ \A g \in DOMAIN files : g # f => fs[g] = files[g]
        /\ fs[f] = new
    <3> HIDE DEF f
    <3> QED BY <1>1, <1>3, <1>6 DEF RegType
  <2>2. wake' \in [Conns -> BOOLEAN] /\ \A d \in Conns : wake[d] => wake'[d]
    BY <1>2
  <2>3. \A d \in Conns : pc[d] # "closed" =>
           /\ fs[f].wakes[d] >= files[f].wakes[d]
           /\ files[f].wakes[d] > 0 /\ fs[f].gen.id # files[f].gen.id => wake'[d]
    <3> SUFFICES ASSUME NEW d \in Conns, pc[d] # "closed"
                 PROVE  /\ new.wakes[d] >= e.wakes[d]
                        /\ e.wakes[d] > 0 /\ new.gen.id # e.gen.id => wake'[d]
      BY <2>1
    <3>1. e.wakes[d] \in Nat /\ open[d] = e.wakes[d]
      BY <1>4, <1>5
    <3>2. CASE publ
      <4>1. wake'[d] <=> (wake[d] \/ (publ /\ open[d] > 0))
        BY <1>2
      <4> QED BY <3>1, <3>2, <1>6, <4>1
    <3>3. CASE ~publ
      BY <3>1, <3>3, <1>6
    <3> QED BY <3>2, <3>3
  <2> QED BY <2>1, <2>2, <2>3 DEF RefreshOf
<1> HIDE DEF f, fs
<1> QED BY <1>2, <1>3, <1>7, RefreshedLemma

\* Closing connection c: its receivers go, everybody else's state stays.
LEMMA CloseInv ==
  ASSUME Inv, NEW c \in Conns, Close(c), asks' \in [Conns -> Nat], UNCHANGED <<disk, source, job>>,
         \/ pc[c] # "attach" /\ UNCHANGED <<files, dirRefs>>
         \/ job = IdleJob /\ EndArm(files, {})
  PROVE  Inv'
<1> USE ConstantsAssumption
<1>1. DiskType /\ RegType /\ ConnType /\ ConnOK /\ JobOK
  BY TypeSplit DEF Inv, ConnOK
<1>2. /\ RegType'
      /\ \A d \in Conns : \A f \in Files : Holds(d, f) => f \in DOMAIN files' /\ files'[f] = files[f]
  <2>1. CASE UNCHANGED <<files, dirRefs>>
    BY <2>1, <1>1 DEF RegType, ConnOK, SubscribedIsWatched
  <2>2. CASE EndArm(files, {})
    <3>1. /\ DOMAIN files' \subseteq DOMAIN files
          /\ files' \in [DOMAIN files' -> Entry]
          /\ \A f \in DOMAIN files' : files'[f] = files[f]
          /\ \A f \in DOMAIN files : (\E d \in Conns : Holds(d, f)) => f \in DOMAIN files'
          /\ dirRefs' \in [Dirs -> Nat]
      BY <2>2, <1>1, EndArmLemma DEF RegType
    <3> QED BY <3>1, <1>1 DEF RegType, ConnOK, SubscribedIsWatched
  <2> QED BY <2>1, <2>2
<1>3. /\ pc' = [pc EXCEPT ![c] = "closed"] /\ subs' = [subs EXCEPT ![c] = <<>>]
      /\ wake' = [wake EXCEPT ![c] = FALSE] /\ at' = [at EXCEPT ![c] = 1]
      /\ want' = [want EXCEPT ![c] = [given |-> EmptyGen]]
  BY DEF Close
<1>4. /\ pc'[c] = "closed" /\ subs'[c] = <<>>
      /\ \A d \in Conns : d # c => /\ pc'[d] = pc[d] /\ subs'[d] = subs[d] /\ wake'[d] = wake[d]
                                   /\ at'[d] = at[d] /\ want'[d] = want[d]
  BY <1>1, <1>3 DEF ConnType
<1>5. ConnType'
  <2>1. wake' \in [Conns -> BOOLEAN]
    BY <1>1, <1>3 DEF ConnType
  <2>2. /\ pc' \in [Conns -> {"loop", "attach", "send", "flush", "closed"}]
        /\ subs' \in [Conns -> Seq(Sub)]
        /\ at' \in [Conns -> Nat \ {0}]
        /\ DOMAIN want' = Conns
    BY <1>1, <1>3 DEF ConnType
  <2> QED BY <2>1, <2>2, <1>1, <1>4 DEF ConnType
<1>6. JobOK'
  <2>1. CASE pc[c] # "attach" /\ UNCHANGED <<files, dirRefs>>
    <3>1. job.pc = "attach" => job.conn \in Conns /\ job.conn # c
      BY <2>1, <1>1 DEF JobOK, RegType, Job
    <3>2. job.pc = "read" /\ job.conn # NoConn => job.conn \in Conns /\ job.conn # c
      BY <2>1, <1>1 DEF JobOK, RegType, Job
    <3> QED BY <2>1, <3>1, <3>2, <1>1, <1>4 DEF JobOK
  <2>2. CASE job = IdleJob
    BY <2>2 DEF JobOK, IdleJob
  <2> QED BY <2>1, <2>2
<1>7. ConnOK'
  <2>1. FlushOK' /\ ClosedOK'
    BY <1>1, <1>4 DEF ConnOK, FlushOK, ClosedOK
  <2>2. \A d \in Conns : \A f \in Files : Holds(d, f)' => d # c /\ Holds(d, f)
    BY <1>4, SMTT(60) DEF Holds
  <2>3. SubscribedIsWatched'
    BY <2>2, <1>1, <1>2 DEF ConnOK, SubscribedIsWatched
  <2>4. NoLostWake'
    <3> SUFFICES ASSUME NEW d \in Conns, NEW i \in DOMAIN subs'[d],
                        subs'[d][i].base.id # files'[subs'[d][i].file].gen.id
                 PROVE  wake'[d] \/ (pc'[d] = "flush" /\ at'[d] <= i)
      BY DEF NoLostWake, Current
    <3>1. d # c /\ subs'[d] = subs[d]
      BY <1>4
    <3>2. subs[d][i].file \in Files /\ Holds(d, subs[d][i].file)
      BY <3>1, SubHolds, <1>1
    <3> QED BY SMTT(30), <3>1, <3>2, <1>1, <1>2, <1>4 DEF ConnOK, NoLostWake, Current
  <2>5. GivenOK'
    <3> SUFFICES ASSUME NEW d \in Conns, pc'[d] = "send",
                        want'[d].given.id # files'[want'[d].ask.file].gen.id
                 PROVE  wake'[d]
      BY DEF GivenOK, Current
    <3>1. d # c /\ pc[d] = "send" /\ want'[d] = want[d] /\ wake'[d] = wake[d]
      BY <1>4
    <3>2. want[d].ask.file \in Files /\ Holds(d, want[d].ask.file)
      BY <3>1, <1>1 DEF Holds, ConnType, Ask
    <3> QED BY <3>1, <3>2, <1>1, <1>2 DEF ConnOK, GivenOK, Current
  <2> QED BY <2>1, <2>3, <2>4, <2>5 DEF ConnOK
<1>8. DiskType'
  BY <1>1 DEF DiskType
<1> QED BY <1>2, <1>5, <1>6, <1>7, <1>8 DEF Inv, ConnOK, TypeOK, DiskType, RegType, ConnType

\* Serving a SUBSCRIBE up to the registry's command keeps the invariant.
LEMMA SubscribeInv ==
  ASSUME Inv, NEW c \in Conns, NEW ask \in Ask, Subscribe(c, ask)
  PROVE  Inv'
<1> USE ConstantsAssumption
<1>1. DiskType /\ RegType /\ ConnType /\ ConnOK /\ JobOK
  BY TypeSplit DEF Inv, ConnOK
<1>2. pc[c] = "loop" /\ asks' \in [Conns -> Nat] /\ UNCHANGED <<disk, files, dirRefs, source, job>>
  BY <1>1 DEF Subscribe, ConnType, regVars
<1>3. CASE Close(c)
  BY <1>2, <1>3, CloseInv
<1>4. CASE ~Close(c)
  <2>1. /\ pc' = [pc EXCEPT ![c] = "attach"]
        /\ want' = [want EXCEPT ![c] = [ask |-> ask, given |-> EmptyGen]]
        /\ UNCHANGED <<subs, wake, at>>
    BY <1>4 DEF Subscribe
  <2>2. /\ \A d \in Conns : d # c => pc'[d] = pc[d] /\ want'[d] = want[d]
        /\ pc'[c] = "attach" /\ want'[c].ask = ask
    BY <2>1, <1>1 DEF ConnType
  <2>3. ConnType'
    BY <2>1, <2>2, <1>1, <1>2 DEF ConnType
  <2>4. JobOK'
    <3>1. job.pc = "attach" => job.conn \in Conns /\ job.conn # c
      BY <1>1, <1>2 DEF JobOK, RegType, Job
    <3>2. job.pc = "read" /\ job.conn # NoConn => job.conn \in Conns /\ job.conn # c
      BY <1>1, <1>2 DEF JobOK, RegType, Job
    <3> QED BY <3>1, <3>2, <1>1, <1>2, <2>2 DEF JobOK
  <2>5. \A d \in Conns : \A f \in Files : Holds(d, f)' => Holds(d, f)
    BY <2>1, <2>2 DEF Holds
  <2>6. ConnOK'
    <3>1. FlushOK' /\ ClosedOK'
      BY <1>1, <2>1, <2>2 DEF ConnOK, FlushOK, ClosedOK
    <3>2. SubscribedIsWatched'
      BY <1>1, <1>2, <2>5 DEF ConnOK, SubscribedIsWatched
    <3>3. NoLostWake'
      BY <1>1, <1>2, <2>1, <2>2 DEF ConnOK, NoLostWake, Current
    <3>4. GivenOK'
      BY <1>1, <1>2, <2>1, <2>2 DEF ConnOK, GivenOK, Current
    <3> QED BY <3>1, <3>2, <3>3, <3>4 DEF ConnOK
  <2> QED BY <1>1, <1>2, <2>3, <2>4, <2>6 DEF Inv, ConnOK, TypeOK, DiskType, RegType, ConnType
<1> QED BY <1>3, <1>4

\* Sending the first UPDATE and installing the subscription keeps the invariant.
LEMMA SendInitialInv ==
  ASSUME Inv, NEW c \in Conns, SendInitial(c)
  PROVE  Inv'
<1> USE ConstantsAssumption
<1>1. DiskType /\ RegType /\ ConnType /\ ConnOK /\ JobOK
  BY TypeSplit DEF Inv, ConnOK
<1> DEFINE ask == want[c].ask
           g   == want[c].given
           s   == [file |-> ask.file, region |-> ask.region, mode |-> ask.mode,
                   base |-> g, shown |-> g.text]
<1>2. pc[c] = "send" /\ asks' = asks /\ UNCHANGED <<disk, files, dirRefs, source, job>>
  BY DEF SendInitial, regVars
<1>3. CASE Close(c)
  BY <1>1, <1>2, <1>3, CloseInv DEF ConnType
<1>4. CASE ~Close(c)
  <2>1. /\ subs' = [subs EXCEPT ![c] = Append(@, s)]
        /\ pc' = [pc EXCEPT ![c] = "loop"]
        /\ want' = [want EXCEPT ![c] = [given |-> EmptyGen]]
        /\ UNCHANGED <<wake, at>>
    BY <1>4 DEF SendInitial
  <2>2. s \in Sub /\ s.file = ask.file /\ s.base = g /\ ask.file \in Files
    <3>1. ask \in Ask /\ g \in Gen
      BY <1>1, <1>2 DEF ConnType
    <3>2. g.text \in Seq(Chars)
      BY <3>1, GenText
    <3> HIDE DEF ask, g
    <3> QED BY <3>1, <3>2 DEF Ask, Sub
  <2>3. Holds(c, ask.file) /\ ask.file \in DOMAIN files /\ files[ask.file].wakes[c] > 0
    BY <1>1, <1>2, <2>2 DEF Holds, ConnOK, SubscribedIsWatched
  <2>4. g.id # files[ask.file].gen.id => wake[c]
    BY <1>1, <1>2 DEF ConnOK, GivenOK, Current
  <2> HIDE DEF s, ask, g
  <2>5. /\ pc'[c] = "loop" /\ subs'[c] = Append(subs[c], s)
        /\ \A d \in Conns : d # c => pc'[d] = pc[d] /\ want'[d] = want[d] /\ subs'[d] = subs[d]
    BY <2>1, <1>1 DEF ConnType
  <2>6. subs[c] \in Seq(Sub) /\ Append(subs[c], s) \in Seq(Sub)
    BY <1>1, <2>2 DEF ConnType
  <2>7. /\ DOMAIN subs'[c] = 1 .. Len(subs[c]) + 1 /\ DOMAIN subs[c] = 1 .. Len(subs[c])
        /\ Len(subs[c]) \in Nat
        /\ \A i \in DOMAIN subs[c] : subs'[c][i] = subs[c][i]
        /\ subs'[c][Len(subs[c]) + 1] = s
    BY <2>5, <2>6, <2>2, SMTT(40)
  <2>8. ConnType'
    <3>1. subs' \in [Conns -> Seq(Sub)]
      BY <2>1, <2>6, <1>1 DEF ConnType
    <3> QED BY <3>1, <2>1, <2>5, <1>1, <1>2 DEF ConnType
  <2>9. JobOK'
    <3>1. job.pc = "attach" => job.conn \in Conns /\ job.conn # c
      BY <1>1, <1>2 DEF JobOK, RegType, Job
    <3>2. job.pc = "read" /\ job.conn # NoConn => job.conn \in Conns /\ job.conn # c
      BY <1>1, <1>2 DEF JobOK, RegType, Job
    <3> QED BY <3>1, <3>2, <1>1, <1>2, <2>5 DEF JobOK
  <2>10. FlushOK' /\ ClosedOK'
    BY <1>1, <2>1, <2>5 DEF ConnOK, FlushOK, ClosedOK
  <2>11. SubscribedIsWatched'
    <3> SUFFICES ASSUME NEW d \in Conns, NEW f \in Files, Holds(d, f)'
                 PROVE  f \in DOMAIN files /\ files[f].wakes[d] > 0
      BY <1>2 DEF SubscribedIsWatched
    <3>1. CASE d # c
      BY <3>1, <2>5, <1>1 DEF Holds, ConnOK, SubscribedIsWatched
    <3>2. CASE d = c
      <4>1. PICK i \in DOMAIN subs'[c] : subs'[c][i].file = f
        BY <3>2, <2>5 DEF Holds
      <4>2. CASE i \in DOMAIN subs[c]
        BY <4>1, <4>2, <3>2, <2>7, <1>1 DEF Holds, ConnOK, SubscribedIsWatched
      <4>3. CASE i = Len(subs[c]) + 1
        BY <4>1, <4>3, <3>2, <2>7, <2>2, <2>3
      <4> QED BY <4>1, <4>2, <4>3, <2>7, SMTT(40)
    <3> QED BY <3>1, <3>2
  <2>12. NoLostWake'
    <3> SUFFICES ASSUME NEW d \in Conns, NEW i \in DOMAIN subs'[d],
                        subs'[d][i].base.id # files[subs'[d][i].file].gen.id
                 PROVE  wake[d] \/ (pc'[d] = "flush" /\ at[d] <= i)
      BY <1>2, <2>1 DEF NoLostWake, Current
    <3>1. CASE d # c
      BY <3>1, <2>5, <1>1 DEF ConnOK, NoLostWake, Current
    <3>2. CASE d = c /\ i \in DOMAIN subs[c]
      BY <3>2, <2>7, <1>1, <1>2 DEF ConnOK, NoLostWake, Current
    <3>3. CASE d = c /\ i = Len(subs[c]) + 1
      BY <3>3, <2>7, <2>2, <2>4
    <3> QED BY <3>1, <3>2, <3>3, <2>7, SMTT(40)
  <2>13. GivenOK'
    BY <1>1, <1>2, <2>1, <2>5 DEF ConnOK, GivenOK, Current
  <2> QED BY <1>1, <1>2, <2>8, <2>9, <2>10, <2>11, <2>12, <2>13
          DEF Inv, TypeOK, DiskType, RegType, ConnType
<1> QED BY <1>3, <1>4

\* UNSUBSCRIBE drops the receivers of one connection and keeps the invariant.
LEMMA UnsubscribeInv ==
  ASSUME Inv, NEW c \in Conns, Unsubscribe(c)
  PROVE  Inv'
<1>1. DiskType /\ RegType /\ ConnType /\ ConnOK /\ JobOK
  BY TypeSplit DEF Inv, ConnOK
<1>2. /\ UNCHANGED <<disk, files, dirRefs, source, job, pc, wake, at, want, asks>> /\ pc[c] = "loop"
      /\ subs' = [subs EXCEPT ![c] = <<>>]
  BY DEF Unsubscribe, regVars
<1>3. subs'[c] = <<>> /\ \A d \in Conns : d # c => subs'[d] = subs[d]
  BY <1>1, <1>2 DEF ConnType
<1>4. ConnType'
  BY <1>1, <1>2 DEF ConnType
<1>5. JobOK'
  BY <1>1, <1>2 DEF JobOK
<1>6. FlushOK' /\ ClosedOK'
  BY <1>1, <1>2, <1>3 DEF ConnOK, FlushOK, ClosedOK
<1>7. SubscribedIsWatched'
  <2>1. \A d \in Conns : \A f \in Files : Holds(d, f)' => Holds(d, f)
    BY <1>2, <1>3 DEF Holds
  <2> QED BY <2>1, <1>1, <1>2 DEF ConnOK, SubscribedIsWatched
<1>8. NoLostWake' /\ GivenOK'
  BY <1>1, <1>2, <1>3 DEF ConnOK, NoLostWake, GivenOK, Current
<1> QED BY <1>1, <1>2, <1>4, <1>5, <1>6, <1>7, <1>8
        DEF Inv, TypeOK, DiskType, RegType, ConnType

\* Taking the wake moves the whole debt to the flush that starts at index 1.
LEMMA WokenInv ==
  ASSUME Inv, NEW c \in Conns, Woken(c)
  PROVE  Inv'
<1>1. DiskType /\ RegType /\ ConnType /\ ConnOK /\ JobOK
  BY TypeSplit DEF Inv, ConnOK
<1>2. /\ UNCHANGED <<disk, files, dirRefs, source, job, subs, want, asks>>
      /\ pc[c] = "loop" /\ subs[c] # <<>>
      /\ wake' = [wake EXCEPT ![c] = FALSE]
      /\ pc' = [pc EXCEPT ![c] = "flush"]
      /\ at' = [at EXCEPT ![c] = 1]
  BY DEF Woken, regVars
<1>3. /\ pc'[c] = "flush" /\ at'[c] = 1
      /\ \A d \in Conns : d # c => pc'[d] = pc[d] /\ wake'[d] = wake[d] /\ at'[d] = at[d]
  BY <1>1, <1>2 DEF ConnType
<1>4. ConnType'
  <2>1. wake' \in [Conns -> BOOLEAN]
    BY <1>1, <1>2 DEF ConnType
  <2>2. pc' \in [Conns -> {"loop", "attach", "send", "flush", "closed"}] /\ at' \in [Conns -> Nat \ {0}]
    BY <1>1, <1>2 DEF ConnType
  <2> QED BY <2>1, <2>2, <1>1, <1>2, <1>3 DEF ConnType
<1>5. JobOK'
  <2>1. job.pc = "attach" => job.conn \in Conns /\ job.conn # c
    BY <1>1, <1>2 DEF JobOK, RegType, Job
  <2>2. job.pc = "read" /\ job.conn # NoConn => job.conn \in Conns /\ job.conn # c
    BY <1>1, <1>2 DEF JobOK, RegType, Job
  <2> QED BY <2>1, <2>2, <1>1, <1>2, <1>3 DEF JobOK
<1>6. FlushOK' /\ ClosedOK'
  <2>1. 1 \in DOMAIN subs[c]
    BY <1>1, <1>2 DEF ConnType
  <2> QED BY <2>1, <1>1, <1>2, <1>3 DEF ConnOK, FlushOK, ClosedOK
<1>7. SubscribedIsWatched'
  <2>1. \A d \in Conns : \A f \in Files : Holds(d, f)' => Holds(d, f)
    BY <1>2, <1>3 DEF Holds
  <2> QED BY <2>1, <1>1, <1>2 DEF ConnOK, SubscribedIsWatched
<1>8. NoLostWake'
  <2> SUFFICES ASSUME NEW d \in Conns, NEW i \in DOMAIN subs[d],
                      subs[d][i].base.id # files[subs[d][i].file].gen.id
               PROVE  wake'[d] \/ (pc'[d] = "flush" /\ at'[d] <= i)
    BY <1>2 DEF NoLostWake, Current
  <2>1. CASE d # c
    BY <2>1, <1>1, <1>3 DEF ConnOK, NoLostWake, Current
  <2>2. CASE d = c
    <3>1. i >= 1
      BY <1>1 DEF ConnType
    <3> QED BY <2>2, <3>1, <1>3
  <2> QED BY <2>1, <2>2
<1>9. GivenOK'
  BY <1>1, <1>2, <1>3 DEF ConnOK, GivenOK, Current
<1> QED BY <1>1, <1>2, <1>4, <1>5, <1>6, <1>7, <1>8, <1>9
        DEF Inv, TypeOK, DiskType, RegType, ConnType

\* Dealing with generation g leaves a subscription of the same file at g.
LEMMA FlushedLemma ==
  ASSUME NEW s \in Sub, NEW g \in Gen
  PROVE  Flushed(s, g) \in Sub /\ Flushed(s, g).file = s.file /\ Flushed(s, g).base.id = g.id
<1>1. g.text \in Seq(Chars) /\ s.base.text \in Seq(Chars) /\ s.shown \in Seq(Chars)
  BY GenText DEF Sub
<1>2. Wire(s, g).text \in Seq(Chars)
  BY <1>1 DEF Wire
<1>3. [s EXCEPT !.base = g] \in Sub
  BY DEF Sub
<1>4. s.shown \o Wire(s, g).text \in Seq(Chars)
  BY <1>1, <1>2
<1>5. \A t \in Seq(Chars) : [s EXCEPT !.base = g, !.shown = t] \in Sub
  BY DEF Sub
<1>6. CASE g.id = s.base.id
  BY <1>6 DEF Flushed
<1>7. CASE g.id # s.base.id /\ Len(Wire(s, g).text) > RegionMax[s.region]
  BY <1>7, <1>3 DEF Flushed, Sub
<1>8. CASE g.id # s.base.id /\ ~(Len(Wire(s, g).text) > RegionMax[s.region])
  <2> DEFINE t == IF Wire(s, g).delta THEN s.shown \o Wire(s, g).text ELSE Wire(s, g).text
  <2>1. Flushed(s, g) = [s EXCEPT !.base = g, !.shown = t]
    BY <1>8 DEF Flushed
  <2>2. t \in Seq(Chars)
    BY <1>2, <1>4
  <2> HIDE DEF t
  <2> QED BY <2>1, <2>2, <1>5 DEF Sub
<1> QED BY <1>6, <1>7, <1>8

\* One iteration of flush_subscriptions settles one debt and keeps the invariant.
LEMMA FlushOneInv ==
  ASSUME Inv, NEW c \in Conns, FlushOne(c)
  PROVE  Inv'
<1>1. DiskType /\ RegType /\ ConnType /\ ConnOK /\ JobOK
  BY TypeSplit DEF Inv, ConnOK
<1> DEFINE i == at[c]
           s == subs[c][i]
           n == Flushed(s, files[s.file].gen)
<1>2. /\ pc[c] = "flush"
      /\ subs' = [subs EXCEPT ![c][i] = n]
      /\ UNCHANGED <<disk, files, dirRefs, source, job, wake, want, asks>>
  BY DEF FlushOne, regVars
<1>3. i \in DOMAIN subs[c] /\ s \in Sub /\ s.file \in Files /\ Holds(c, s.file)
  BY <1>1, <1>2, SubHolds DEF ConnOK, FlushOK
<1>4. s.file \in DOMAIN files /\ files[s.file].gen \in Gen
  BY <1>1, <1>3 DEF ConnOK, SubscribedIsWatched, RegType, Entry
<1>5. n \in Sub /\ n.file = s.file /\ n.base.id = files[s.file].gen.id
  <2> HIDE DEF s
  <2> QED BY <1>3, <1>4, FlushedLemma
<1> HIDE DEF n
<1>6. subs[c] \in Seq(Sub) /\ DOMAIN subs[c] = 1 .. Len(subs[c]) /\ Len(subs[c]) \in Nat /\ i \in Nat
  BY <1>1 DEF ConnType
<1>7. /\ subs'[c] = [subs[c] EXCEPT ![i] = n]
      /\ \A d \in Conns : d # c => subs'[d] = subs[d]
  BY <1>1, <1>2 DEF ConnType
<1>8. /\ DOMAIN subs'[c] = DOMAIN subs[c] /\ subs'[c] \in Seq(Sub)
      /\ subs'[c][i] = n
      /\ \A j \in DOMAIN subs[c] : j # i => subs'[c][j] = subs[c][j]
  BY <1>3, <1>5, <1>6, <1>7
<1>9. \/ /\ i = Len(subs[c])
         /\ pc' = [pc EXCEPT ![c] = "loop"] /\ at' = [at EXCEPT ![c] = 1]
      \/ /\ i # Len(subs[c])
         /\ at' = [at EXCEPT ![c] = i + 1] /\ UNCHANGED pc
  BY DEF FlushOne
<1>10. /\ \A d \in Conns : d # c => pc'[d] = pc[d] /\ at'[d] = at[d]
       /\ pc'[c] \in {"loop", "flush"}
       /\ pc'[c] = "flush" => at'[c] = i + 1 /\ i + 1 \in DOMAIN subs[c]
       /\ pc'[c] # "flush" => i = Len(subs[c])
  BY <1>1, <1>2, <1>3, <1>6, <1>9 DEF ConnType
<1>11. ConnType'
  <2>1. subs' \in [Conns -> Seq(Sub)]
    <3>1. subs' = [subs EXCEPT ![c] = subs'[c]]
      BY <1>1, <1>2 DEF ConnType
    <3> QED BY <3>1, <1>8, <1>1 DEF ConnType
  <2>2. pc' \in [Conns -> {"loop", "attach", "send", "flush", "closed"}] /\ at' \in [Conns -> Nat \ {0}]
    <3>0. i + 1 \in Nat \ {0} /\ 1 \in Nat \ {0}
      BY <1>6
    <3> HIDE DEF i
    <3>1. CASE i = Len(subs[c])
      BY <3>0, <3>1, <1>1, <1>9 DEF ConnType
    <3>2. CASE i # Len(subs[c])
      BY <3>0, <3>2, <1>1, <1>9 DEF ConnType
    <3> QED BY <3>1, <3>2
  <2> QED BY <2>1, <2>2, <1>1, <1>2, <1>10 DEF ConnType
<1>12. JobOK'
  <2>1. job.pc = "attach" => job.conn \in Conns /\ job.conn # c
    BY <1>1, <1>2 DEF JobOK, RegType, Job
  <2>2. job.pc = "read" /\ job.conn # NoConn => job.conn \in Conns /\ job.conn # c
    BY <1>1, <1>2 DEF JobOK, RegType, Job
  <2> QED BY <2>1, <2>2, <1>1, <1>2, <1>10 DEF JobOK
<1>13. FlushOK' /\ ClosedOK'
  BY <1>1, <1>7, <1>8, <1>10, SMTT(40) DEF ConnOK, FlushOK, ClosedOK
<1>14. SubscribedIsWatched'
  <2>1. \A d \in Conns : \A f \in Files : Holds(d, f)' => Holds(d, f)
    BY <1>2, <1>3, <1>5, <1>7, <1>8, <1>10 DEF Holds
  <2> QED BY <2>1, <1>1, <1>2 DEF ConnOK, SubscribedIsWatched
<1>15. NoLostWake'
  <2> SUFFICES ASSUME NEW d \in Conns, NEW j \in DOMAIN subs'[d],
                      subs'[d][j].base.id # files[subs'[d][j].file].gen.id
               PROVE  wake[d] \/ (pc'[d] = "flush" /\ at'[d] <= j)
    BY <1>2 DEF NoLostWake, Current
  <2>1. CASE d # c
    BY <2>1, <1>1, <1>7, <1>10 DEF ConnOK, NoLostWake, Current
  <2>2. CASE d = c
    <3>1. j # i
      BY <2>2, <1>5, <1>8
    <3>2. j \in DOMAIN subs[c] /\ subs'[c][j] = subs[c][j]
      BY <2>2, <3>1, <1>8
    <3>3. wake[c] \/ i <= j
      BY <2>2, <3>2, <1>1 DEF ConnOK, NoLostWake, Current
    <3> QED BY <2>2, <3>1, <3>2, <3>3, <1>6, <1>10
  <2> QED BY <2>1, <2>2, SMTT(40)
<1>16. GivenOK'
  BY <1>1, <1>2, <1>10 DEF ConnOK, GivenOK, Current
<1> QED BY <1>1, <1>2, <1>11, <1>12, <1>13, <1>14, <1>15, <1>16
        DEF Inv, TypeOK, DiskType, RegType, ConnType

\* Writes and removals of files by their owner do not touch the server's state.
LEMMA DiskInv ==
  ASSUME Inv, Disk
  PROVE  Inv'
<1>1. DiskType
  BY TypeSplit DEF Inv
<1>2. UNCHANGED <<files, dirRefs, source, job, pc, subs, wake, at, want, asks>>
  BY DEF Disk, Write, WriteSameTick, Delete, regVars, connVars
<1>3. DiskType'
  <2> DEFINE R == [exists : BOOLEAN, text : Texts, stamp : Nat \ {NoStamp}, again : BOOLEAN]
  <2>1. ASSUME NEW f \in Files, NEW t \in Texts, Write(f, t) PROVE DiskType'
    <3>1. [exists |-> TRUE, text |-> t, stamp |-> disk[f].stamp + 1, again |-> FALSE] \in R
      BY <1>1 DEF DiskType, NoStamp
    <3> QED BY <3>1, <2>1, <1>1 DEF DiskType, Write
  <2>2. ASSUME NEW f \in Files, NEW t \in Texts, WriteSameTick(f, t) PROVE DiskType'
    <3>1. [disk[f] EXCEPT !.text = t, !.again = TRUE] \in R
      BY <1>1 DEF DiskType
    <3>2. disk' = [disk EXCEPT ![f] = [disk[f] EXCEPT !.text = t, !.again = TRUE]]
      BY <2>2, <1>1 DEF WriteSameTick, DiskType
    <3> QED BY <3>1, <3>2, <1>1 DEF DiskType
  <2>3. ASSUME NEW f \in Files, Delete(f) PROVE DiskType'
    <3>1. [disk[f] EXCEPT !.exists = FALSE] \in R
      BY <1>1 DEF DiskType
    <3> QED BY <3>1, <2>3, <1>1 DEF DiskType, Delete
  <2> QED BY <2>1, <2>2, <2>3 DEF Disk
<1> QED BY <1>2, <1>3 DEF Inv, TypeOK, DiskType, JobOK, FlushOK, ClosedOK, SubscribedIsWatched, Holds,
                          NoLostWake, GivenOK, Current

-----------------------------------------------------------------------------
\* Every step keeps the inductive invariant: one case per action.
LEMMA StepInv == Inv /\ [Next]_vars => Inv'
<1> SUFFICES ASSUME Inv, [Next]_vars PROVE Inv'
  OBVIOUS
<1>0. RegType
  BY TypeSplit DEF Inv
<1>1. ASSUME NEW f \in Files, EventTouched(f) PROVE Inv'
  <2>1. source' \in {"up", "dead", "ended"}
    BY <1>1, <1>0 DEF EventTouched, RegType
  <2> QED BY <1>1, <2>1, MarkArm DEF EventTouched
<1>2. CASE EventRescan
  <2>1. source' \in {"up", "dead", "ended"}
    BY <1>2, <1>0 DEF EventRescan, RegType
  <2> QED BY <1>2, <2>1, MarkArm DEF EventRescan
<1>3. CASE SourceDies
  <2>1. RegType' /\ JobOK'
    BY <1>0, <1>3 DEF SourceDies, RegType, Inv, JobOK, connVars
  <2> QED BY <1>3, <2>1, RegistryQuiet DEF SourceDies, Inv, SubscribedIsWatched
<1>4. CASE SourceEnds
  BY <1>4, MarkArm DEF SourceEnds
<1>5. ASSUME NEW c \in Conns, AttachStart(c) PROVE Inv'
  BY <1>5, AttachStartInv
<1>6. ASSUME NEW c \in Conns, AttachRefused(c) PROVE Inv'
  <2>1. asks' \in [Conns -> Nat]
    BY <1>6, TypeSplit DEF AttachRefused, Inv, ConnType
  <2> QED BY <1>6, <2>1, CloseInv DEF AttachRefused
<1>7. CASE Settle
  BY <1>7, SettleInv
<1>8. CASE Reconcile
  BY <1>8, ReconcileInv
<1>9. ASSUME NEW f \in Files, Stat(f) PROVE Inv'
  BY <1>9, StatInv
<1>10. CASE ReadFile
  BY <1>10, ReadFileInv
<1>11. CASE Disk
  BY <1>11, DiskInv
<1>12. ASSUME NEW c \in Conns, Connection(c) PROVE Inv'
  <2>1. ASSUME NEW ask \in Ask, Subscribe(c, ask) PROVE Inv'
    BY <2>1, SubscribeInv
  <2>2. CASE SendInitial(c)
    BY <2>2, SendInitialInv
  <2>3. CASE Unsubscribe(c)
    BY <2>3, UnsubscribeInv
  <2>4. CASE Woken(c)
    BY <2>4, WokenInv
  <2>5. CASE FlushOne(c)
    BY <2>5, FlushOneInv
  <2>6. CASE Disconnect(c)
    <3>1. asks' \in [Conns -> Nat] /\ UNCHANGED <<disk, source, job, files, dirRefs>> /\ pc[c] # "attach"
      BY <2>6, TypeSplit DEF Disconnect, Inv, ConnType, regVars
    <3> QED BY <2>6, <3>1, CloseInv DEF Disconnect
  <2> QED BY <1>12, <2>1, <2>2, <2>3, <2>4, <2>5, <2>6 DEF Connection
<1>13. CASE UNCHANGED vars
  BY <1>13 DEF vars, regVars, connVars, Inv, TypeOK, JobOK, FlushOK, ClosedOK, SubscribedIsWatched,
               Holds, NoLostWake, GivenOK, Current
<1> QED BY <1>1, <1>2, <1>3, <1>4, <1>5, <1>6, <1>7, <1>8, <1>9, <1>10, <1>11, <1>12, <1>13
        DEF Next, Registry

\* The inductive invariant holds throughout, for any number of files, connections
\* and generations.
THEOREM Invariance == Spec => []Inv
  BY InitInv, StepInv, PTL DEF Spec

\* Type correctness of the registry and of the connection tasks.
THEOREM TypeCorrect == Spec => []TypeOK
<1>1. Inv => TypeOK
  BY DEF Inv
<1> QED BY <1>1, Invariance, PTL

\* No publish is ever forgotten: as long as a subscription lags behind its file's
\* current generation its connection has a wake pending or a flush that will reach
\* it (live_watch.rs, "a dropped wake is harmless").
THEOREM NoLostWakeAlways == Spec => []NoLostWake
<1>1. Inv => NoLostWake
  BY DEF Inv
<1> QED BY <1>1, Invariance, PTL

\* reap never removes an entry with a subscriber, nor loses the subscriber's wake.
THEOREM SubscribedIsWatchedAlways == Spec => []SubscribedIsWatched
<1>1. Inv => SubscribedIsWatched
  BY DEF Inv
<1> QED BY <1>1, Invariance, PTL

-----------------------------------------------------------------------------
(* What a subscriber shows.                                                *)

\* Appending the suffix strip_prefix leaves to the prefix gives the whole text.
LEMMA StripPrefix ==
  ASSUME NEW a \in Seq(Chars), NEW b \in Seq(Chars), IsPrefix(a, b)
  PROVE  /\ a \o SubSeq(b, Len(a) + 1, Len(b)) = b
         /\ Len(SubSeq(b, Len(a) + 1, Len(b))) = Len(b) - Len(a)
         /\ Len(a) <= Len(b)
<1> DEFINE c == SubSeq(b, Len(a) + 1, Len(b))
<1>1. Len(a) <= Len(b) /\ Len(a) \in Nat /\ Len(b) \in Nat
  BY DEF IsPrefix
<1>2. \A i \in 1 .. Len(a) : a[i] = b[i]
  BY <1>1 DEF IsPrefix
<1>3. c \in Seq(Chars) /\ Len(c) = Len(b) - Len(a)
      /\ \A i \in 1 .. Len(c) : c[i] = b[Len(a) + i]
  BY <1>1
<1> HIDE DEF c
<1>4. a \o c \in Seq(Chars) /\ Len(a \o c) = Len(b)
      /\ \A i \in 1 .. Len(b) : (a \o c)[i] = IF i <= Len(a) THEN a[i] ELSE c[i - Len(a)]
  BY <1>1, <1>3
<1>5. \A i \in 1 .. Len(b) : (a \o c)[i] = b[i]
  <2> TAKE i \in 1 .. Len(b)
  <2> DEFINE v == (a \o c)[i]
  <2>1. v = IF i <= Len(a) THEN a[i] ELSE c[i - Len(a)]
    BY <1>4
  <2> HIDE DEF v
  <2>2. CASE i <= Len(a)
    <3>1. i \in 1 .. Len(a)
      BY <1>1, <2>2
    <3> QED BY <1>2, <2>1, <2>2, <3>1 DEF v
  <2>3. CASE ~(i <= Len(a))
    <3>1. i - Len(a) \in 1 .. Len(c) /\ Len(a) + (i - Len(a)) = i
      BY <1>1, <1>3, <2>3
    <3>2. c[i - Len(a)] = b[Len(a) + (i - Len(a))]
      BY <1>3, <3>1
    <3> QED BY <2>1, <2>3, <3>1, <3>2 DEF v
  <2> QED BY <2>2, <2>3
<1>6. a \o c = b
  BY <1>4, <1>5, SeqEqual
<1> QED BY <1>1, <1>3, <1>6 DEF c

SubShown(s) == Len(s.base.text) <= RegionMax[s.region] => s.shown = s.base.text

\* Whatever flush_subscriptions does with a generation keeps the subscriber's copy
\* and the baseline together, or leaves a baseline too large for the region.
LEMMA FlushedShown ==
  ASSUME NEW s \in Sub, NEW g \in Gen, SubShown(s)
  PROVE  SubShown(Flushed(s, g))
<1> DEFINE old == s.base.text
           txt == g.text
           max == RegionMax[s.region]
           w   == Wire(s, g)
           n   == Flushed(s, g)
           pre == s.mode = "delta" /\ IsPrefix(old, txt)
<1>a. SUFFICES SubShown(n)
  OBVIOUS
<1>1. txt \in Seq(Chars) /\ old \in Seq(Chars) /\ max \in Nat
  BY GenText, ConstantsAssumption DEF Sub, Regions
<1>2. Len(txt) \in Nat /\ Len(old) \in Nat
  BY <1>1
<1>3. pre => /\ w.delta /\ w.text = SubSeq(txt, Len(old) + 1, Len(txt))
             /\ old \o w.text = txt
             /\ Len(w.text) = Len(txt) - Len(old) /\ Len(old) <= Len(txt)
  <2> SUFFICES ASSUME pre PROVE /\ w.delta /\ w.text = SubSeq(txt, Len(old) + 1, Len(txt))
                                /\ old \o w.text = txt
                                /\ Len(w.text) = Len(txt) - Len(old) /\ Len(old) <= Len(txt)
    OBVIOUS
  <2>1. w.delta /\ w.text = SubSeq(txt, Len(old) + 1, Len(txt))
    BY DEF Wire
  <2>2. IsPrefix(old, txt)
    OBVIOUS
  <2> HIDE DEF w, old, txt
  <2> QED BY <1>1, <2>1, <2>2, StripPrefix
<1>4. ~pre => ~w.delta /\ w.text = txt
  BY DEF Wire
<1>5. SubShown(s) <=> (Len(old) <= max => s.shown = old)
  BY DEF SubShown
<1>6. CASE g.id = s.base.id
  BY <1>6 DEF Flushed
<1>7. CASE g.id # s.base.id /\ Len(w.text) > max
  <2>1. n.base = g /\ n.region = s.region
    BY <1>7 DEF Flushed, Sub
  <2>2. SubShown(n) <=> (Len(txt) <= max => n.shown = txt)
    BY <2>1 DEF SubShown
  <2> HIDE DEF n, w, old, txt, max
  <2>3. pre \/ ~pre
    OBVIOUS
  <2> HIDE DEF pre
  <2> QED BY <1>1, <1>2, <1>3, <1>4, <1>7, <2>2, <2>3
<1>8. CASE g.id # s.base.id /\ ~(Len(w.text) > max)
  <2> DEFINE t == IF w.delta THEN s.shown \o w.text ELSE w.text
  <2>1. Flushed(s, g) = [s EXCEPT !.base = g, !.shown = t]
    BY <1>8 DEF Flushed
  <2>2. n.base = g /\ n.region = s.region /\ n.shown = t
    <3> HIDE DEF t
    <3> QED BY <2>1 DEF Sub
  <2>3. SubShown(n) <=> (Len(txt) <= max => n.shown = txt)
    BY <2>2 DEF SubShown
  <2> HIDE DEF n, w, old, txt, max
  <2>4. CASE pre
    <3>1. w.delta /\ old \o w.text = txt /\ Len(old) <= Len(txt)
      BY <2>4, <1>3
    <3>2. n.shown = s.shown \o w.text
      BY <3>1, <2>2
    <3>3. Len(txt) <= max => s.shown = old
      BY <3>1, <1>1, <1>2, <1>5
    <3> QED BY <3>1, <3>2, <3>3, <2>3
  <2>5. CASE ~pre
    <3> HIDE DEF pre
    <3> QED BY <2>5, <1>4, <2>2, <2>3
  <2> QED BY <2>4, <2>5
<1> QED BY <1>6, <1>7, <1>8

\* Every step keeps the subscriber's copy equal to its baseline.
LEMMA ShownStep == Inv /\ BaselineIsShown /\ [Next]_vars => BaselineIsShown'
<1> SUFFICES ASSUME Inv, BaselineIsShown, [Next]_vars,
                    NEW c \in Conns, NEW i \in DOMAIN subs'[c]
             PROVE  SubShown(subs'[c][i])
  BY DEF BaselineIsShown, SubShown
<1>1. RegType /\ ConnType /\ FlushOK /\ SubscribedIsWatched
  BY TypeSplit DEF Inv
<1>2. \A d \in Conns : \A j \in DOMAIN subs[d] : SubShown(subs[d][j])
  BY DEF BaselineIsShown, SubShown
<1>3. CASE UNCHANGED subs
  BY <1>2, <1>3
<1>4. ASSUME NEW d \in Conns, subs' = [subs EXCEPT ![d] = <<>>] PROVE SubShown(subs'[c][i])
  BY <1>1, <1>2, <1>4 DEF ConnType
<1>5. ASSUME NEW d \in Conns, SendInitial(d) PROVE SubShown(subs'[c][i])
  <2> DEFINE ask == want[d].ask
             g   == want[d].given
             s   == [file |-> ask.file, region |-> ask.region, mode |-> ask.mode,
                     base |-> g, shown |-> g.text]
  <2>1. CASE Close(d)
    BY <2>1, <1>4 DEF Close
  <2>2. CASE ~Close(d)
    <3>1. subs' = [subs EXCEPT ![d] = Append(@, s)]
      BY <1>5, <2>2 DEF SendInitial
    <3>2. SubShown(s)
      BY DEF SubShown
    <3> HIDE DEF s
    <3>3. CASE c # d
      BY <3>1, <3>3, <1>1, <1>2 DEF ConnType
    <3>4. CASE c = d
      <4>1. subs[d] \in Seq(Sub) /\ subs'[d] = Append(subs[d], s)
        BY <3>1, <1>1 DEF ConnType
      <4>2. \/ i \in DOMAIN subs[d] /\ subs'[d][i] = subs[d][i]
            \/ subs'[d][i] = s
        BY <4>1, <3>4
      <4> QED BY <4>2, <3>2, <3>4, <1>2
    <3> QED BY <3>3, <3>4
  <2> QED BY <2>1, <2>2
<1>6. ASSUME NEW d \in Conns, FlushOne(d) PROVE SubShown(subs'[c][i])
  <2> DEFINE k == at[d]
             s == subs[d][k]
             n == Flushed(s, files[s.file].gen)
  <2>1. subs' = [subs EXCEPT ![d][k] = n] /\ pc[d] = "flush"
    BY <1>6 DEF FlushOne
  <2>2. k \in DOMAIN subs[d] /\ s \in Sub /\ s.file \in Files /\ Holds(d, s.file)
    BY <2>1, <1>1, SubHolds DEF FlushOK
  <2>3. files[s.file].gen \in Gen
    BY <2>2, <1>1 DEF SubscribedIsWatched, RegType, Entry
  <2>4. SubShown(n)
    <3> HIDE DEF s
    <3>1. SubShown(s)
      BY <2>2, <1>2 DEF s
    <3> QED BY <2>2, <2>3, <3>1, FlushedShown
  <2> HIDE DEF n
  <2>5. CASE c # d
    BY <2>1, <2>5, <1>1, <1>2 DEF ConnType
  <2>6. CASE c = d
    <3>1. subs'[d] = [subs[d] EXCEPT ![k] = n]
      BY <2>1, <1>1 DEF ConnType
    <3> QED BY <3>1, <2>4, <2>6, <1>2
  <2> QED BY <2>5, <2>6
<1>7. ASSUME NEW d \in Conns, Connection(d) PROVE SubShown(subs'[c][i])
  <2>1. ASSUME NEW ask \in Ask, Subscribe(d, ask) PROVE SubShown(subs'[c][i])
    BY <2>1, <1>3, <1>4 DEF Subscribe, Close
  <2>2. CASE Unsubscribe(d) \/ Disconnect(d)
    BY <2>2, <1>4 DEF Unsubscribe, Disconnect, Close
  <2>3. CASE Woken(d)
    BY <2>3, <1>3 DEF Woken
  <2> QED BY <1>7, <1>5, <1>6, <2>1, <2>2, <2>3 DEF Connection
<1>8. CASE Registry
  <2>1. ASSUME NEW d \in Conns, AttachRefused(d) PROVE SubShown(subs'[c][i])
    BY <2>1, <1>4 DEF AttachRefused, Close
  <2>2. CASE \/ \E f \in Files : EventTouched(f) \/ Stat(f)
             \/ EventRescan \/ SourceDies \/ SourceEnds
             \/ \E d \in Conns : AttachStart(d)
             \/ Settle \/ Reconcile \/ ReadFile
    BY <2>2, <1>3 DEF EventTouched, Stat, EventRescan, SourceDies, SourceEnds, AttachStart, Settle,
                      Reconcile, ReadFile, connVars
  <2> QED BY <1>8, <2>1, <2>2 DEF Registry
<1>9. CASE Disk
  BY <1>9, <1>3 DEF Disk, Write, WriteSameTick, Delete, connVars
<1>10. CASE UNCHANGED vars
  BY <1>10, <1>3 DEF vars, connVars
<1> QED BY <1>7, <1>8, <1>9, <1>10 DEF Next

\* The delta sent to a subscriber is always computed against what the subscriber
\* shows, unless a generation too large for its region has been skipped.
THEOREM BaselineIsShownAlways == Spec => []BaselineIsShown
<1>1. Init => BaselineIsShown
  BY DEF Init, BaselineIsShown
<1> QED BY <1>1, ShownStep, Invariance, PTL DEF Spec
-----------------------------------------------------------------------------
\* Every directory of a watched file is counted.
Counted(fs) == \A f \in DOMAIN fs : dirRefs[DirOf[f]] > 0

\* reap gives up a directory only when its last watched file goes.
LEMMA CountedEndArm ==
    ASSUME RegType, NEW fs, DOMAIN fs \subseteq Files, NEW held, EndArm(fs, held), Counted(fs)
    PROVE  Counted(files)'
<1> DEFINE kept    == {f \in DOMAIN fs : f \in held \/ \E c \in Conns : Holds(c, f)}
           emptied == {DirOf[f] : f \in DOMAIN fs \ kept} \ {DirOf[f] : f \in kept}
<1>1. /\ DOMAIN files' = kept
      /\ dirRefs' = [d \in Dirs |->
                       IF d \in emptied /\ dirRefs[d] > 0 THEN dirRefs[d] - 1 ELSE dirRefs[d]]
  BY DEF EndArm
<1>2. ASSUME NEW f \in kept PROVE dirRefs'[DirOf[f]] > 0
  <2>1. DirOf[f] \in Dirs /\ DirOf[f] \notin emptied
    BY DEF Dirs
  <2> QED BY <1>1, <2>1 DEF Counted
<1> HIDE DEF kept
<1> QED BY <1>1, <1>2 DEF Counted

\* What follows a refresh hands reap the entries it was given.
LEMMA CountedRefreshed ==
    ASSUME RegType, NEW f, NEW fs, DOMAIN fs \subseteq Files, NEW todo, NEW c,
           Counted(fs), Refreshed(f, fs, todo, c)
    PROVE  Counted(files)'
<1>1. CASE c # NoConn
  <2> DEFINE ready == [fs EXCEPT ![f].wakes[c] = @ + 1]
  <2>1. EndArm(ready, {f}) /\ DOMAIN ready = DOMAIN fs
    BY <1>1 DEF Refreshed
  <2>2. Counted(ready)
    BY <2>1 DEF Counted
  <2> HIDE DEF ready
  <2> QED BY <2>1, <2>2, CountedEndArm
<1>2. CASE c = NoConn /\ todo = {}
  <2>1. EndArm(fs, {})
    BY <1>2 DEF Refreshed
  <2> QED BY <2>1, CountedEndArm
<1>3. CASE c = NoConn /\ todo # {}
  BY <1>3 DEF Refreshed, Counted
<1> QED BY <1>1, <1>2, <1>3

\* Each step that touches the registry keeps the directories of its files counted.
LEMMA DirectoryStep == Inv /\ DirectoryWatched /\ [Next]_vars => DirectoryWatched'
<1> SUFFICES ASSUME Inv, DirectoryWatched, [Next]_vars, source' = "up" PROVE Counted(files)'
  BY DEF DirectoryWatched, Counted
<1>0. RegType /\ DOMAIN files \subseteq Files
  BY TypeSplit DEF Inv, RegType
<1>a. source = "up" => Counted(files)
  BY DEF DirectoryWatched, Counted
<1>b. ASSUME NEW S, source = "up", EndArm(MarkedDirty(files, S), {}) PROVE Counted(files)'
  <2>1. DOMAIN MarkedDirty(files, S) = DOMAIN files
    BY DEF MarkedDirty
  <2>2. Counted(MarkedDirty(files, S))
    BY <1>a, <1>b, <2>1 DEF Counted
  <2> QED BY <1>0, <1>b, <2>1, <2>2, CountedEndArm
<1>c. ASSUME source = "up", EndArm(files, {}) PROVE Counted(files)'
  BY <1>0, <1>a, <1>c, CountedEndArm
<1>d. ASSUME UNCHANGED <<files, dirRefs, source>> PROVE Counted(files)'
  BY <1>a, <1>d DEF Counted
<1>1. ASSUME NEW f \in Files, EventTouched(f) PROVE Counted(files)'
  BY <1>1, <1>b DEF EventTouched
<1>2. CASE EventRescan
  BY <1>2, <1>b DEF EventRescan
<1>3. CASE SourceDies \/ SourceEnds
  BY <1>3 DEF SourceDies, SourceEnds
<1>5. ASSUME NEW c \in Conns, AttachStart(c) PROVE Counted(files)'
  <2> DEFINE f == want[c].ask.file
             d == DirOf[f]
  <2>1. CASE f \in DOMAIN files
    BY <1>5, <2>1, <1>d DEF AttachStart
  <2>2. CASE f \notin DOMAIN files
    <3>1. f \in Files /\ d \in Dirs
      BY <1>5, TypeSplit DEF AttachStart, Inv, ConnType, Ask, Dirs
    <3>2. /\ DOMAIN files' = DOMAIN files \cup {f}
          /\ dirRefs' = [dirRefs EXCEPT ![d] = @ + 1]
          /\ source = "up"
      BY <1>5, <2>2 DEF AttachStart
    <3>3. ASSUME NEW g \in DOMAIN files' PROVE dirRefs'[DirOf[g]] > 0
      <4>1. DirOf[g] \in Dirs
        BY <1>0, <3>1, <3>2 DEF Dirs
      <4>2. g # f => dirRefs[DirOf[g]] > 0
        BY <1>a, <3>2 DEF Counted
      <4> QED BY <1>0, <3>1, <3>2, <4>1, <4>2 DEF RegType
    <3> QED BY <3>3 DEF Counted
  <2> QED BY <2>1, <2>2
<1>6. ASSUME NEW c \in Conns, AttachRefused(c) PROVE Counted(files)'
  BY <1>6, <1>c DEF AttachRefused
<1>7. CASE Settle
  BY <1>7, <1>d DEF Settle
<1>8. CASE Reconcile
  BY <1>8, <1>a, <1>c DEF Reconcile, MarkedDirty, Counted
<1>9. ASSUME NEW f \in Files, Stat(f) PROVE Counted(files)'
  <2> DEFINE sweep == job.pc = "sweep"
             c     == IF sweep THEN NoConn ELSE job.conn
             todo  == IF sweep THEN job.todo \ {f} ELSE {}
             fs    == IF sweep THEN [files EXCEPT ![f].dirty = FALSE] ELSE files
             next  == [fs EXCEPT ![f].stamp = disk[f].stamp]
  <2>1. DOMAIN fs = DOMAIN files /\ DOMAIN next = DOMAIN files
    OBVIOUS
  <2>2. source = "up"
    BY <1>9 DEF Stat
  <2>3. Counted(fs) /\ Counted(next)
    BY <1>a, <2>1, <2>2 DEF Counted
  <2>4. \/ files' = fs /\ UNCHANGED dirRefs
        \/ Refreshed(f, fs, todo, c)
        \/ Refreshed(f, next, todo, c)
    BY <1>9 DEF Stat
  <2> HIDE DEF sweep, c, todo, fs, next
  <2> QED BY <1>0, <2>1, <2>3, <2>4, CountedRefreshed DEF Counted
<1>10. CASE ReadFile
  <2>1. PICK new : Refreshed(job.file, [files EXCEPT ![job.file] = new], job.todo, job.conn)
    BY <1>10 DEF ReadFile
  <2>2. source = "up"
    BY <1>10 DEF ReadFile
  <2>3. Counted([files EXCEPT ![job.file] = new])
    BY <1>a, <2>2 DEF Counted
  <2> QED BY <1>0, <2>1, <2>3, CountedRefreshed
<1>11. CASE Disk
  BY <1>11, <1>d DEF Disk, Write, WriteSameTick, Delete, regVars
<1>12. ASSUME NEW c \in Conns, Connection(c) PROVE Counted(files)'
  BY <1>12, <1>d DEF Connection, Subscribe, SendInitial, Unsubscribe, Woken, FlushOne, Disconnect, regVars
<1>13. CASE UNCHANGED vars
  BY <1>13, <1>d DEF vars, regVars
<1> QED BY <1>1, <1>2, <1>3, <1>5, <1>6, <1>7, <1>8, <1>9, <1>10, <1>11, <1>12, <1>13
        DEF Next, Registry

\* While the watcher thread lives no watched file loses its directory's watch: one
\* reference per file is taken by install, and reap gives one back only with the
\* directory's last file.
THEOREM DirectoryWatchedAlways == Spec => []DirectoryWatched
<1>1. Init => DirectoryWatched
  BY DEF Init, DirectoryWatched
<1> QED BY <1>1, DirectoryStep, Invariance, PTL DEF Spec

-----------------------------------------------------------------------------
(* The subscription budget.                                                *)

\* Some Arc points at generation g of file f.
Pinned(f, g) ==
    \/ f \in DOMAIN files /\ g = files[f].gen
    \/ \E c \in Conns : \E i \in DOMAIN subs[c] : subs[c][i].file = f /\ subs[c][i].base = g
    \/ \E c \in Conns : pc[c] = "send" /\ want[c].ask.file = f /\ want[c].given = g

\* The generations that are charged for, and the metadata leases of each connection.
Content  == UNION {{f} \X LiveGens(f) : f \in Files}
Lens(X)  == [p \in X |-> Len(p[2].text)]
Share(c) == Len(subs[c]) + (IF pc[c] \in {"attach", "send"} THEN 1 ELSE 0)
Shares   == [c \in Conns |-> Share(c)]

\* The leases in four parts: contents, entries, metadata and the running read.
LEMMA UsedParts ==
    /\ Used = SumOf(Lens(Content)) + EntryCost * Cardinality(DOMAIN files)
              + MetaCost * SumOf(Shares) + ReadLease
    /\ Used' = SumOf(Lens(Content')) + EntryCost * Cardinality(DOMAIN files')
               + MetaCost * SumOf(Shares') + ReadLease'
  BY DEF Used, Content, Lens, Shares, Share

\* A generation is charged for when something points at it.
LEMMA ContentPinned ==
    /\ \A p : p \in Content <=> \E f \in Files : \E g : p = <<f, g>> /\ Pinned(f, g)
    /\ \A p : p \in Content' <=> \E f \in Files : \E g : p = <<f, g>> /\ Pinned(f, g)'
<1>1. ASSUME NEW f, NEW g PROVE (g \in LiveGens(f) <=> Pinned(f, g)) /\ (g \in LiveGens(f)' <=> Pinned(f, g)')
  <2> DEFINE Bases(s) == UNION {{s[c][i].base : i \in {j \in DOMAIN s[c] : s[c][j].file = f}} : c \in Conns}
             Given(w, l) == {w[c].given : c \in {d \in Conns : l[d] = "send" /\ w[d].ask.file = f}}
  <2>1. ASSUME NEW s PROVE g \in Bases(s) <=> \E c \in Conns : \E i \in DOMAIN s[c] : s[c][i].file = f /\ s[c][i].base = g
    OBVIOUS
  <2>2. ASSUME NEW w, NEW l
        PROVE  g \in Given(w, l) <=> \E c \in Conns : l[c] = "send" /\ w[c].ask.file = f /\ w[c].given = g
    OBVIOUS
  <2>3. /\ LiveGens(f) = (IF f \in DOMAIN files THEN {files[f].gen} ELSE {}) \cup Bases(subs) \cup Given(want, pc)
        /\ LiveGens(f)' = (IF f \in DOMAIN files' THEN {files'[f].gen} ELSE {}) \cup Bases(subs') \cup Given(want', pc')
    BY DEF LiveGens
  <2> HIDE DEF Bases, Given
  <2> QED BY <2>1, <2>2, <2>3 DEF Pinned
<1>2. \A p : p \in Content <=> \E f \in Files : \E g \in LiveGens(f) : p = <<f, g>>
  BY DEF Content
<1>3. \A p : p \in Content' <=> \E f \in Files : \E g \in LiveGens(f)' : p = <<f, g>>
  BY DEF Content
<1> QED BY <1>1, <1>2, <1>3, Zenon

\* The parts of the budget are natural numbers.
LEMMA LeaseTypes ==
    ASSUME Inv
    PROVE  /\ Shares \in [Conns -> Nat]
           /\ \A f \in Files : \A g : Pinned(f, g) => g \in Gen
           /\ Lens(Content) \in [Content -> Nat]
           /\ IsFiniteSet(DOMAIN files) /\ Cardinality(DOMAIN files) \in Nat
           /\ ReadLease \in Nat
<1> USE ConstantsAssumption
<1>1. RegType /\ ConnType
  BY TypeSplit DEF Inv
<1>2. Shares \in [Conns -> Nat]
  BY <1>1 DEF Shares, Share, ConnType
<1>3. ASSUME NEW f \in Files, NEW g, Pinned(f, g) PROVE g \in Gen
  <2>1. CASE f \in DOMAIN files /\ g = files[f].gen
    BY <2>1, <1>1 DEF RegType, Entry
  <2>2. ASSUME NEW c \in Conns, NEW i \in DOMAIN subs[c], subs[c][i].base = g PROVE g \in Gen
    <3>1. subs[c][i] \in Sub
      BY <1>1, SubHolds
    <3> QED BY <2>2, <3>1 DEF Sub
  <2>3. ASSUME NEW c \in Conns, pc[c] = "send", want[c].given = g PROVE g \in Gen
    BY <2>3, <1>1 DEF ConnType
  <2> QED BY <1>3, <2>1, <2>2, <2>3 DEF Pinned
<1>4. \A p \in Content : Len(p[2].text) \in Nat
  <2> SUFFICES ASSUME NEW p \in Content PROVE Len(p[2].text) \in Nat
    OBVIOUS
  <2>0. PICK f \in Files : \E g : p = <<f, g>> /\ Pinned(f, g)
    BY ContentPinned
  <2>1. PICK g : p = <<f, g>> /\ Pinned(f, g)
    BY <2>0
  <2>2. p[2] = g /\ g \in Gen
    BY <1>3, <2>1
  <2>3. g.text \in Seq(Chars)
    BY <2>2, GenText
  <2> QED BY <2>2, <2>3
<1>5. Lens(Content) \in [Content -> Nat]
  BY <1>4 DEF Lens
<1>6. IsFiniteSet(DOMAIN files) /\ Cardinality(DOMAIN files) \in Nat
  BY <1>1, FS_Subset, FS_CardinalityType DEF RegType
<1>7. ReadLease \in Nat
  <2>1. job.pc = "read" => job.len \in Nat
    BY <1>1 DEF RegType, Job
  <2> QED BY <2>1 DEF ReadLease, Peak
<1> QED BY <1>2, <1>3, <1>5, <1>6, <1>7

\* A product grows with its factor.
LEMMA CostGrows ==
    ASSUME NEW e \in Nat, NEW a \in Nat, NEW b \in Nat, NEW k \in Nat, a <= b + k
    PROVE  e * a <= e * b + e * k /\ e * a \in Nat /\ e * b \in Nat /\ e * k \in Nat
  OBVIOUS

Leased == IsFiniteSet(Content) /\ BudgetRespected

\* What one step adds to each part of the budget is what it adds to the whole: at
\* most one generation, of n characters, the entries and the metadata leases it takes.
LEMMA LeaseStep ==
    ASSUME Inv, Inv', IsFiniteSet(Content),
           NEW p, NEW n \in Nat,
           \A f \in Files : \A g : Pinned(f, g)' =>
             Pinned(f, g) \/ (p = <<f, g>> /\ Len(g.text) <= n),
           NEW k \in Nat, Cardinality(DOMAIN files') <= Cardinality(DOMAIN files) + k,
           NEW c, NEW m \in Nat,
           \A d \in Conns : Share(d)' <= Share(d) + (IF d = c THEN m ELSE 0)
    PROVE  /\ IsFiniteSet(Content')
           /\ Used' + ReadLease <= Used + n + EntryCost * k + MetaCost * m + ReadLease'
<1> USE ConstantsAssumption
<1>1. /\ Shares \in [Conns -> Nat] /\ Lens(Content) \in [Content -> Nat]
      /\ Cardinality(DOMAIN files) \in Nat /\ ReadLease \in Nat
  BY LeaseTypes
<1>2. /\ Shares' \in [Conns -> Nat] /\ Lens(Content') \in [Content' -> Nat]
      /\ Cardinality(DOMAIN files') \in Nat /\ ReadLease' \in Nat
  <2>2. (Inv => /\ Shares \in [Conns -> Nat] /\ Lens(Content) \in [Content -> Nat]
                /\ Cardinality(DOMAIN files) \in Nat /\ ReadLease \in Nat)'
    BY LeaseTypes, PTL
  <2>3. Lens(Content)' = Lens(Content')
    BY DEF Lens
  <2> QED BY <2>2, <2>3
<1>3. ASSUME NEW q \in Content' PROVE q \in Content \/ (q = p /\ Len(q[2].text) <= n)
  <2>0. PICK f \in Files : \E g : q = <<f, g>> /\ Pinned(f, g)'
    BY ContentPinned
  <2>1. PICK g : q = <<f, g>> /\ Pinned(f, g)'
    BY <2>0
  <2>2. CASE Pinned(f, g)
    BY <2>1, <2>2, ContentPinned
  <2>3. CASE p = <<f, g>> /\ Len(g.text) <= n
    BY <2>1, <2>3
  <2> QED BY <2>1, <2>2, <2>3
<1> DEFINE X == Content
           Y == Content'
           w == Lens(X)
           v == Lens(Y)
<1>4. Y \subseteq X \cup {p}
  BY <1>3
<1>5. IsFiniteSet(Y)
  <2>1. IsFiniteSet(X \cup {p})
    BY FS_AddElement
  <2> QED BY <1>4, <2>1, FS_Subset
<1>6. SumOf(v) <= SumOf(w) + n /\ SumOf(v) \in Nat /\ SumOf(w) \in Nat
  <2>1. \A q \in X : w[q] = Len(q[2].text) /\ w[q] \in Nat
    BY <1>1 DEF Lens
  <2>2. \A q \in Y : v[q] = Len(q[2].text)
    BY DEF Lens
  <2>3. \A q \in Y \ {p} : v[q] <= w[q]
    <3> SUFFICES ASSUME NEW q \in Y \ {p} PROVE v[q] <= w[q]
      OBVIOUS
    <3>1. q \in X
      BY <1>4
    <3> HIDE DEF v, w
    <3> QED BY <2>1, <2>2, <3>1
  <2>4. p \in Y => v[p] <= n + (IF p \in X THEN w[p] ELSE 0)
    <3> SUFFICES ASSUME p \in Y PROVE v[p] <= n + (IF p \in X THEN w[p] ELSE 0)
      OBVIOUS
    <3>1. v[p] = Len(p[2].text) /\ (p \in X => w[p] = Len(p[2].text) /\ w[p] \in Nat)
      BY <2>1, <2>2
    <3>2. p \in X \/ Len(p[2].text) <= n
      BY <1>3
    <3> HIDE DEF v, w, X, Y
    <3> QED BY <3>1, <3>2
  <2>5. w \in [X -> Nat] /\ v \in [Y -> Nat]
    BY <1>1, <1>2
  <2>6. IsFiniteSet(X)
    OBVIOUS
  <2> HIDE DEF X, Y, w, v
  <2> QED BY <1>4, <2>3, <2>4, <2>5, <2>6, SumOfGrows
<1>7. SumOf(Shares') <= SumOf(Shares) + m /\ SumOf(Shares') \in Nat /\ SumOf(Shares) \in Nat
  <2> DEFINE s == Shares
             t == Shares'
  <2>1. \A d \in Conns : s[d] = Share(d) /\ t[d] = Share(d)'
    BY DEF Shares
  <2>2. s \in [Conns -> Nat] /\ t \in [Conns -> Nat]
    BY <1>1, <1>2
  <2> HIDE DEF s, t
  <2>3. \A d \in Conns \ {c} : t[d] <= s[d]
    <3> SUFFICES ASSUME NEW d \in Conns \ {c} PROVE t[d] <= s[d]
      OBVIOUS
    <3>1. Share(d)' <= Share(d) + 0
      OBVIOUS
    <3>2. s[d] \in Nat /\ s[d] = Share(d) /\ t[d] = Share(d)'
      BY <2>1, <2>2
    <3> QED BY <3>1, <3>2
  <2>4. c \in Conns => t[c] <= m + (IF c \in Conns THEN s[c] ELSE 0)
    <3> SUFFICES ASSUME c \in Conns PROVE t[c] <= m + s[c]
      OBVIOUS
    <3>1. Share(c)' <= Share(c) + m
      OBVIOUS
    <3>2. s[c] \in Nat /\ s[c] = Share(c) /\ t[c] = Share(c)'
      BY <2>1, <2>2
    <3> QED BY <3>1, <3>2
  <2>5. Conns \subseteq Conns \cup {c} /\ IsFiniteSet(Conns)
    OBVIOUS
  <2>6. SumOf(t) <= SumOf(s) + m /\ SumOf(t) \in Nat /\ SumOf(s) \in Nat
    BY <2>2, <2>3, <2>4, <2>5, SumOfGrows
  <2> QED BY <2>6 DEF s, t
<1>8. EntryCost \in Nat /\ MetaCost \in Nat
  OBVIOUS
<1> DEFINE a  == Cardinality(DOMAIN files)
           a1 == Cardinality(DOMAIN files')
           b  == SumOf(Shares)
           b1 == SumOf(Shares')
           l  == SumOf(Lens(Content))
           l1 == SumOf(Lens(Content'))
<1>9. EntryCost * a1 <= EntryCost * a + EntryCost * k
      /\ EntryCost * a1 \in Nat /\ EntryCost * a \in Nat /\ EntryCost * k \in Nat
  <2>1. a \in Nat /\ a1 \in Nat /\ a1 <= a + k
    BY <1>1, <1>2
  <2> HIDE DEF a, a1
  <2> QED BY <1>8, <2>1, CostGrows
<1>10. MetaCost * b1 <= MetaCost * b + MetaCost * m
      /\ MetaCost * b1 \in Nat /\ MetaCost * b \in Nat /\ MetaCost * m \in Nat
  <2>1. b \in Nat /\ b1 \in Nat /\ b1 <= b + m
    BY <1>7
  <2> HIDE DEF b, b1
  <2> QED BY <1>8, <2>1, CostGrows
<1> DEFINE ea == EntryCost * a
           e1 == EntryCost * a1
           ek == EntryCost * k
           mb == MetaCost * b
           m1 == MetaCost * b1
           mm == MetaCost * m
<1>11. Used = l + ea + mb + ReadLease /\ Used' = l1 + e1 + m1 + ReadLease'
  BY UsedParts
<1>12. l \in Nat /\ l1 \in Nat /\ l1 <= l + n
  BY <1>6
<1>13. e1 <= ea + ek /\ e1 \in Nat /\ ea \in Nat /\ ek \in Nat
       /\ m1 <= mb + mm /\ m1 \in Nat /\ mb \in Nat /\ mm \in Nat
  BY <1>9, <1>10
<1> DEFINE r  == ReadLease
           r1 == ReadLease'
<1>a. r \in Nat /\ r1 \in Nat
  BY <1>1, <1>2
<1>b. Used = l + ea + mb + r /\ Used' = l1 + e1 + m1 + r1
  BY <1>11
<1> HIDE DEF l, l1, e1, ea, ek, m1, mb, mm, r, r1
<1>c. (l1 + e1 + m1 + r1) + r <= (l + ea + mb + r) + n + ek + mm + r1
  BY <1>a, <1>12, <1>13
<1>14. Used' + ReadLease <= Used + n + ek + mm + ReadLease'
  BY <1>b, <1>c DEF r, r1
<1> QED BY <1>5, <1>14 DEF ek, mm

\* The budget in numbers.
LEMMA UsedType ==
    ASSUME Inv, IsFiniteSet(Content)
    PROVE  Used \in Nat /\ ReadLease \in Nat
<1> USE ConstantsAssumption
<1>1. /\ Shares \in [Conns -> Nat] /\ Lens(Content) \in [Content -> Nat]
      /\ Cardinality(DOMAIN files) \in Nat /\ ReadLease \in Nat
  BY LeaseTypes
<1> DEFINE X == Content
           w == Lens(X)
           s == Shares
           a == SumOf(w)
           b == SumOf(s)
           e == EntryCost * Cardinality(DOMAIN files)
           m == MetaCost * b
<1>2. a \in Nat
  <2>1. IsFiniteSet(X) /\ w \in [X -> Nat] /\ {} \in SUBSET X
    BY <1>1
  <2> HIDE DEF X, w
  <2> QED BY <2>1, SumOfSplit
<1>3. b \in Nat
  <2>1. IsFiniteSet(Conns) /\ s \in [Conns -> Nat] /\ {} \in SUBSET Conns
    BY <1>1
  <2> HIDE DEF s
  <2> QED BY <2>1, SumOfSplit
<1>4. e \in Nat /\ m \in Nat
  <2> HIDE DEF b
  <2> QED BY <1>1, <1>3
<1>5. Used = a + e + m + ReadLease
  BY UsedParts
<1> HIDE DEF a, e, m
<1> QED BY <1>1, <1>2, <1>4, <1>5

\* A step that charges for nothing.
LEMMA Shrinks ==
    ASSUME Inv, Inv', Leased,
           \A f \in Files : \A g : Pinned(f, g)' => Pinned(f, g),
           DOMAIN files' \subseteq DOMAIN files,
           \A d \in Conns : Share(d)' <= Share(d),
           ReadLease' <= ReadLease
    PROVE  Leased'
<1>1. IsFiniteSet(Content) /\ Used <= Budget /\ Used \in Nat /\ ReadLease \in Nat
  BY UsedType DEF Leased, BudgetRespected
<1>2. Cardinality(DOMAIN files') <= Cardinality(DOMAIN files) + 0
  <2>1. IsFiniteSet(DOMAIN files) /\ Cardinality(DOMAIN files) \in Nat
    BY LeaseTypes
  <2>2. Cardinality(DOMAIN files') <= Cardinality(DOMAIN files) /\ IsFiniteSet(DOMAIN files')
    BY <2>1, FS_Subset
  <2> QED BY <2>1, <2>2, FS_CardinalityType
<1>3. \A d \in Conns : Share(d)' <= Share(d) + (IF d = 0 THEN 0 ELSE 0)
  <2> SUFFICES ASSUME NEW d \in Conns PROVE Share(d)' <= Share(d) + 0
    OBVIOUS
  <2>1. Share(d) \in Nat
    BY LeaseTypes DEF Shares
  <2> QED BY <2>1
<1>4. \A f \in Files : \A g : Pinned(f, g)' => Pinned(f, g) \/ (0 = <<f, g>> /\ Len(g.text) <= 0)
  OBVIOUS
<1>5. /\ IsFiniteSet(Content')
      /\ Used' + ReadLease <= Used + 0 + EntryCost * 0 + MetaCost * 0 + ReadLease'
  BY <1>1, <1>2, <1>3, <1>4, LeaseStep
<1>6. EntryCost * 0 = 0 /\ MetaCost * 0 = 0 /\ Budget \in Nat
  BY ConstantsAssumption
<1>7. Used' \in Nat /\ ReadLease' \in Nat
  <2>1. (Inv /\ IsFiniteSet(Content) => Used \in Nat /\ ReadLease \in Nat)'
    BY UsedType, PTL
  <2> QED BY <2>1, <1>5
<1>8. Used' <= Budget
  BY <1>1, <1>5, <1>6, <1>7
<1> QED BY <1>5, <1>8 DEF Leased, BudgetRespected

\* reap removes entries and changes none.
LEMMA EndArmKeeps ==
    ASSUME NEW fs, NEW held, EndArm(fs, held)
    PROVE  DOMAIN files' \subseteq DOMAIN fs /\ \A f \in DOMAIN files' : files'[f] = fs[f]
<1> DEFINE kept == {f \in DOMAIN fs : f \in held \/ \E c \in Conns : Holds(c, f)}
<1>1. files' = [f \in kept |-> fs[f]]
  BY Zenon DEF EndArm
<1>2. kept \subseteq DOMAIN fs
  OBVIOUS
<1> HIDE DEF kept
<1> QED BY <1>1, <1>2

\* An arm of the registry that publishes nothing, answers nobody and reads nothing.
LEMMA ArmShrinks ==
    ASSUME Inv, Inv', Leased, UNCHANGED connVars, DOMAIN files' \subseteq DOMAIN files,
           \A f \in DOMAIN files' : files'[f].gen = files[f].gen,
           job'.pc # "read" \/ job' = job
    PROVE  Leased'
<1>1. \A f \in Files : \A g : Pinned(f, g)' => Pinned(f, g)
  BY DEF Pinned, connVars
<1>2. \A d \in Conns : Share(d)' <= Share(d)
  <2> SUFFICES ASSUME NEW d \in Conns PROVE Share(d)' <= Share(d)
    OBVIOUS
  <2>1. Share(d)' = Share(d) /\ Share(d) \in Nat
    BY LeaseTypes DEF Share, connVars, Shares
  <2> QED BY <2>1
<1>3. ReadLease' <= ReadLease
  <2>1. ReadLease \in Nat
    BY LeaseTypes
  <2> QED BY <2>1 DEF ReadLease
<1> QED BY <1>1, <1>2, <1>3, Shrinks

LEMMA MarkShrinks ==
    ASSUME Inv, Inv', Leased, NEW S, EndArm(MarkedDirty(files, S), {}), job = IdleJob,
           UNCHANGED <<job, connVars>>
    PROVE  Leased'
<1> DEFINE md == MarkedDirty(files, S)
<1>1. DOMAIN md = DOMAIN files /\ \A f \in DOMAIN files : md[f].gen = files[f].gen
  BY MarkedDirtyLemma, TypeSplit DEF Inv, RegType
<1>2. DOMAIN files' \subseteq DOMAIN md /\ \A f \in DOMAIN files' : files'[f] = md[f]
  BY EndArmKeeps
<1> HIDE DEF md
<1> QED BY <1>1, <1>2, ArmShrinks

\* Dropping connection c releases what it held.
LEMMA CloseShrinks ==
    ASSUME Inv, Inv', Leased, NEW c \in Conns, Close(c), UNCHANGED job,
           UNCHANGED files \/ EndArm(files, {})
    PROVE  Leased'
<1>1. ConnType
  BY TypeSplit DEF Inv
<1>2. /\ pc'[c] = "closed" /\ subs'[c] = <<>>
      /\ \A d \in Conns : d # c => pc'[d] = pc[d] /\ subs'[d] = subs[d] /\ want'[d] = want[d]
  BY <1>1 DEF Close, ConnType
<1>3. DOMAIN files' \subseteq DOMAIN files /\ \A f \in DOMAIN files' : files'[f] = files[f]
  BY EndArmKeeps
<1>4. \A f \in Files : \A g : Pinned(f, g)' => Pinned(f, g)
  BY <1>2, <1>3 DEF Pinned
<1>5. \A d \in Conns : Share(d)' <= Share(d)
  <2> SUFFICES ASSUME NEW d \in Conns PROVE Share(d)' <= Share(d)
    OBVIOUS
  <2>1. Share(d) \in Nat
    BY LeaseTypes DEF Shares
  <2>2. CASE d = c
    <3>1. Share(d)' = 0
      <4>1. Len(subs'[c]) = 0 /\ ~(pc'[c] \in {"attach", "send"})
        BY <1>2
      <4> QED BY <4>1, <2>2 DEF Share
    <3> QED BY <2>1, <3>1
  <2>3. CASE d # c
    <3>1. Share(d)' = Share(d)
      BY <2>3, <1>2 DEF Share
    <3> QED BY <2>1, <3>1
  <2> QED BY <2>2, <2>3
<1>6. ReadLease' <= ReadLease
  <2>1. ReadLease' = ReadLease /\ ReadLease \in Nat
    BY LeaseTypes DEF ReadLease
  <2> QED BY <2>1
<1> QED BY <1>3, <1>4, <1>5, <1>6, Shrinks

\* What follows a refresh of f points at nothing new but f's generation, and the
\* answer of an attach takes over the metadata lease of the request.
LEMMA RefreshedLease ==
    ASSUME Inv, NEW f \in DOMAIN files, NEW fs, DOMAIN fs = DOMAIN files,
           fs \in [DOMAIN files -> Entry], \A h \in DOMAIN files : h # f => fs[h] = files[h],
           NEW todo, NEW c, c = NoConn \/ (c \in Conns /\ pc[c] = "attach" /\ want[c].ask.file = f),
           Refreshed(f, fs, todo, c), UNCHANGED subs
    PROVE  /\ DOMAIN files' \subseteq DOMAIN files
           /\ \A d \in Conns : Share(d)' = Share(d)
           /\ ReadLease' = 0
           /\ \A h \in Files : \A g : Pinned(h, g)' => Pinned(h, g) \/ (h = f /\ g = fs[f].gen)
<1>1. ConnType
  BY TypeSplit DEF Inv
<1>2. CASE c # NoConn
  <2> DEFINE ready == [fs EXCEPT ![f].wakes[c] = @ + 1]
  <2>0. c \in Conns /\ pc[c] = "attach" /\ want[c].ask.file = f
    BY <1>2
  <2>1. /\ EndArm(ready, {f})
        /\ pc' = [pc EXCEPT ![c] = "send"]
        /\ want' = [want EXCEPT ![c].given = ready[f].gen]
        /\ job' = IdleJob
    BY <1>2, Zenon DEF Refreshed
  <2>2. DOMAIN ready = DOMAIN files /\ \A h \in DOMAIN files : ready[h].gen = fs[h].gen
    <3> DEFINE e == [fs[f] EXCEPT !.wakes[c] = @ + 1]
    <3>1. ready = [fs EXCEPT ![f] = e]
      OBVIOUS
    <3>2. e.gen = fs[f].gen
      BY DEF Entry
    <3> HIDE DEF e, ready
    <3> QED BY <3>1, <3>2
  <2>3. DOMAIN files' \subseteq DOMAIN ready /\ \A h \in DOMAIN files' : files'[h] = ready[h]
    BY <2>1, EndArmKeeps
  <2> HIDE DEF ready
  <2>4. /\ pc'[c] = "send" /\ want'[c].ask.file = f /\ want'[c].given = fs[f].gen
        /\ \A d \in Conns : d # c => pc'[d] = pc[d] /\ want'[d] = want[d]
    <3>1. pc'[c] = "send" /\ \A d \in Conns : d # c => pc'[d] = pc[d] /\ want'[d] = want[d]
      BY <2>0, <2>1, <1>1 DEF ConnType
    <3>2. want'[c].ask = want[c].ask
      BY <2>0, <2>1, <1>1 DEF ConnType
    <3>3. want'[c].given = ready[f].gen
      <4>1. want'[c] = [want[c] EXCEPT !.given = ready[f].gen]
        BY <2>0, <2>1, <1>1 DEF ConnType
      <4>2. want[c].given = want[c].given
        OBVIOUS
      <4> QED BY <4>1
    <3> QED BY <2>0, <2>2, <3>1, <3>2, <3>3
  <2>5. ReadLease' = 0
    BY <2>1 DEF ReadLease, IdleJob
  <2>6. \A d \in Conns : Share(d)' = Share(d)
    BY <2>0, <2>4 DEF Share
  <2>7. ASSUME NEW h \in Files, NEW g, Pinned(h, g)' PROVE Pinned(h, g) \/ (h = f /\ g = fs[f].gen)
    <3>1. CASE h \in DOMAIN files' /\ g = files'[h].gen
      <4>1. h \in DOMAIN files /\ g = fs[h].gen
        BY <3>1, <2>2, <2>3
      <4> QED BY <4>1 DEF Pinned
    <3>2. CASE \E d \in Conns : \E i \in DOMAIN subs'[d] : subs'[d][i].file = h /\ subs'[d][i].base = g
      BY <3>2 DEF Pinned
    <3>3. ASSUME NEW d \in Conns, pc'[d] = "send", want'[d].ask.file = h, want'[d].given = g
          PROVE  Pinned(h, g) \/ (h = f /\ g = fs[f].gen)
      BY <3>3, <2>4 DEF Pinned
    <3> QED BY <2>7, <3>1, <3>2, <3>3 DEF Pinned
  <2> QED BY <2>2, <2>3, <2>5, <2>6, <2>7
<1>3. CASE c = NoConn
  <2>1. /\ UNCHANGED <<pc, want>>
        /\ \/ EndArm(fs, {}) /\ job' = IdleJob
           \/ files' = fs /\ job' = [pc |-> "sweep", todo |-> todo]
    <3>1. UNCHANGED <<pc, want>>
      BY <1>3 DEF Refreshed
    <3>2. CASE todo = {}
      <4>1. EndArm(fs, {}) /\ job' = IdleJob
        BY <1>3, <3>2, Zenon DEF Refreshed
      <4> QED BY <3>1, <4>1
    <3>3. CASE todo # {}
      <4>1. files' = fs /\ job' = [pc |-> "sweep", todo |-> todo]
        BY <1>3, <3>3 DEF Refreshed
      <4> QED BY <3>1, <4>1
    <3> QED BY <3>2, <3>3
  <2>2. DOMAIN files' \subseteq DOMAIN files /\ \A h \in DOMAIN files' : files'[h] = fs[h]
    BY <2>1, EndArmKeeps
  <2>3. ReadLease' = 0
    BY <2>1 DEF ReadLease, IdleJob
  <2>4. \A d \in Conns : Share(d)' = Share(d)
    BY <2>1 DEF Share
  <2>5. \A h \in Files : \A g : Pinned(h, g)' => Pinned(h, g) \/ (h = f /\ g = fs[f].gen)
    BY <2>1, <2>2 DEF Pinned
  <2> QED BY <2>2, <2>3, <2>4, <2>5
<1> QED BY <1>2, <1>3

\* What a step of the registry or of a connection was let have fits what was left.
LEMMA Admitted ==
    ASSUME Inv, Inv', Leased, NEW n \in Nat, NEW p,
           \A f \in Files : \A g : Pinned(f, g)' =>
             Pinned(f, g) \/ (p = <<f, g>> /\ Len(g.text) <= n),
           NEW k \in Nat, Cardinality(DOMAIN files') <= Cardinality(DOMAIN files) + k,
           NEW c, NEW m \in Nat,
           \A d \in Conns : Share(d)' <= Share(d) + (IF d = c THEN m ELSE 0),
           n + EntryCost * k + MetaCost * m + ReadLease' <= ReadLease \/
             Used + (n + EntryCost * k + MetaCost * m + ReadLease') <= Budget + ReadLease
    PROVE  Leased'
<1> DEFINE e == EntryCost * k
           x == MetaCost * m
           r == ReadLease
           r1 == ReadLease'
<1>1. IsFiniteSet(Content) /\ Used <= Budget /\ Used \in Nat /\ r \in Nat
  BY UsedType DEF Leased, BudgetRespected
<1>2. IsFiniteSet(Content') /\ Used' + r <= Used + n + e + x + r1
  BY <1>1, LeaseStep
<1>3. Used' \in Nat /\ r1 \in Nat
  <2>1. (Inv /\ IsFiniteSet(Content) => Used \in Nat /\ ReadLease \in Nat)'
    BY UsedType, PTL
  <2> QED BY <2>1, <1>2
<1>4. e \in Nat /\ x \in Nat /\ Budget \in Nat
  BY ConstantsAssumption
<1>5. n + e + x + r1 <= r \/ Used + (n + e + x + r1) <= Budget + r
  OBVIOUS
<1> HIDE DEF e, x, r, r1
<1>6. Used' <= Budget
  BY <1>1, <1>2, <1>3, <1>4, <1>5
<1> QED BY <1>2, <1>6 DEF Leased, BudgetRespected

\* The same number of entries or fewer.
LEMMA FewerEntries ==
    ASSUME Inv, DOMAIN files' \subseteq DOMAIN files
    PROVE  Cardinality(DOMAIN files') <= Cardinality(DOMAIN files) + 0
<1>1. IsFiniteSet(DOMAIN files) /\ Cardinality(DOMAIN files) \in Nat
  BY LeaseTypes
<1>2. Cardinality(DOMAIN files') <= Cardinality(DOMAIN files) /\ IsFiniteSet(DOMAIN files')
  BY <1>1, FS_Subset
<1> QED BY <1>1, <1>2, FS_CardinalityType

\* install takes the lease of one entry, whose generation is empty.
LEMMA AttachStartLease ==
    ASSUME Inv, Inv', Leased, NEW c \in Conns, AttachStart(c)
    PROVE  Leased'
<1> DEFINE f == want[c].ask.file
<1>1. job' = [pc |-> "attach", conn |-> c] /\ job = IdleJob /\ UNCHANGED connVars
  BY DEF AttachStart
<1>2. CASE f \in DOMAIN files
  <2>1. files' = files
    BY <1>2 DEF AttachStart
  <2> QED BY <1>1, <2>1, ArmShrinks
<1>3. CASE f \notin DOMAIN files
  <2>1. /\ files' = [g \in DOMAIN files \cup {f} |-> IF g = f THEN NewEntry ELSE files[g]]
        /\ Affords(EntryCost)
    BY <1>3 DEF AttachStart
  <2> DEFINE p == <<f, EmptyGen>>
  <2>2. DOMAIN files' = DOMAIN files \cup {f} /\ files'[f] = NewEntry
        /\ \A g \in DOMAIN files : files'[g] = files[g]
    <3> HIDE DEF f
    <3> QED BY <2>1, <1>3
  <2>3. NewEntry.gen = EmptyGen /\ Len(EmptyGen.text) = 0
    BY DEF NewEntry, EmptyGen
  <2>4. \A h \in Files : \A g : Pinned(h, g)' => Pinned(h, g) \/ (p = <<h, g>> /\ Len(g.text) <= 0)
    <3> SUFFICES ASSUME NEW h \in Files, NEW g, Pinned(h, g)'
                 PROVE  Pinned(h, g) \/ (p = <<h, g>> /\ Len(g.text) <= 0)
      OBVIOUS
    <3> HIDE DEF f
    <3>1. CASE h \in DOMAIN files' /\ g = files'[h].gen
      <4>1. CASE h = f
        BY <3>1, <4>1, <2>2, <2>3
      <4>2. CASE h # f
        BY <3>1, <4>2, <2>2 DEF Pinned
      <4> QED BY <4>1, <4>2
    <3>2. CASE ~(h \in DOMAIN files' /\ g = files'[h].gen)
      BY <3>2, <1>1 DEF Pinned, connVars
    <3> QED BY <3>1, <3>2
  <2>5. Cardinality(DOMAIN files') <= Cardinality(DOMAIN files) + 1
    <3>1. IsFiniteSet(DOMAIN files) /\ Cardinality(DOMAIN files) \in Nat
      BY LeaseTypes
    <3> HIDE DEF f
    <3>2. Cardinality(DOMAIN files \cup {f}) = Cardinality(DOMAIN files) + 1
      BY <3>1, <1>3, FS_AddElement
    <3> QED BY <3>1, <3>2, <2>2
  <2>6. \A d \in Conns : Share(d)' <= Share(d) + (IF d = c THEN 0 ELSE 0)
    <3> SUFFICES ASSUME NEW d \in Conns PROVE Share(d)' <= Share(d) + 0
      OBVIOUS
    <3>1. Share(d)' = Share(d) /\ Share(d) \in Nat
      BY <1>1, LeaseTypes DEF Share, connVars, Shares
    <3> QED BY <3>1
  <2>7. ReadLease = 0 /\ ReadLease' = 0
    BY <1>1 DEF ReadLease, IdleJob
  <2>8. Used + (0 + EntryCost * 1 + MetaCost * 0 + ReadLease') <= Budget + ReadLease
    <3>1. Used \in Nat /\ EntryCost \in Nat /\ MetaCost \in Nat /\ Budget \in Nat
      BY UsedType, ConstantsAssumption DEF Leased
    <3>2. Used + EntryCost <= Budget
      BY <2>1 DEF Affords
    <3> QED BY <3>1, <3>2, <2>7
  <2> HIDE DEF p, f
  <2>9. 0 \in Nat /\ 1 \in Nat
    OBVIOUS
  <2> QED BY <2>4, <2>5, <2>6, <2>8, <2>9, Admitted
<1> QED BY <1>2, <1>3

\* The stat either starts a read it has reserved the peak of, or ends the refresh.
LEMMA StatLease ==
    ASSUME Inv, Inv', Leased, NEW f \in Files, Stat(f)
    PROVE  Leased'
<1> USE ConstantsAssumption
<1>1. DiskType /\ RegType /\ ConnType /\ JobOK
  BY TypeSplit DEF Inv
<1> DEFINE sweep == job.pc = "sweep"
           c     == IF sweep THEN NoConn ELSE job.conn
           todo  == IF sweep THEN job.todo \ {f} ELSE {}
           fs    == IF sweep THEN [files EXCEPT ![f].dirty = FALSE] ELSE files
           now   == disk[f]
           fresh == now.exists /\ now.stamp # files[f].stamp
           large == Len(now.text) > SharedMax
           ft    == IF fresh /\ large THEN [fs EXCEPT ![f].stamp = now.stamp] ELSE fs
<1>2. /\ f \in DOMAIN files
      /\ c = NoConn \/ (c \in Conns /\ pc[c] = "attach" /\ want[c].ask.file = f)
      /\ job.pc # "read"
  BY <1>1 DEF Stat, JobOK, RegType, Job
<1>3. /\ DOMAIN fs = DOMAIN files /\ fs \in [DOMAIN files -> Entry]
      /\ \A g \in DOMAIN files : g # f => fs[g] = files[g]
      /\ fs[f].gen = files[f].gen /\ fs[f].wakes = files[f].wakes
  BY <1>1, <1>2 DEF RegType, Entry
<1>4. now.stamp \in Nat /\ Len(now.text) \in Nat
  BY <1>1 DEF DiskType
<1>5. /\ DOMAIN ft = DOMAIN files /\ ft \in [DOMAIN files -> Entry]
      /\ \A g \in DOMAIN files : g # f => ft[g] = files[g]
      /\ ft[f].gen = files[f].gen /\ ft[f].wakes = files[f].wakes
  <2> HIDE DEF fs, fresh, large, now
  <2> QED BY <1>2, <1>3, <1>4 DEF Entry
<1>6. ReadLease = 0
  BY <1>2 DEF ReadLease
<1>7. CASE fresh /\ ~large /\ Affords(Peak(Len(now.text)))
  <2> DEFINE n == Len(now.text)
  <2>1. /\ files' = fs
        /\ job' = [pc |-> "read", todo |-> todo, conn |-> c, file |-> f, stamp |-> now.stamp, len |-> n]
        /\ UNCHANGED <<pc, want, subs>>
        /\ Used + Peak(n) <= Budget
    BY <1>7, Zenon DEF Stat, Affords
  <2>2. ReadLease' = Peak(n)
    <3> HIDE DEF todo, c, now, n
    <3> QED BY <2>1 DEF ReadLease
  <2> HIDE DEF fs, n
  <2>3. \A h \in Files : \A g : Pinned(h, g)' => Pinned(h, g) \/ (0 = <<h, g>> /\ Len(g.text) <= 0)
    <3>1. DOMAIN files' = DOMAIN files /\ \A h \in DOMAIN files : files'[h].gen = files[h].gen
      BY <1>3, <2>1
    <3> QED BY <2>1, <3>1 DEF Pinned
  <2>4. Cardinality(DOMAIN files') <= Cardinality(DOMAIN files) + 0
    BY <1>3, <2>1, FewerEntries
  <2>5. \A d \in Conns : Share(d)' <= Share(d) + (IF d = 0 THEN 0 ELSE 0)
    <3> SUFFICES ASSUME NEW d \in Conns PROVE Share(d)' <= Share(d) + 0
      OBVIOUS
    <3>1. Share(d)' = Share(d) /\ Share(d) \in Nat
      BY <2>1, LeaseTypes DEF Share, Shares
    <3> QED BY <3>1
  <2>6. Used + (0 + EntryCost * 0 + MetaCost * 0 + ReadLease') <= Budget + ReadLease
    <3>1. Used \in Nat /\ EntryCost \in Nat /\ MetaCost \in Nat /\ Budget \in Nat
      BY UsedType, ConstantsAssumption DEF Leased
    <3>2. n \in Nat /\ Peak(n) \in Nat
      <4>1. n \in Nat
        BY <1>4 DEF n
      <4> QED BY <4>1 DEF Peak
    <3> HIDE DEF now
    <3> QED BY <3>1, <3>2, <2>1, <2>2, <1>6
  <2>7. 0 \in Nat
    OBVIOUS
  <2> QED BY <2>3, <2>4, <2>5, <2>6, <2>7, Admitted
<1>8. CASE ~(fresh /\ ~large /\ Affords(Peak(Len(now.text))))
  <2>1. Refreshed(f, ft, todo, c) /\ UNCHANGED subs
    BY <1>8, Zenon DEF Stat
  <2> HIDE DEF ft, todo, c
  <2>2. /\ DOMAIN files' \subseteq DOMAIN files
        /\ \A d \in Conns : Share(d)' = Share(d)
        /\ ReadLease' = 0
        /\ \A h \in Files : \A g : Pinned(h, g)' => Pinned(h, g) \/ (h = f /\ g = ft[f].gen)
    BY <1>2, <1>5, <2>1, RefreshedLease
  <2>3. Pinned(f, ft[f].gen)
    BY <1>2, <1>5 DEF Pinned
  <2>4. \A h \in Files : \A g : Pinned(h, g)' => Pinned(h, g)
    BY <2>2, <2>3
  <2>5. \A d \in Conns : Share(d)' <= Share(d)
    <3> SUFFICES ASSUME NEW d \in Conns PROVE Share(d)' <= Share(d)
      OBVIOUS
    <3>1. Share(d) \in Nat
      BY LeaseTypes DEF Shares
    <3> QED BY <3>1, <2>2
  <2>6. ReadLease' <= ReadLease
    BY <1>6, <2>2
  <2> QED BY <2>2, <2>4, <2>5, <2>6, Shrinks
<1> QED BY <1>7, <1>8

\* The read gives its peak back and retains no more than the length it was let have.
LEMMA ReadFileLease ==
    ASSUME Inv, Inv', Leased, ReadFile
    PROVE  Leased'
<1> USE ConstantsAssumption
<1>1. DiskType /\ RegType /\ ConnType /\ JobOK
  BY TypeSplit DEF Inv
<1> DEFINE f    == job.file
           now  == disk[f]
           e    == files[f]
           ok   == now.exists /\ Len(now.text) <= job.len
           publ == ok /\ now.text # e.gen.text
           open == [c \in Conns |-> IF pc[c] = "closed" THEN 0 ELSE e.wakes[c]]
           new  == IF publ THEN [e EXCEPT !.stamp = job.stamp, !.wakes = open,
                                          !.gen = [id |-> e.gen.id + 1, text |-> now.text]]
                   ELSE IF ok THEN [e EXCEPT !.stamp = job.stamp] ELSE e
           fs   == [files EXCEPT ![f] = new]
           n    == job.len
<1>2. /\ Refreshed(f, fs, job.todo, job.conn)
      /\ UNCHANGED subs
      /\ job.pc = "read"
  BY Zenon DEF ReadFile
<1>3. /\ f \in DOMAIN files /\ f \in Files
      /\ job.stamp \in Nat /\ n \in Nat
      /\ job.conn = NoConn \/ (job.conn \in Conns /\ pc[job.conn] = "attach"
                                /\ want[job.conn].ask.file = f)
  BY <1>1, <1>2 DEF JobOK, RegType, Job
<1>4. e \in Entry /\ now.text \in Texts /\ e.gen.id \in Nat /\ e.wakes \in [Conns -> Nat]
  BY <1>1, <1>3 DEF RegType, DiskType, Entry, Gen
<1>5. open \in [Conns -> Nat]
  <2> HIDE DEF e
  <2> QED BY <1>4
<1>6. new \in Entry /\ (new.gen = e.gen \/ Len(new.gen.text) <= n)
  <2> HIDE DEF e, now, open, n
  <2>1. CASE publ
    <3> DEFINE g == [id |-> e.gen.id + 1, text |-> now.text]
    <3>1. g \in Gen /\ g.text = now.text
      BY <1>4, SMTT(40) DEF Gen
    <3>2. new = [e EXCEPT !.stamp = job.stamp, !.wakes = open, !.gen = g]
      BY <2>1
    <3>3. Len(now.text) <= n
      BY <2>1 DEF n
    <3> HIDE DEF new, g, publ
    <3>4. new \in Entry /\ new.gen = g
      BY <3>1, <3>2, <1>3, <1>4, <1>5 DEF Entry
    <3> QED BY <3>1, <3>3, <3>4
  <2>2. CASE ~publ
    BY <2>2, <1>3, <1>4 DEF Entry
  <2> HIDE DEF publ, new
  <2> QED BY <2>1, <2>2, Zenon
<1> HIDE DEF new, n
<1>7. /\ DOMAIN fs = DOMAIN files /\ fs \in [DOMAIN files -> Entry]
      /\ \A h \in DOMAIN files : h # f => fs[h] = files[h]
      /\ fs[f] = new
  <2> HIDE DEF f
  <2> QED BY <1>1, <1>3, <1>6 DEF RegType
<1> HIDE DEF f, fs
<1> DEFINE p == <<f, new.gen>>
<1>8. /\ DOMAIN files' \subseteq DOMAIN files
      /\ \A d \in Conns : Share(d)' = Share(d)
      /\ ReadLease' = 0
      /\ \A h \in Files : \A g : Pinned(h, g)' => Pinned(h, g) \/ (h = f /\ g = fs[f].gen)
  BY <1>2, <1>3, <1>7, RefreshedLease
<1>9. \A h \in Files : \A g : Pinned(h, g)' => Pinned(h, g) \/ (p = <<h, g>> /\ Len(g.text) <= n)
  <2> SUFFICES ASSUME NEW h \in Files, NEW g, Pinned(h, g)'
               PROVE  Pinned(h, g) \/ (p = <<h, g>> /\ Len(g.text) <= n)
    OBVIOUS
  <2>1. CASE h = f /\ g = new.gen /\ new.gen = e.gen
    BY <2>1, <1>3 DEF Pinned
  <2>2. CASE h = f /\ g = new.gen /\ Len(new.gen.text) <= n
    BY <2>2
  <2> QED BY <2>1, <2>2, <1>6, <1>7, <1>8
<1>10. Cardinality(DOMAIN files') <= Cardinality(DOMAIN files) + 0
  BY <1>8, FewerEntries
<1>11. \A d \in Conns : Share(d)' <= Share(d) + (IF d = 0 THEN 0 ELSE 0)
  <2> SUFFICES ASSUME NEW d \in Conns PROVE Share(d)' <= Share(d) + 0
    OBVIOUS
  <2>1. Share(d) \in Nat
    BY LeaseTypes DEF Shares
  <2> QED BY <2>1, <1>8
<1>12. n + EntryCost * 0 + MetaCost * 0 + ReadLease' <= ReadLease
  <2>1. ReadLease = Peak(n)
    BY <1>2 DEF ReadLease, n
  <2> QED BY <2>1, <1>3, <1>8 DEF Peak
<1> HIDE DEF p
<1>13. 0 \in Nat
  OBVIOUS
<1> QED BY <1>3, <1>9, <1>10, <1>11, <1>12, <1>13, Admitted

\* SUBSCRIBE takes the lease of one subscription's metadata.
LEMMA SubscribeLease ==
    ASSUME Inv, Inv', Leased, NEW c \in Conns, NEW ask \in Ask, Subscribe(c, ask)
    PROVE  Leased'
<1>1. ConnType
  BY TypeSplit DEF Inv
<1>2. UNCHANGED <<files, job>> /\ pc[c] = "loop"
  BY DEF Subscribe, regVars
<1>3. CASE Close(c)
  BY <1>2, <1>3, CloseShrinks
<1>4. CASE ~Close(c)
  <2>1. /\ pc' = [pc EXCEPT ![c] = "attach"]
        /\ want' = [want EXCEPT ![c] = [ask |-> ask, given |-> EmptyGen]]
        /\ UNCHANGED subs
        /\ Used + MetaCost <= Budget
    BY <1>4 DEF Subscribe, Affords
  <2>2. /\ \A d \in Conns : d # c => pc'[d] = pc[d] /\ want'[d] = want[d]
        /\ pc'[c] = "attach"
    BY <2>1, <1>1 DEF ConnType
  <2>3. \A f \in Files : \A g : Pinned(f, g)' => Pinned(f, g) \/ (0 = <<f, g>> /\ Len(g.text) <= 0)
    BY <1>2, <2>1, <2>2 DEF Pinned
  <2>4. Cardinality(DOMAIN files') <= Cardinality(DOMAIN files) + 0
    BY <1>2, FewerEntries
  <2>5. \A d \in Conns : Share(d)' <= Share(d) + (IF d = c THEN 1 ELSE 0)
    <3> SUFFICES ASSUME NEW d \in Conns PROVE Share(d)' <= Share(d) + (IF d = c THEN 1 ELSE 0)
      OBVIOUS
    <3>1. Share(d) \in Nat /\ Len(subs[d]) \in Nat
      BY <1>1, LeaseTypes DEF Shares, ConnType
    <3>2. CASE d = c
      <4>1. Share(c)' = Len(subs[c]) + 1
        <5>1. pc'[c] \in {"attach", "send"} /\ Len(subs'[c]) = Len(subs[c])
          BY <2>1, <2>2
        <5> QED BY <5>1 DEF Share
      <4>2. Share(c) = Len(subs[c]) + 0
        <5>1. ~(pc[c] \in {"attach", "send"})
          BY <1>2
        <5> QED BY <5>1 DEF Share
      <4> QED BY <3>1, <3>2, <4>1, <4>2
    <3>3. CASE d # c
      <4>1. Share(d)' = Share(d)
        BY <3>3, <2>1, <2>2 DEF Share
      <4> QED BY <3>1, <3>3, <4>1
    <3> QED BY <3>2, <3>3
  <2>6. Used + (0 + EntryCost * 0 + MetaCost * 1 + ReadLease') <= Budget + ReadLease
    <3>1. Used \in Nat /\ EntryCost \in Nat /\ MetaCost \in Nat /\ Budget \in Nat /\ ReadLease \in Nat
      BY UsedType, ConstantsAssumption DEF Leased
    <3>2. ReadLease' = ReadLease
      BY <1>2 DEF ReadLease
    <3> QED BY <3>1, <3>2, <2>1
  <2>7. 0 \in Nat /\ 1 \in Nat
    OBVIOUS
  <2> QED BY <2>3, <2>4, <2>5, <2>6, <2>7, Admitted
<1> QED BY <1>3, <1>4

\* A step of connection c that leaves the registry alone and no new generation pinned.
LEMMA ConnShrinks ==
    ASSUME Inv, Inv', Leased, NEW c \in Conns, UNCHANGED <<files, job>>,
           \A f \in Files : \A g : Pinned(f, g)' => Pinned(f, g),
           \A d \in Conns : d # c => pc'[d] = pc[d] /\ subs'[d] = subs[d],
           Share(c)' <= Share(c)
    PROVE  Leased'
<1>1. \A d \in Conns : Share(d)' <= Share(d)
  <2> SUFFICES ASSUME NEW d \in Conns PROVE Share(d)' <= Share(d)
    OBVIOUS
  <2>1. CASE d # c
    <3>1. Share(d)' = Share(d) /\ Share(d) \in Nat
      BY <2>1, LeaseTypes DEF Share, Shares
    <3> QED BY <3>1
  <2>2. CASE d = c
    BY <2>2
  <2> QED BY <2>1, <2>2
<1>2. ReadLease' <= ReadLease
  <2>1. ReadLease' = ReadLease /\ ReadLease \in Nat
    BY LeaseTypes DEF ReadLease
  <2> QED BY <2>1
<1>3. DOMAIN files' \subseteq DOMAIN files
  OBVIOUS
<1> QED BY <1>1, <1>2, <1>3, Shrinks

\* The installed subscription takes over the generation and the lease of the request.
LEMMA SendInitialLease ==
    ASSUME Inv, Inv', Leased, NEW c \in Conns, SendInitial(c)
    PROVE  Leased'
<1>1. ConnType
  BY TypeSplit DEF Inv
<1> DEFINE ask == want[c].ask
           gn  == want[c].given
           s   == [file |-> ask.file, region |-> ask.region, mode |-> ask.mode,
                   base |-> gn, shown |-> gn.text]
<1>2. UNCHANGED <<files, job>> /\ pc[c] = "send"
  BY DEF SendInitial, regVars
<1>3. CASE Close(c)
  BY <1>2, <1>3, CloseShrinks
<1>4. CASE ~Close(c)
  <2>1. /\ subs' = [subs EXCEPT ![c] = Append(@, s)]
        /\ pc' = [pc EXCEPT ![c] = "loop"]
        /\ want' = [want EXCEPT ![c] = [given |-> EmptyGen]]
    BY <1>4 DEF SendInitial
  <2>2. s.file = ask.file /\ s.base = gn
    OBVIOUS
  <2>3. s \in Sub
    <3>1. ask \in Ask /\ gn \in Gen
      BY <1>1, <1>2 DEF ConnType
    <3>2. gn.text \in Seq(Chars)
      BY <3>1, GenText
    <3> HIDE DEF ask, gn
    <3> QED BY <3>1, <3>2 DEF Ask, Sub
  <2>4. Pinned(ask.file, gn)
    BY <1>2 DEF Pinned
  <2> HIDE DEF s, ask, gn
  <2>5. /\ pc'[c] = "loop" /\ subs'[c] = Append(subs[c], s)
        /\ \A d \in Conns : d # c => pc'[d] = pc[d] /\ want'[d] = want[d] /\ subs'[d] = subs[d]
    BY <2>1, <1>1 DEF ConnType
  <2>6. subs[c] \in Seq(Sub)
    BY <1>1 DEF ConnType
  <2>7. /\ Len(subs[c]) \in Nat /\ Len(subs'[c]) = Len(subs[c]) + 1
        /\ \A i \in DOMAIN subs'[c] : subs'[c][i] = s \/ (i \in DOMAIN subs[c] /\ subs'[c][i] = subs[c][i])
    BY <2>3, <2>5, <2>6, SMTT(40)
  <2>8. \A f \in Files : \A g : Pinned(f, g)' => Pinned(f, g)
    <3> SUFFICES ASSUME NEW f \in Files, NEW g, Pinned(f, g)' PROVE Pinned(f, g)
      OBVIOUS
    <3>1. CASE f \in DOMAIN files' /\ g = files'[f].gen
      BY <3>1, <1>2 DEF Pinned
    <3>2. ASSUME NEW d \in Conns, NEW i \in DOMAIN subs'[d], subs'[d][i].file = f, subs'[d][i].base = g
          PROVE  Pinned(f, g)
      <4>1. CASE d # c
        BY <3>2, <4>1, <2>5 DEF Pinned
      <4>2. CASE d = c /\ subs'[c][i] = s
        BY <3>2, <4>2, <2>2, <2>4
      <4>3. CASE d = c /\ i \in DOMAIN subs[c] /\ subs'[c][i] = subs[c][i]
        BY <3>2, <4>3 DEF Pinned
      <4> QED BY <4>1, <4>2, <4>3, <2>7
    <3>3. ASSUME NEW d \in Conns, pc'[d] = "send", want'[d].ask.file = f, want'[d].given = g
          PROVE  Pinned(f, g)
      BY <3>3, <2>5 DEF Pinned
    <3> QED BY <3>1, <3>2, <3>3 DEF Pinned
  <2>9. Share(c)' <= Share(c)
    BY <1>2, <2>5, <2>7 DEF Share
  <2> QED BY <1>2, <2>5, <2>8, <2>9, ConnShrinks
<1> QED BY <1>3, <1>4

\* flush_subscriptions moves a subscription to the generation its file already holds.
LEMMA FlushOneLease ==
    ASSUME Inv, Inv', Leased, NEW c \in Conns, FlushOne(c)
    PROVE  Leased'
<1>1. RegType /\ ConnType /\ SubscribedIsWatched /\ FlushOK
  BY TypeSplit DEF Inv
<1> DEFINE i == at[c]
           s == subs[c][i]
           n == Flushed(s, files[s.file].gen)
<1>2. /\ pc[c] = "flush"
      /\ subs' = [subs EXCEPT ![c][i] = n]
      /\ UNCHANGED <<files, job, want>>
  BY DEF FlushOne, regVars
<1>3. i \in DOMAIN subs[c] /\ s \in Sub /\ s.file \in Files /\ Holds(c, s.file)
  BY <1>1, <1>2, SubHolds DEF FlushOK
<1>4. s.file \in DOMAIN files
  BY <1>1, <1>3 DEF SubscribedIsWatched
<1>5. n.file = s.file /\ (n.base = s.base \/ n.base = files[s.file].gen)
  <2> DEFINE g == files[s.file].gen
  <2>1. n = Flushed(s, g)
    OBVIOUS
  <2> HIDE DEF s, g, n
  <2>2. n.file = s.file /\ (n.base = s.base \/ n.base = g)
    BY <1>3, <2>1 DEF Flushed, Sub
  <2> QED BY <2>2 DEF g
<1> HIDE DEF n
<1>6. subs[c] \in Seq(Sub) /\ DOMAIN subs[c] = 1 .. Len(subs[c]) /\ Len(subs[c]) \in Nat
  BY <1>1 DEF ConnType
<1>7. /\ subs'[c] = [subs[c] EXCEPT ![i] = n]
      /\ \A d \in Conns : d # c => subs'[d] = subs[d]
  BY <1>1, <1>2 DEF ConnType
<1>8. /\ DOMAIN subs'[c] = DOMAIN subs[c] /\ Len(subs'[c]) = Len(subs[c])
      /\ subs'[c][i] = n
      /\ \A j \in DOMAIN subs[c] : j # i => subs'[c][j] = subs[c][j]
  BY <1>3, <1>6, <1>7
<1>9. /\ pc'[c] \in {"loop", "flush"}
      /\ \A d \in Conns : d # c => pc'[d] = pc[d]
  BY <1>1, <1>2 DEF FlushOne, ConnType
<1>10. \A f \in Files : \A g : Pinned(f, g)' => Pinned(f, g)
  <2> SUFFICES ASSUME NEW f \in Files, NEW g, Pinned(f, g)' PROVE Pinned(f, g)
    OBVIOUS
  <2>1. CASE f \in DOMAIN files' /\ g = files'[f].gen
    BY <2>1, <1>2 DEF Pinned
  <2>2. ASSUME NEW d \in Conns, NEW j \in DOMAIN subs'[d], subs'[d][j].file = f, subs'[d][j].base = g
        PROVE  Pinned(f, g)
    <3>1. CASE d # c
      BY <2>2, <3>1, <1>7 DEF Pinned
    <3>2. CASE d = c /\ j # i
      <4>1. j \in DOMAIN subs[c] /\ subs'[c][j] = subs[c][j]
        BY <3>2, <1>8
      <4> QED BY <2>2, <3>2, <4>1 DEF Pinned
    <3>3. CASE d = c /\ j = i
      <4>1. f = s.file /\ g = n.base
        BY <2>2, <3>3, <1>5, <1>8
      <4> QED BY <4>1, <1>3, <1>4, <1>5 DEF Pinned
    <3> QED BY <3>1, <3>2, <3>3
  <2>3. ASSUME NEW d \in Conns, pc'[d] = "send", want'[d].ask.file = f, want'[d].given = g
        PROVE  Pinned(f, g)
    BY <2>3, <1>2, <1>9 DEF Pinned
  <2> QED BY <2>1, <2>2, <2>3 DEF Pinned
<1>11. Share(c)' <= Share(c)
  <2>1. Share(c)' = Len(subs[c]) + 0
    <3>1. ~(pc'[c] \in {"attach", "send"}) /\ Len(subs'[c]) = Len(subs[c])
      BY <1>8, <1>9
    <3> QED BY <3>1 DEF Share
  <2>2. Share(c) = Len(subs[c]) + 0
    <3>1. ~(pc[c] \in {"attach", "send"})
      BY <1>2
    <3> QED BY <3>1 DEF Share
  <2> QED BY <2>1, <2>2, <1>6
<1> QED BY <1>2, <1>7, <1>9, <1>10, <1>11, ConnShrinks

\* Every step stays within the budget: one case per action.
LEMMA LeasedStep == Inv /\ Leased /\ [Next]_vars => Leased'
<1> SUFFICES ASSUME Inv, Leased, [Next]_vars PROVE Leased'
  OBVIOUS
<1>0. Inv' /\ ConnType
  BY StepInv, TypeSplit DEF Inv
<1>a. ASSUME UNCHANGED <<files, job, connVars>> PROVE Leased'
  BY <1>0, <1>a, ArmShrinks
<1>1. ASSUME NEW f \in Files, EventTouched(f) PROVE Leased'
  BY <1>0, <1>1, MarkShrinks DEF EventTouched
<1>2. CASE EventRescan
  BY <1>0, <1>2, MarkShrinks DEF EventRescan
<1>3. CASE SourceDies
  BY <1>3, <1>a DEF SourceDies
<1>4. CASE SourceEnds
  BY <1>0, <1>4, MarkShrinks DEF SourceEnds
<1>5. ASSUME NEW c \in Conns, AttachStart(c) PROVE Leased'
  BY <1>0, <1>5, AttachStartLease
<1>6. ASSUME NEW c \in Conns, AttachRefused(c) PROVE Leased'
  BY <1>0, <1>6, CloseShrinks DEF AttachRefused
<1>7. CASE Settle
  <2>1. job'.pc = "sweep" /\ UNCHANGED <<files, connVars>>
    BY <1>7 DEF Settle
  <2> QED BY <1>0, <2>1, ArmShrinks
<1>8. CASE Reconcile
  <2>1. CASE DOMAIN files = {}
    <3>1. EndArm(files, {}) /\ UNCHANGED <<job, connVars>>
      BY <1>8, <2>1 DEF Reconcile
    <3>2. DOMAIN files' \subseteq DOMAIN files /\ \A f \in DOMAIN files' : files'[f] = files[f]
      BY <3>1, EndArmKeeps
    <3> QED BY <1>0, <3>1, <3>2, ArmShrinks
  <2>2. CASE DOMAIN files # {}
    <3>1. /\ files' = MarkedDirty(files, DOMAIN files) /\ job'.pc = "sweep" /\ UNCHANGED connVars
      BY <1>8, <2>2 DEF Reconcile
    <3>2. DOMAIN files' = DOMAIN files /\ \A f \in DOMAIN files : files'[f].gen = files[f].gen
      BY <3>1, MarkedDirtyLemma, TypeSplit DEF Inv, RegType
    <3> QED BY <1>0, <3>1, <3>2, ArmShrinks
  <2> QED BY <2>1, <2>2
<1>9. ASSUME NEW f \in Files, Stat(f) PROVE Leased'
  BY <1>0, <1>9, StatLease
<1>10. CASE ReadFile
  BY <1>0, <1>10, ReadFileLease
<1>11. CASE Disk
  BY <1>11, <1>a DEF Disk, Write, WriteSameTick, Delete, regVars
<1>12. ASSUME NEW c \in Conns, Connection(c) PROVE Leased'
  <2>1. ASSUME NEW ask \in Ask, Subscribe(c, ask) PROVE Leased'
    BY <1>0, <2>1, SubscribeLease
  <2>2. CASE SendInitial(c)
    BY <1>0, <2>2, SendInitialLease
  <2>3. CASE Unsubscribe(c)
    <3>1. /\ UNCHANGED <<files, job, pc, want>> /\ subs'[c] = <<>> /\ pc[c] = "loop"
          /\ \A d \in Conns : d # c => subs'[d] = subs[d]
      BY <1>0, <2>3 DEF Unsubscribe, regVars, ConnType
    <3>2. \A f \in Files : \A g : Pinned(f, g)' => Pinned(f, g)
      BY <3>1 DEF Pinned
    <3>3. Share(c)' <= Share(c)
      <4>1. Share(c)' = 0
        <5>1. Len(subs'[c]) = 0 /\ ~(pc'[c] \in {"attach", "send"})
          BY <3>1
        <5> QED BY <5>1 DEF Share
      <4>2. Share(c) \in Nat
        BY LeaseTypes DEF Shares
      <4> QED BY <4>1, <4>2
    <3> QED BY <1>0, <3>1, <3>2, <3>3, ConnShrinks
  <2>4. CASE Woken(c)
    <3>1. /\ UNCHANGED <<files, job, subs, want>> /\ pc'[c] = "flush" /\ pc[c] = "loop"
          /\ \A d \in Conns : d # c => pc'[d] = pc[d]
      BY <1>0, <2>4 DEF Woken, regVars, ConnType
    <3>2. \A f \in Files : \A g : Pinned(f, g)' => Pinned(f, g)
      BY <3>1 DEF Pinned
    <3>3. Share(c)' <= Share(c)
      <4>1. Share(c)' = Share(c)
        BY <3>1 DEF Share
      <4>2. Share(c) \in Nat
        BY LeaseTypes DEF Shares
      <4> QED BY <4>1, <4>2
    <3> QED BY <1>0, <3>1, <3>2, <3>3, ConnShrinks
  <2>5. CASE FlushOne(c)
    BY <1>0, <2>5, FlushOneLease
  <2>6. CASE Disconnect(c)
    BY <1>0, <2>6, CloseShrinks DEF Disconnect, regVars
  <2> QED BY <1>12, <2>1, <2>2, <2>3, <2>4, <2>5, <2>6 DEF Connection
<1>13. CASE UNCHANGED vars
  BY <1>13, <1>a DEF vars, regVars
<1> QED BY <1>1, <1>2, <1>3, <1>4, <1>5, <1>6, <1>7, <1>8, <1>9, <1>10, <1>11, <1>12, <1>13
        DEF Next, Registry

\* Nothing is charged for at the start.
LEMMA LeasedInit == Init => Leased
<1> SUFFICES ASSUME Init PROVE Leased
  OBVIOUS
<1> USE ConstantsAssumption
<1>1. Inv
  BY InitInv
<1>2. \A f \in Files : \A g : ~Pinned(f, g)
  BY DEF Init, Pinned
<1>3. Content = {}
  BY <1>2, ContentPinned
<1>4. IsFiniteSet(Content) /\ Lens(Content) \in [{} -> Nat]
  BY <1>1, <1>3, LeaseTypes, FS_EmptySet
<1>5. SumOf(Lens(Content)) = 0
  BY <1>4, SumOfNone
<1>6. Cardinality(DOMAIN files) = 0
  BY FS_EmptySet DEF Init
<1>7. SumOf(Shares) = 0
  <2>1. Shares \in [Conns -> Nat]
    BY <1>1, LeaseTypes
  <2>2. \A d \in Conns : Shares[d] = 0
    <3> SUFFICES ASSUME NEW d \in Conns PROVE Share(d) = 0
      BY DEF Shares
    <3>1. Len(subs[d]) = 0 /\ ~(pc[d] \in {"attach", "send"})
      BY DEF Init
    <3> QED BY <3>1 DEF Share
  <2> QED BY <2>1, <2>2, SumOfZero
<1>8. ReadLease = 0
  BY DEF Init, ReadLease, IdleJob
<1>9. EntryCost * 0 = 0 /\ MetaCost * 0 = 0 /\ Budget \in Nat
  OBVIOUS
<1>10. Used = 0
  BY <1>5, <1>6, <1>7, <1>8, <1>9, UsedParts
<1> QED BY <1>4, <1>9, <1>10 DEF Leased, BudgetRespected

\* The leases alive never add up to more than MAX_SERVER_SUBSCRIPTION_BYTES, each
\* shared generation counted once however many subscriptions point at it: every
\* lease is compared with what is left before it is taken, the read charges for its
\* peak, and what a publish retains fits in the lease its read gives back.
THEOREM BudgetRespectedAlways == Spec => []BudgetRespected
<1>1. Leased => BudgetRespected
  BY DEF Leased
<1> QED BY <1>1, LeasedInit, LeasedStep, Invariance, PTL DEF Spec
=============================================================================
