----------------------------- MODULE LiveWatch -----------------------------
(***************************************************************************)
(* The shared live-region watcher of dustnet-server.  One registry task    *)
(* (WatchRegistry::run, live_watch.rs) reads each watched file once per    *)
(* change and publishes it as a generation; every connection task          *)
(* (serve_connection, lib.rs) keeps, per subscription, the generation it   *)
(* last sent and is woken through a channel of capacity one.               *)
(*                                                                         *)
(* The registry is a single task, but its file accesses are awaits: a file *)
(* may be written, and a connection may run, between the stat and the read *)
(* of one refresh.  Each step between two awaits is one action.            *)
(***************************************************************************)
EXTENDS Totals, SequencesExt

CONSTANTS
    Files,          \* paths a client can name in SUBSCRIBE
    DirOf,          \* [Files -> directories]: the parent of each path
    Conns,          \* connection tasks; a closed one is never reopened
    Chars, Texts,   \* characters, and the contents a file can hold
    SharedMax,      \* max_shared_content_len()
    RegionMax,      \* [regions -> Nat]: largest wire content of each region
    Budget,         \* MAX_SERVER_SUBSCRIPTION_BYTES
    EntryCost,      \* the lease of one WatchedFile
    MetaCost,       \* the metadata lease of one subscription
    MaxFiles,       \* MAX_WATCHED_FILES
    MaxSubs,        \* MAX_SUBSCRIPTIONS_PER_CONNECTION
    MaxWrites,      \* bound, per file: stamps it goes through
    MaxAsks,        \* bound: SUBSCRIBE frames of one connection
    SameTick,       \* TRUE: one same-length write per stamp can leave the stamp alone
    NoConn          \* "no attach in progress"

Regions == DOMAIN RegionMax
Dirs == {DirOf[f] : f \in Files}
Modes == {"replace", "delta"}

ASSUME ConstantsAssumption ==
    /\ IsFiniteSet(Files) /\ IsFiniteSet(Conns)
    /\ NoConn \notin Conns
    /\ DirOf \in [Files -> Dirs]
    /\ Texts \subseteq Seq(Chars)
    /\ RegionMax \in [Regions -> Nat]
    /\ {SharedMax, Budget, EntryCost, MetaCost, MaxFiles, MaxSubs, MaxAsks}
         \subseteq Nat
    /\ MaxWrites \in [Files -> Nat]
    /\ SameTick \in BOOLEAN

VARIABLES
    disk,    \* [Files -> [exists, text, stamp, again]]: the file system
    files,   \* registry: watched path -> WatchedFile
    dirRefs, \* NotifyChangeSource.watched: reference count per directory
    source,  \* watcher thread: "up", "dead", or "ended" once the registry knows
    job,     \* what the registry task is in the middle of
    pc,      \* [Conns -> where the connection task is]
    subs,    \* [Conns -> Seq(StaticSubscription)]
    wake,    \* [Conns -> BOOLEAN]: the capacity-one wake channel is full
    at,      \* [Conns -> Nat]: index flush_subscriptions has reached
    want,    \* [Conns -> the SUBSCRIBE being served]
    asks     \* [Conns -> Nat]: SUBSCRIBE frames served (bounded)

connVars == <<pc, subs, wake, at, want, asks>>
regVars  == <<files, dirRefs, source, job>>
vars     == <<disk, regVars, connVars>>

-----------------------------------------------------------------------------
(* Generations and leases.                                                 *)

NoStamp == 0

\* LiveGeneration: Arc identity is modelled by `id`, fresh for every publish
\* of one WatchedFile.  Generation 0 is LiveGeneration::empty.
EmptyGen == [id |-> 0, text |-> <<>>]

\* The generations of f some Arc still points at, each charged once.
LiveGens(f) ==
    (IF f \in DOMAIN files THEN {files[f].gen} ELSE {})
    \cup (UNION {{subs[c][i].base : i \in {j \in DOMAIN subs[c] : subs[c][j].file = f}}
                 : c \in Conns})
    \cup {want[c].given : c \in {d \in Conns : pc[d] = "send" /\ want[d].ask.file = f}}

\* Scratch buffer plus retained text of a read of n bytes.
Peak(n) == n + 1 + n

ReadLease == IF job.pc = "read" THEN Peak(job.len) ELSE 0

\* SubscriptionBudgetState.used: the sum of the leases that are alive.
Used ==
    LET content == UNION {{f} \X LiveGens(f) : f \in Files}
        held    == [c \in Conns |-> Len(subs[c]) + (IF pc[c] \in {"attach", "send"} THEN 1 ELSE 0)]
    IN  SumOf([p \in content |-> Len(p[2].text)])
        + EntryCost * Cardinality(DOMAIN files)
        + MetaCost * SumOf(held)
        + ReadLease

\* Mutant of Affords: the limit is compared before the new lease is added.
AffordsBefore(n) == Used < Budget

\* SubscriptionBudget::reserve succeeds.
Affords(n) == Used + n <= Budget

-----------------------------------------------------------------------------
(* Types.                                                                  *)

Gen   == [id : Nat, text : Texts \cup {<<>>}]
Entry == [gen : Gen, stamp : Nat, dirty : BOOLEAN, wakes : [Conns -> Nat]]
Ask   == [file : Files, region : Regions, mode : Modes]
\* `shown` is the subscriber's copy of the region: what the UPDATEs sent for
\* this subscription add up to when applied in order (apply_live_update in the
\* client's runner replaces, or appends a delta).
Sub   == [file : Files, region : Regions, mode : Modes, base : Gen, shown : Seq(Chars)]
Job   == [pc : {"idle"}]
         \cup [pc : {"sweep"}, todo : SUBSET Files]
         \cup [pc : {"attach"}, conn : Conns]
         \cup [pc : {"read"}, todo : SUBSET Files, conn : Conns \cup {NoConn},
               file : Files, stamp : Nat, len : Nat]

\* A WatchedFile as install makes it.
NewEntry ==
    [gen |-> EmptyGen, stamp |-> NoStamp, dirty |-> TRUE, wakes |-> [c \in Conns |-> 0]]

IdleJob == [pc |-> "idle"]

\* The type invariant: the program's own types, and that a connection waiting
\* for the registry or holding its answer remembers which SUBSCRIBE it serves.
TypeOK ==
    /\ disk \in [Files -> [exists : BOOLEAN, text : Texts, stamp : Nat \ {NoStamp}, again : BOOLEAN]]
    /\ DOMAIN files \subseteq Files
    /\ files \in [DOMAIN files -> Entry]
    /\ dirRefs \in [Dirs -> Nat]
    /\ source \in {"up", "dead", "ended"}
    /\ job \in Job
    /\ pc \in [Conns -> {"loop", "attach", "send", "flush", "closed"}]
    /\ subs \in [Conns -> Seq(Sub)]
    /\ wake \in [Conns -> BOOLEAN]
    /\ at \in [Conns -> Nat \ {0}]
    /\ asks \in [Conns -> Nat]
    /\ DOMAIN want = Conns
    /\ \A c \in Conns : /\ pc[c] = "attach" => want[c].ask \in Ask
                        /\ pc[c] = "send" => want[c].ask \in Ask /\ want[c].given \in Gen

-----------------------------------------------------------------------------
Init ==
    /\ disk \in [Files -> [exists : {TRUE}, text : Texts, stamp : {1}, again : {FALSE}]]
    /\ files = [f \in {} |-> NewEntry]
    /\ dirRefs = [d \in Dirs |-> 0]
    /\ source = "up"
    /\ job = IdleJob
    /\ pc = [c \in Conns |-> "loop"]
    /\ subs = [c \in Conns |-> <<>>]
    /\ wake = [c \in Conns |-> FALSE]
    /\ at = [c \in Conns |-> 1]
    /\ want = [c \in Conns |-> [given |-> EmptyGen]]
    /\ asks = [c \in Conns |-> 0]

-----------------------------------------------------------------------------
(* The file system, written by whoever maintains the site.                 *)

\* A write, a replacement by rename, or the re-creation of a removed file.
Write(f, t) ==
    /\ disk[f].stamp < MaxWrites[f]
    /\ disk' = [disk EXCEPT ![f] = [exists |-> TRUE, text |-> t,
                                       stamp |-> @.stamp + 1, again |-> FALSE]]
    /\ UNCHANGED <<regVars, connVars>>

Delete(f) ==
    /\ disk[f].exists
    /\ disk' = [disk EXCEPT ![f].exists = FALSE]
    /\ UNCHANGED <<regVars, connVars>>

\* An in-place write of the same length within one mtime tick: FileStamp (length,
\* mtime, inode) does not change.  `again` bounds it to one per stamp.
WriteSameTick(f, t) ==
    /\ SameTick
    /\ disk[f].exists /\ ~disk[f].again
    /\ t # disk[f].text /\ Len(t) = Len(disk[f].text)
    /\ disk' = [disk EXCEPT ![f].text = t, ![f].again = TRUE]
    /\ UNCHANGED <<regVars, connVars>>

-----------------------------------------------------------------------------
(* WatchRegistry.                                                          *)

\* Connection c holds a watch::Receiver of f.
Holds(c, f) ==
    \/ \E i \in DOMAIN subs[c] : subs[c][i].file = f
    \/ pc[c] = "send" /\ want[c].ask.file = f

\* Mutant of EndArm: an entry whose receiver is on its way to its subscription is
\* taken for one without receivers.
EndArmEager(fs, held) ==
    LET kept    == {f \in DOMAIN fs : f \in held \/ \E c \in Conns : \E i \in DOMAIN subs[c] : subs[c][i].file = f}
        emptied == {DirOf[f] : f \in DOMAIN fs \ kept} \ {DirOf[f] : f \in kept}
    IN  /\ files' = [f \in kept |-> fs[f]]
        /\ dirRefs' = [d \in Dirs |->
                         IF d \in emptied /\ dirRefs[d] > 0 THEN dirRefs[d] - 1 ELSE dirRefs[d]]

\* The end of a select! arm and the reap() at the top of the next iteration:
\* entries without a receiver go, except the ones in `held` whose receiver the
\* arm has just handed out; unwatch_dir is called once for a directory that has
\* lost its last file.
EndArm(fs, held) ==
    LET kept    == {f \in DOMAIN fs : f \in held \/ \E c \in Conns : Holds(c, f)}
        emptied == {DirOf[f] : f \in DOMAIN fs \ kept} \ {DirOf[f] : f \in kept}
    IN  /\ files' = [f \in kept |-> fs[f]]
        /\ dirRefs' = [d \in Dirs |->
                         IF d \in emptied /\ dirRefs[d] > 0 THEN dirRefs[d] - 1 ELSE dirRefs[d]]

MarkedDirty(fs, S) ==
    [f \in DOMAIN fs |-> IF f \in S THEN [fs[f] EXCEPT !.dirty = TRUE] ELSE fs[f]]

\* mark(Touched(path)): the file itself, else its siblings, else everything.
TouchedBy(f) ==
    LET siblings == {g \in DOMAIN files : DirOf[g] = DirOf[f]}
    IN  IF f \in DOMAIN files THEN {f}
        ELSE IF siblings # {} THEN siblings ELSE DOMAIN files

\* An event from the watcher thread.  Events may be lost, late or spurious.
EventTouched(f) ==
    /\ job = IdleJob /\ source # "ended"
    /\ EndArm(MarkedDirty(files, TouchedBy(f)), {})
    /\ UNCHANGED <<disk, source, job, connVars>>

\* Rescan and SourceFailed.
EventRescan ==
    /\ job = IdleJob /\ source # "ended"
    /\ EndArm(MarkedDirty(files, DOMAIN files), {})
    /\ UNCHANGED <<disk, source, job, connVars>>

\* The platform watcher could not be created: the thread returns.
SourceDies ==
    /\ source = "up"
    /\ source' = "dead"
    /\ UNCHANGED <<disk, files, dirRefs, job, connVars>>

\* events.recv() returns None.
SourceEnds ==
    /\ job = IdleJob /\ source = "dead"
    /\ source' = "ended"
    /\ EndArm(MarkedDirty(files, DOMAIN files), {})
    /\ UNCHANGED <<disk, job, connVars>>

\* Dropping a connection: its subscriptions, receivers and wake channel go.
Close(c) ==
    /\ pc' = [pc EXCEPT ![c] = "closed"]
    /\ subs' = [subs EXCEPT ![c] = <<>>]
    /\ wake' = [wake EXCEPT ![c] = FALSE]
    /\ at' = [at EXCEPT ![c] = 1]
    /\ want' = [want EXCEPT ![c] = [given |-> EmptyGen]]

\* attach up to its await: install a missing entry (watch_dir counts a reference
\* to the directory per installed file; it fails once the thread is gone unless
\* the directory is already counted).
AttachStart(c) ==
    LET f == want[c].ask.file
        d == DirOf[f]
    IN  /\ job = IdleJob /\ pc[c] = "attach"
        /\ f \in DOMAIN files \/ (Cardinality(DOMAIN files) < MaxFiles /\ Affords(EntryCost))
        /\ IF f \in DOMAIN files
             THEN UNCHANGED <<files, dirRefs>>
             ELSE /\ files' = [g \in DOMAIN files \cup {f} |->
                                 IF g = f THEN NewEntry ELSE files[g]]
                  /\ dirRefs' = [dirRefs EXCEPT ![d] =
                                   IF @ > 0 \/ source = "up" THEN @ + 1 ELSE @]
        /\ job' = [pc |-> "attach", conn |-> c]
        /\ UNCHANGED <<disk, source, connVars>>

\* attach answers Err: the connection's `?` ends it.
AttachRefused(c) ==
    LET f == want[c].ask.file
    IN  /\ job = IdleJob /\ pc[c] = "attach"
        /\ f \notin DOMAIN files
        /\ Cardinality(DOMAIN files) >= MaxFiles \/ ~Affords(EntryCost)
        /\ EndArm(files, {})
        /\ Close(c)
        /\ UNCHANGED <<disk, source, job, asks>>

\* refresh_dirty collects the dirty paths ...
Settle ==
    LET dirty == {f \in DOMAIN files : files[f].dirty}
    IN  /\ job = IdleJob /\ dirty # {}
        /\ job' = [pc |-> "sweep", todo |-> dirty]
        /\ UNCHANGED <<disk, files, dirRefs, source, connVars>>

\* Mutant of Reconcile: the tick sweeps only what an event has marked.
ReconcileDirtyOnly ==
    /\ job = IdleJob
    /\ LET dirty == {f \in DOMAIN files : files[f].dirty}
       IN  IF dirty = {}
             THEN EndArm(files, {}) /\ UNCHANGED job
             ELSE job' = [pc |-> "sweep", todo |-> dirty] /\ UNCHANGED <<files, dirRefs>>
    /\ UNCHANGED <<disk, source, connVars>>

\* ... and the reconcile tick marks all of them first.
Reconcile ==
    /\ job = IdleJob
    /\ IF DOMAIN files = {}
         THEN EndArm(files, {}) /\ UNCHANGED job
         ELSE /\ files' = MarkedDirty(files, DOMAIN files)
              /\ job' = [pc |-> "sweep", todo |-> DOMAIN files]
              /\ UNCHANGED dirRefs
    /\ UNCHANGED <<disk, source, connVars>>

\* Mutant of Refreshed: attach answers only once a generation has been published.
RefreshedNoAnswer(f, fs, todo, c) ==
    IF c # NoConn
      THEN /\ EndArm(fs, {f})
           /\ job' = IdleJob
           /\ IF fs[f].gen = EmptyGen
                THEN UNCHANGED <<pc, want>>
                ELSE /\ pc' = [pc EXCEPT ![c] = "send"]
                     /\ want' = [want EXCEPT ![c].given = fs[f].gen]
      ELSE /\ UNCHANGED <<pc, want>>
           /\ IF todo = {}
                THEN EndArm(fs, {}) /\ job' = IdleJob
                ELSE /\ files' = fs
                     /\ job' = [pc |-> "sweep", todo |-> todo]
                     /\ UNCHANGED dirRefs

\* What follows refresh_if_changed(f): the rest of the sweep, or, for
\* connection c, the tail of attach -- push the wake, hand out the current
\* generation and a receiver.
Refreshed(f, fs, todo, c) ==
    IF c # NoConn
      THEN LET ready == [fs EXCEPT ![f].wakes[c] = @ + 1]
           IN  /\ EndArm(ready, {f})
               /\ pc' = [pc EXCEPT ![c] = "send"]
               /\ want' = [want EXCEPT ![c].given = ready[f].gen]
               /\ job' = IdleJob
      ELSE /\ UNCHANGED <<pc, want>>
           /\ IF todo = {}
                THEN EndArm(fs, {}) /\ job' = IdleJob
                ELSE /\ files' = fs
                     /\ job' = [pc |-> "sweep", todo |-> todo]
                     /\ UNCHANGED dirRefs

\* refresh_if_changed up to the read.  A sweep clears `dirty` before the stat.
Stat(f) ==
    LET sweep == job.pc = "sweep"
        c     == IF sweep THEN NoConn ELSE job.conn
        todo  == IF sweep THEN job.todo \ {f} ELSE {}
        fs    == IF sweep THEN [files EXCEPT ![f].dirty = FALSE] ELSE files
        now   == disk[f]
        fresh == now.exists /\ now.stamp # files[f].stamp
        large == Len(now.text) > SharedMax
    IN  /\ \/ job.pc = "sweep" /\ f \in job.todo
           \/ job.pc = "attach" /\ f = want[job.conn].ask.file
        /\ IF fresh /\ ~large /\ Affords(Peak(Len(now.text)))
             THEN /\ files' = fs
                  /\ job' = [pc |-> "read", todo |-> todo, conn |-> c, file |-> f,
                             stamp |-> now.stamp, len |-> Len(now.text)]
                  /\ UNCHANGED <<dirRefs, pc, want>>
             ELSE Refreshed(f, IF fresh /\ large THEN [fs EXCEPT ![f].stamp = now.stamp] ELSE fs,
                            todo, c)
        /\ UNCHANGED <<disk, source, subs, wake, at, asks>>

\* read_subscription_content and the publish.  The read fails when the file is
\* gone or has grown past the length that was charged for.  try_send leaves a
\* full wake channel as it is; retain drops the senders of closed connections.
ReadFile ==
    LET f    == job.file
        now  == disk[f]
        e    == files[f]
        ok   == now.exists /\ Len(now.text) <= job.len
        publ == ok /\ now.text # e.gen.text
        open == [c \in Conns |-> IF pc[c] = "closed" THEN 0 ELSE e.wakes[c]]
        new  == IF publ THEN [e EXCEPT !.stamp = job.stamp, !.wakes = open,
                                       !.gen = [id |-> e.gen.id + 1, text |-> now.text]]
                ELSE IF ok THEN [e EXCEPT !.stamp = job.stamp] ELSE e
    IN  /\ job.pc = "read"
        /\ wake' = [c \in Conns |-> wake[c] \/ (publ /\ open[c] > 0)]
        /\ Refreshed(f, [files EXCEPT ![f] = new], job.todo, job.conn)
        /\ UNCHANGED <<disk, source, subs, at, asks>>

-----------------------------------------------------------------------------
(* serve_connection.                                                       *)

\* A SUBSCRIBE frame, up to the command sent to the registry.  Every refusal
\* ends the connection.
Subscribe(c, ask) ==
    /\ pc[c] = "loop" /\ asks[c] < MaxAsks
    /\ asks' = [asks EXCEPT ![c] = @ + 1]
    /\ IF Len(subs[c]) >= MaxSubs \/ ~Affords(MetaCost) \/ ~disk[ask.file].exists
         THEN Close(c)
         ELSE /\ pc' = [pc EXCEPT ![c] = "attach"]
              /\ want' = [want EXCEPT ![c] = [ask |-> ask, given |-> EmptyGen]]
              /\ UNCHANGED <<subs, wake, at>>
    /\ UNCHANGED <<disk, regVars>>

\* Mutant of SendInitial: wakes queued before the entry is installed are discarded.
SendInitialDrains(c) ==
    LET ask == want[c].ask
        g   == want[c].given
    IN  /\ pc[c] = "send" /\ Len(g.text) <= RegionMax[ask.region]
        /\ subs' = [subs EXCEPT ![c] =
                      Append(@, [file |-> ask.file, region |-> ask.region,
                                 mode |-> ask.mode, base |-> g, shown |-> g.text])]
        /\ pc' = [pc EXCEPT ![c] = "loop"]
        /\ want' = [want EXCEPT ![c] = [given |-> EmptyGen]]
        /\ wake' = [wake EXCEPT ![c] = FALSE]
        /\ UNCHANGED <<disk, regVars, at, asks>>

\* The registry has answered: the complete first UPDATE, then the entry.
SendInitial(c) ==
    LET ask == want[c].ask
        g   == want[c].given
    IN  /\ pc[c] = "send"
        /\ IF Len(g.text) > RegionMax[ask.region]
             THEN Close(c)
             ELSE /\ subs' = [subs EXCEPT ![c] =
                                Append(@, [file |-> ask.file, region |-> ask.region,
                                           mode |-> ask.mode, base |-> g, shown |-> g.text])]
                  /\ pc' = [pc EXCEPT ![c] = "loop"]
                  /\ want' = [want EXCEPT ![c] = [given |-> EmptyGen]]
                  /\ UNCHANGED <<wake, at>>
        /\ UNCHANGED <<disk, regVars, asks>>

Unsubscribe(c) ==
    /\ pc[c] = "loop" /\ subs[c] # <<>>
    /\ subs' = [subs EXCEPT ![c] = <<>>]
    /\ UNCHANGED <<disk, regVars, pc, wake, at, want, asks>>

\* wake_rx.recv(), guarded by `!subscriptions.is_empty()`.
Woken(c) ==
    /\ pc[c] = "loop" /\ wake[c] /\ subs[c] # <<>>
    /\ wake' = [wake EXCEPT ![c] = FALSE]
    /\ pc' = [pc EXCEPT ![c] = "flush"]
    /\ at' = [at EXCEPT ![c] = 1]
    /\ UNCHANGED <<disk, regVars, subs, want, asks>>

\* Mutant of Wire: the suffix goes out as a complete replacement.
WireSuffixReplaces(s, g) ==
    IF s.mode = "delta" /\ IsPrefix(s.base.text, g.text)
      THEN [delta |-> FALSE, text |-> SubSeq(g.text, Len(s.base.text) + 1, Len(g.text))]
      ELSE [delta |-> FALSE, text |-> g.text]

\* The wire content of generation g for subscription s.
Wire(s, g) ==
    IF s.mode = "delta" /\ IsPrefix(s.base.text, g.text)
      THEN [delta |-> TRUE, text |-> SubSeq(g.text, Len(s.base.text) + 1, Len(g.text))]
      ELSE [delta |-> FALSE, text |-> g.text]

\* The subscription after flush_subscriptions has dealt with generation g.  A
\* body too large for the region is not sent, but the baseline moves.
Flushed(s, g) ==
    LET w == Wire(s, g)
    IN  IF g.id = s.base.id THEN s
        ELSE IF Len(w.text) > RegionMax[s.region] THEN [s EXCEPT !.base = g]
        ELSE [s EXCEPT !.base = g, !.shown = IF w.delta THEN @ \o w.text ELSE w.text]

\* One iteration of flush_subscriptions: borrow, send, advance.
FlushOne(c) ==
    LET i == at[c]
        s == subs[c][i]
    IN  /\ pc[c] = "flush"
        /\ subs' = [subs EXCEPT ![c][i] = Flushed(s, files[s.file].gen)]
        /\ IF i = Len(subs[c])
             THEN pc' = [pc EXCEPT ![c] = "loop"] /\ at' = [at EXCEPT ![c] = 1]
             ELSE at' = [at EXCEPT ![c] = i + 1] /\ UNCHANGED pc
        /\ UNCHANGED <<disk, regVars, wake, want, asks>>

\* BYE, EOF, a protocol error, the idle deadline, or a failed or timed-out send.
Disconnect(c) ==
    /\ pc[c] \in {"loop", "send", "flush"}
    /\ Close(c)
    /\ UNCHANGED <<disk, regVars, asks>>

-----------------------------------------------------------------------------
Registry == \/ \E f \in Files : EventTouched(f)
            \/ EventRescan
            \/ SourceDies
            \/ SourceEnds
            \/ \E c \in Conns : AttachStart(c) \/ AttachRefused(c)
            \/ Settle
            \/ Reconcile
            \/ \E f \in Files : Stat(f)
            \/ ReadFile

Connection(c) == \/ \E ask \in Ask : Subscribe(c, ask)
                 \/ SendInitial(c)
                 \/ Unsubscribe(c)
                 \/ Woken(c)
                 \/ FlushOne(c)
                 \/ Disconnect(c)

Disk == \E f \in Files : \/ \E t \in Texts : Write(f, t) \/ WriteSameTick(f, t)
                         \/ Delete(f)

Next == Registry \/ Disk \/ \E c \in Conns : Connection(c)

Spec == Init /\ [][Next]_vars

\* The registry task and the connection tasks run.  Arms of a select! that stay
\* ready are picked at random, so the reconcile tick and a queued attach are not
\* passed over for ever although other arms keep running.  Nothing is assumed of
\* clients, of writers or of file-system events.
Fairness ==
    /\ WF_vars(\E f \in Files : Stat(f))
    /\ WF_vars(ReadFile)
    /\ SF_vars(Reconcile)
    /\ \A c \in Conns : /\ SF_vars(AttachStart(c) \/ AttachRefused(c))
                        /\ WF_vars(SendInitial(c))
                        /\ WF_vars(Woken(c))
                        /\ WF_vars(FlushOne(c))

FairSpec == Spec /\ Fairness

-----------------------------------------------------------------------------
(* Properties.                                                             *)

\* The generation a receiver of f sees now.
Current(f) == files[f].gen

\* No wake is lost.  A connection owing its subscriber a newer generation has a
\* full wake channel, or is in flush_subscriptions and has not passed that
\* subscription yet.  This is the "a dropped wake is harmless" of live_watch.rs:
\* without a timer, a publish missed here is never sent.
NoLostWake ==
    \A c \in Conns : \A i \in DOMAIN subs[c] :
        subs[c][i].base.id # Current(subs[c][i].file).id
            => wake[c] \/ (pc[c] = "flush" /\ at[c] <= i)

\* Dropping the receiver is the only deregistration: while a subscription (or an
\* attach being answered) exists, reap has not removed its entry, and the entry
\* still has a wake sender of that connection.
SubscribedIsWatched ==
    \A c \in Conns : \A f \in Files :
        Holds(c, f) => f \in DOMAIN files /\ files[f].wakes[c] > 0

\* Every lease ever granted, the scratch of a running read included, fits the
\* server-wide limit, each shared generation counted once.
BudgetRespected == Used <= Budget

\* While the watcher thread lives, the directory of every watched file is watched.
DirectoryWatched ==
    source = "up" => \A f \in DOMAIN files : dirRefs[DirOf[f]] > 0

\* What the subscriber shows is the baseline the next delta is computed against,
\* unless the baseline is a generation too large for the region.
BaselineIsShown ==
    \A c \in Conns : \A i \in DOMAIN subs[c] :
        LET s == subs[c][i]
        IN  Len(s.base.text) <= RegionMax[s.region] => s.shown = s.base.text

\* Once writers stop, every remaining subscription whose file exists and fits its
\* region shows the file, with no help from file-system events ("this loop alone
\* is sufficient to serve live regions").
LiveRegionsConverge ==
    <>[](\A c \in Conns : \A i \in DOMAIN subs[c] :
            LET s == subs[c][i]
            IN  disk[s.file].exists /\ Len(disk[s.file].text) <= RegionMax[s.region]
                  => s.shown = disk[s.file].text)

\* A SUBSCRIBE the registry has been asked for is answered.
AttachAnswered == \A c \in Conns : pc[c] = "attach" ~> pc[c] # "attach"

\* "Refcounted: many watched files share one directory, and the last one to leave
\* unwatches it."
LastOneUnwatches ==
    job = IdleJob => \A d \in Dirs : (\A f \in DOMAIN files : DirOf[f] # d) => dirRefs[d] = 0

\* "A subscriber that misses a generation therefore finds strip_prefix failing on
\* the next one and falls back to a complete replace": what is shown is always
\* some text the file has held.
\* It does not hold for the code: see the README, known divergences.
ShownIsSomeVersion ==
    \A c \in Conns : \A i \in DOMAIN subs[c] : subs[c][i].shown \in Texts \cup {<<>>}
=============================================================================
