----------------------------- MODULE Admission -----------------------------
(***************************************************************************)
(* Admission and shutdown of dustnet-server: the accept loop of            *)
(* StaticServer::run (lib.rs), the connection tasks it spawns, the global  *)
(* semaphore, the per-address counters and the drain that follows the      *)
(* shutdown signal.                                                        *)
(*                                                                         *)
(* Time advances in ticks of five seconds, the drain deadline.  It is kept *)
(* only where two deadlines race: the handshake and write deadlines of a   *)
(* task against the drain.  A task that can run does so within a tick.     *)
(***************************************************************************)
EXTENDS Integers, FiniteSets, FiniteSetsExt

CONSTANTS
    Tasks,          \* the connections that arrive in a behaviour (bound)
    Ips,            \* peer addresses
    ConfGlobal,     \* --max-connections
    ConfPerIp,      \* --max-connections-per-ip
    HandshakeTicks, \* HANDSHAKE_TIMEOUT
    WriteTicks,     \* WRITE_TIMEOUT
    DrainTicks,     \* DRAIN_TIMEOUT
    Hooks           \* TRUE: an embedder's resolver or handler is installed and may panic

ASSUME AdmissionAssumption ==
    /\ IsFiniteSet(Tasks)
    /\ {ConfGlobal, ConfPerIp, HandshakeTicks, WriteTicks, DrainTicks} \subseteq Nat
    /\ Hooks \in BOOLEAN

VARIABLES
    phase,     \* run: "accepting", "draining" or "stopped"
    signalled, \* the shutdown watch holds true
    drainLeft, \* ticks to the drain deadline
    free,      \* permits left in the semaphore
    perIp,     \* the HashMap<IpAddr, usize>
    task       \* [Tasks -> [st, ip, left]]: where each task is, ticks to its deadline

vars == <<phase, signalled, drainLeft, free, perIp, task>>

-----------------------------------------------------------------------------
\* with_connection_limits.
MaxGlobal == IF ConfGlobal > 1 THEN ConfGlobal ELSE 1

MaxPerIp == LET atLeastOne == IF ConfPerIp > 1 THEN ConfPerIp ELSE 1
            IN  IF atLeastOne > MaxGlobal THEN MaxGlobal ELSE atLeastOne

\* States of a task that is awaiting something, so that abort_all can cancel it.
Awaiting == {"tls", "hello", "idle", "busy", "bye"}
\* States in which _permit is alive, and in which the address is still counted.
Holding  == Awaiting \cup {"release", "permit"}
Counted  == Awaiting \cup {"release"}
\* A panic or an abort drops the permit and never reaches the decrement.
Unwound  == {"panicked", "aborted"}
States   == Holding \cup Unwound \cup {"none", "done"}

In(S) == {t \in Tasks : task[t].st \in S}
From(ip, S) == {t \in In(S) : task[t].ip = ip}
Count(ip) == IF ip \in DOMAIN perIp THEN perIp[ip] ELSE 0

\* Task t goes to state s and awaits there for at most n ticks.
Goes(t, s, n) == task' = [task EXCEPT ![t].st = s, ![t].left = n]

-----------------------------------------------------------------------------
Init ==
    /\ phase = "accepting"
    /\ signalled = FALSE
    /\ drainLeft = DrainTicks
    /\ free = MaxGlobal
    /\ perIp = [i \in {} |-> 0]
    /\ task \in [Tasks -> [st : {"none"}, ip : Ips, left : {0}]]

(* The accept loop.                                                        *)

\* Mutant of Accept: one connection more than the ceiling of its address.
AcceptOffByOne(t) ==
    /\ phase = "accepting" /\ task[t].st = "none"
    /\ free > 0 /\ Count(task[t].ip) <= MaxPerIp
    /\ free' = free - 1
    /\ perIp' = [i \in DOMAIN perIp \cup {task[t].ip} |->
                   IF i = task[t].ip THEN Count(i) + 1 ELSE perIp[i]]
    /\ Goes(t, "tls", HandshakeTicks)
    /\ UNCHANGED <<phase, signalled, drainLeft>>

\* A connection arrives, a permit is free and the address is below its ceiling:
\* count it and spawn the task, which starts with the TLS handshake.
Accept(t) ==
    LET ip == task[t].ip
    IN  /\ phase = "accepting" /\ task[t].st = "none"
        /\ free > 0 /\ Count(ip) < MaxPerIp
        /\ free' = free - 1
        /\ perIp' = [i \in DOMAIN perIp \cup {ip} |->
                       IF i = ip THEN Count(ip) + 1 ELSE perIp[i]]
        /\ Goes(t, "tls", HandshakeTicks)
        /\ UNCHANGED <<phase, signalled, drainLeft>>

\* No permit: the socket is dropped.
RefuseGlobal(t) ==
    /\ phase = "accepting" /\ task[t].st = "none"
    /\ free = 0
    /\ Goes(t, "done", 0)
    /\ UNCHANGED <<phase, signalled, drainLeft, free, perIp>>

\* Mutant of RefuseIp: the permit acquired above is forgotten.
RefuseIpKeepsPermit(t) ==
    /\ phase = "accepting" /\ task[t].st = "none"
    /\ free > 0 /\ Count(task[t].ip) >= MaxPerIp
    /\ free' = free - 1
    /\ Goes(t, "done", 0)
    /\ UNCHANGED <<phase, signalled, drainLeft, perIp>>

\* At the ceiling: entry().or_default() has run; `continue` drops permit and socket.
RefuseIp(t) ==
    LET ip == task[t].ip
    IN  /\ phase = "accepting" /\ task[t].st = "none"
        /\ free > 0 /\ Count(ip) >= MaxPerIp
        /\ perIp' = [i \in DOMAIN perIp \cup {ip} |-> Count(i)]
        /\ Goes(t, "done", 0)
        /\ UNCHANGED <<phase, signalled, drainLeft, free>>

\* Cancelling every task that awaits something.
AbortAll ==
    /\ task' = [t \in Tasks |-> IF task[t].st \in Awaiting
                                  THEN [task[t] EXCEPT !.st = "aborted", !.left = 0]
                                  ELSE task[t]]
    /\ free' = free + Cardinality(In(Awaiting))

\* accept() fails: `accepted?` returns from run and drops the JoinSet.
AcceptFails ==
    /\ phase = "accepting"
    /\ phase' = "stopped"
    /\ AbortAll
    /\ UNCHANGED <<signalled, drainLeft, perIp>>

\* SIGINT or SIGTERM.
SignalShutdown ==
    /\ ~signalled
    /\ signalled' = TRUE
    /\ UNCHANGED <<phase, drainLeft, free, perIp, task>>

ObserveShutdown ==
    /\ phase = "accepting" /\ signalled
    /\ phase' = "draining"
    /\ UNCHANGED <<signalled, drainLeft, free, perIp, task>>

\* The last task has been joined.
DrainDone ==
    /\ phase = "draining"
    /\ In(Holding) = {}
    /\ phase' = "stopped"
    /\ UNCHANGED <<signalled, drainLeft, free, perIp, task>>

\* Mutant of DrainTimeout: the drain waits for ever.
DrainForever == FALSE /\ UNCHANGED vars

DrainTimeout ==
    /\ phase = "draining"
    /\ In(Holding) # {} /\ drainLeft = 0
    /\ phase' = "stopped"
    /\ AbortAll
    /\ UNCHANGED <<signalled, drainLeft, perIp>>

-----------------------------------------------------------------------------
(* A connection task: handshake, HELLO, then the select! loop.             *)

Steps(t, from, to, n) ==
    /\ task[t].st = from
    /\ Goes(t, to, n)
    /\ UNCHANGED <<phase, signalled, drainLeft, free, perIp>>

TlsDone(t) == Steps(t, "tls", "hello", HandshakeTicks)

\* HELLO received: WELCOME, or the refusal of its version, is written.
HelloReceived(t) == Steps(t, "hello", "busy", WriteTicks)

\* A frame, or a wake: the handler runs and writes its answer.
Request(t) == Steps(t, "idle", "busy", WriteTicks)

\* The write ends and the loop goes on, with another write of the same handler
\* (flush_subscriptions) or with the next select!.
WriteDone(t) == \/ Steps(t, "busy", "idle", 0)
                \/ Steps(t, "busy", "busy", WriteTicks)

\* serve_connection returns: BYE answered, a peer gone, a protocol error, a
\* refused SUBSCRIBE, or, in the select!, the idle deadline.
Leaves(t) == \E s \in Awaiting : Steps(t, s, "release", 0)

\* The shutdown arm of the select!: SERVER_BYE is written.
ObservesShutdown(t) == signalled /\ Steps(t, "idle", "bye", WriteTicks)

\* The handshake, HELLO or write deadline of the task.
Deadline(t) ==
    /\ task[t].st \in Awaiting \ {"idle"} /\ task[t].left = 0
    /\ Goes(t, "release", 0)
    /\ UNCHANGED <<phase, signalled, drainLeft, free, perIp>>

\* A hook of the embedder panics; the unwind drops the permit.
Panics(t) ==
    /\ Hooks /\ task[t].st = "busy"
    /\ Goes(t, "panicked", 0)
    /\ free' = free + 1
    /\ UNCHANGED <<phase, signalled, drainLeft, perIp>>

\* The tail of the task, under the lock: saturating decrement, remove at zero.
Release(t) ==
    LET ip   == task[t].ip
        left == IF Count(ip) > 0 THEN Count(ip) - 1 ELSE 0
        keep == IF left = 0 THEN DOMAIN perIp \ {ip} ELSE DOMAIN perIp
    IN  /\ task[t].st = "release"
        /\ perIp' = [i \in keep |-> IF i = ip THEN left ELSE perIp[i]]
        /\ Goes(t, "permit", 0)
        /\ UNCHANGED <<phase, signalled, drainLeft, free>>

\* _permit, declared first, is dropped last.
DropPermit(t) ==
    /\ task[t].st = "permit"
    /\ Goes(t, "done", 0)
    /\ free' = free + 1
    /\ UNCHANGED <<phase, signalled, drainLeft, perIp>>

-----------------------------------------------------------------------------
\* Nothing that can run without a peer is left waiting.
Quiet ==
    /\ ~(phase = "accepting" /\ signalled)
    /\ phase = "draining" => In(Holding) # {} /\ drainLeft > 0
    /\ In({"release", "permit"}) = {}
    /\ signalled => In({"idle"}) = {}
    /\ \A t \in In(Awaiting \ {"idle"}) : task[t].left > 0

Tick ==
    /\ phase # "stopped" /\ Quiet
    /\ In(Awaiting \ {"idle"}) # {} \/ phase = "draining"
    /\ drainLeft' = IF phase = "draining" THEN drainLeft - 1 ELSE drainLeft
    /\ task' = [t \in Tasks |-> IF task[t].st \in Awaiting \ {"idle"}
                                  THEN [task[t] EXCEPT !.left = @ - 1] ELSE task[t]]
    /\ UNCHANGED <<phase, signalled, free, perIp>>

TaskStep(t) ==
    \/ Accept(t) \/ RefuseGlobal(t) \/ RefuseIp(t)
    \/ TlsDone(t) \/ HelloReceived(t) \/ Request(t) \/ WriteDone(t)
    \/ Leaves(t) \/ ObservesShutdown(t) \/ Deadline(t) \/ Panics(t)
    \/ Release(t) \/ DropPermit(t)

Next ==
    \/ \E t \in Tasks : TaskStep(t)
    \/ AcceptFails \/ SignalShutdown \/ ObserveShutdown
    \/ DrainDone \/ DrainTimeout \/ Tick

Spec == Init /\ [][Next]_vars

\* Runnable tasks run and time passes; peers need not do anything.  select! picks
\* among ready arms at random, so its shutdown arm is not passed over for ever by a
\* client that keeps sending requests.
Fairness ==
    /\ WF_vars(ObserveShutdown) /\ WF_vars(DrainDone) /\ WF_vars(DrainTimeout) /\ WF_vars(Tick)
    /\ \A t \in Tasks : /\ SF_vars(ObservesShutdown(t)) /\ WF_vars(Deadline(t))
                        /\ WF_vars(Release(t)) /\ WF_vars(DropPermit(t))

FairSpec == Spec /\ Fairness

-----------------------------------------------------------------------------
(* Properties.                                                             *)

TypeOK ==
    /\ phase \in {"accepting", "draining", "stopped"}
    /\ signalled \in BOOLEAN
    /\ drainLeft \in Nat
    /\ free \in Nat
    /\ DOMAIN perIp \subseteq Ips
    /\ perIp \in [DOMAIN perIp -> Nat]
    /\ task \in [Tasks -> [st : States, ip : Ips, left : Nat]]

\* The semaphore and the map agree with the tasks through every interleaving of
\* accepts, releases, panics and aborts: a permit per task that has not ended, a
\* count per task whose tail has not run, and an entry for exactly the addresses
\* that have a count.  What a panicking task leaves behind is the only leak.
BooksBalance ==
    /\ free + Cardinality(In(Holding)) = MaxGlobal
    /\ \A ip \in Ips : Count(ip) = Cardinality(From(ip, Counted \cup Unwound))
    /\ \A ip \in DOMAIN perIp : perIp[ip] > 0

\* "Global, per-IP connection ... limits are enforced": never more tasks than the
\* clamped ceilings, whatever was configured, and a single one is always possible.
LimitsEnforced ==
    /\ Cardinality(In(Holding)) <= MaxGlobal /\ MaxGlobal >= 1
    /\ \A ip \in Ips : Cardinality(From(ip, Awaiting)) <= MaxPerIp
    /\ 1 <= MaxPerIp /\ MaxPerIp <= MaxGlobal

\* The server stops after the signal, whatever its peers do.
ShutdownCompletes == signalled ~> phase = "stopped"
=============================================================================
