-------------------------- MODULE AdmissionProofs --------------------------
(***************************************************************************)
(* Proofs about Admission: the semaphore and the per-address map agree     *)
(* with the tasks in every reachable state, for any number of tasks,       *)
(* addresses and any configured ceilings, and so the ceilings hold.        *)
(***************************************************************************)
EXTENDS Admission, FiniteSetTheorems, TLAPS

Books == Counted \cup Unwound

\* The inductive invariant.  BooksBalance lacks only the bound on the counters;
\* TypeOK makes the decrements exact.
Inv ==
    /\ TypeOK
    /\ BooksBalance
    /\ \A ip \in Ips : Count(ip) <= MaxPerIp

-----------------------------------------------------------------------------
\* The clamped ceilings are positive and ordered, whatever with_connection_limits
\* was given.
LEMMA Ceilings ==
    /\ MaxGlobal \in Nat /\ MaxPerIp \in Nat
    /\ 1 <= MaxGlobal /\ 1 <= MaxPerIp /\ MaxPerIp <= MaxGlobal
  BY AdmissionAssumption DEF AdmissionAssumption, MaxGlobal, MaxPerIp

\* The sets of tasks the books count are finite.
LEMMA Finite ==
    ASSUME NEW S, NEW ip
    PROVE  /\ IsFiniteSet(In(S)) /\ Cardinality(In(S)) \in Nat
           /\ IsFiniteSet(From(ip, S)) /\ Cardinality(From(ip, S)) \in Nat
  <1>1. In(S) \subseteq Tasks /\ From(ip, S) \subseteq Tasks
    BY DEF In, From
  <1> QED
    BY <1>1, AdmissionAssumption, FS_Subset, FS_CardinalityType DEF AdmissionAssumption

\* One task changing state changes a set of tasks by at most that task.
LEMMA Moved ==
    ASSUME TypeOK, NEW t \in Tasks, NEW s, NEW n, Goes(t, s, n), NEW S, NEW ip
    PROVE  /\ In(S)' = IF s \in S THEN In(S) \cup {t} ELSE In(S) \ {t}
           /\ From(ip, S)' = IF s \in S /\ task[t].ip = ip
                               THEN From(ip, S) \cup {t} ELSE From(ip, S) \ {t}
  <1>1. \A u \in Tasks : /\ task'[u].st = IF u = t THEN s ELSE task[u].st
                         /\ task'[u].ip = task[u].ip
    BY DEF TypeOK, Goes
  <1> QED
    BY <1>1 DEF In, From

\* ... and its cardinality by at most one.
LEMMA MovedCard ==
    ASSUME TypeOK, NEW t \in Tasks, NEW s, NEW n, Goes(t, s, n), NEW S, NEW ip
    PROVE  /\ Cardinality(In(S)') =
                IF s \in S /\ task[t].st \notin S THEN Cardinality(In(S)) + 1
                ELSE IF s \notin S /\ task[t].st \in S THEN Cardinality(In(S)) - 1
                ELSE Cardinality(In(S))
           /\ Cardinality(From(ip, S)') =
                IF task[t].ip # ip THEN Cardinality(From(ip, S))
                ELSE IF s \in S /\ task[t].st \notin S THEN Cardinality(From(ip, S)) + 1
                ELSE IF s \notin S /\ task[t].st \in S THEN Cardinality(From(ip, S)) - 1
                ELSE Cardinality(From(ip, S))
  <1>1. /\ t \in In(S) <=> task[t].st \in S
        /\ t \in From(ip, S) <=> task[t].st \in S /\ task[t].ip = ip
    BY DEF In, From
  <1>2. /\ Cardinality(In(S) \cup {t}) =
             IF t \in In(S) THEN Cardinality(In(S)) ELSE Cardinality(In(S)) + 1
        /\ Cardinality(In(S) \ {t}) =
             IF t \in In(S) THEN Cardinality(In(S)) - 1 ELSE Cardinality(In(S))
    BY Finite, FS_AddElement, FS_RemoveElement
  <1>3. /\ Cardinality(From(ip, S) \cup {t}) =
             IF t \in From(ip, S) THEN Cardinality(From(ip, S)) ELSE Cardinality(From(ip, S)) + 1
        /\ Cardinality(From(ip, S) \ {t}) =
             IF t \in From(ip, S) THEN Cardinality(From(ip, S)) - 1 ELSE Cardinality(From(ip, S))
    BY Finite, FS_AddElement, FS_RemoveElement
  <1>4. /\ In(S)' = IF s \in S THEN In(S) \cup {t} ELSE In(S) \ {t}
        /\ From(ip, S)' = IF s \in S /\ task[t].ip = ip
                            THEN From(ip, S) \cup {t} ELSE From(ip, S) \ {t}
    BY Moved
  <1>5. Cardinality(In(S)') =
          IF s \in S /\ task[t].st \notin S THEN Cardinality(In(S)) + 1
          ELSE IF s \notin S /\ task[t].st \in S THEN Cardinality(In(S)) - 1
          ELSE Cardinality(In(S))
    BY <1>1, <1>2, <1>4
  <1>6. Cardinality(From(ip, S)') =
          IF task[t].ip # ip THEN Cardinality(From(ip, S))
          ELSE IF s \in S /\ task[t].st \notin S THEN Cardinality(From(ip, S)) + 1
          ELSE IF s \notin S /\ task[t].st \in S THEN Cardinality(From(ip, S)) - 1
          ELSE Cardinality(From(ip, S))
    BY <1>1, <1>3, <1>4
  <1> QED
    BY <1>5, <1>6

\* The value of a counter after the map changed.
LEMMA Counts ==
    ASSUME NEW ip PROVE Count(ip)' = IF ip \in DOMAIN perIp' THEN perIp'[ip] ELSE 0
  BY DEF Count

\* A move of one task inside the set of states that hold a permit and inside the
\* set that is counted disturbs no account.
LEMMA QuietMove ==
    ASSUME Inv, NEW t \in Tasks, NEW s \in States, NEW n \in Nat, Goes(t, s, n),
           UNCHANGED <<phase, signalled, drainLeft, free, perIp>>,
           s \in Holding <=> task[t].st \in Holding,
           s \in Books <=> task[t].st \in Books
    PROVE  Inv'
  <1>1. TypeOK'
    BY DEF Inv, TypeOK, Goes
  <1>2. Cardinality(In(Holding)') = Cardinality(In(Holding))
    BY MovedCard DEF Inv
  <1>3. \A ip \in Ips : Cardinality(From(ip, Books)') = Cardinality(From(ip, Books))
    BY MovedCard DEF Inv
  <1>4. \A ip : Count(ip)' = Count(ip)
    BY DEF Count
  <1> QED
    BY <1>1, <1>2, <1>3, <1>4 DEF Inv, BooksBalance, Books

-----------------------------------------------------------------------------
(* The steps.                                                              *)

\* Accepting a connection takes one permit and adds one to one counter.
LEMMA AcceptInv == ASSUME Inv, NEW t \in Tasks, Accept(t) PROVE Inv'
  <1> DEFINE ip == task[t].ip
  <1>0. ip \in Ips /\ task[t].st = "none" /\ Goes(t, "tls", HandshakeTicks)
    BY DEF Inv, TypeOK, Accept
  <1>1. \A i \in Ips : Count(i) \in Nat
    BY DEF Inv, TypeOK, Count
  <1>2. \A i \in Ips : Count(i)' = IF i = ip THEN Count(i) + 1 ELSE Count(i)
    BY <1>0 DEF Accept, Count
  <1>3. TypeOK'
    <2>1. task' \in [Tasks -> [st : States, ip : Ips, left : Nat]]
      BY AdmissionAssumption
         DEF Inv, TypeOK, Accept, Goes, States, Holding, Awaiting, AdmissionAssumption
    <2>2. DOMAIN perIp' \subseteq Ips /\ perIp' \in [DOMAIN perIp' -> Nat]
      BY <1>0, <1>1 DEF Inv, TypeOK, Accept
    <2> QED
      BY <2>1, <2>2 DEF Inv, TypeOK, Accept
  <1>4. Cardinality(In(Holding)') = Cardinality(In(Holding)) + 1
    BY <1>0, MovedCard DEF Inv, Holding, Awaiting
  <1>5. \A i \in Ips : Cardinality(From(i, Books)') =
                         IF i = ip THEN Cardinality(From(i, Books)) + 1
                         ELSE Cardinality(From(i, Books))
    BY <1>0, MovedCard DEF Inv, Books, Counted, Unwound, Awaiting
  <1>6. \A i \in DOMAIN perIp' : perIp'[i] > 0
    BY <1>0, <1>1 DEF Inv, TypeOK, BooksBalance, Accept
  <1>7. free' + Cardinality(In(Holding)') = MaxGlobal
    <2>1. free \in Nat /\ Cardinality(In(Holding)) \in Nat
      BY Finite DEF Inv, TypeOK
    <2>2. free + Cardinality(In(Holding)) = MaxGlobal /\ free' = free - 1
      BY DEF Inv, BooksBalance, Accept
    <2> QED
      BY <1>4, <2>1, <2>2
  <1>8. \A i \in Ips : Count(i)' <= MaxPerIp
    BY <1>0, <1>1, <1>2, Ceilings DEF Inv, Accept
  <1> QED
    BY <1>2, <1>3, <1>5, <1>6, <1>7, <1>8 DEF Inv, BooksBalance, Books

\* A refusal at the per-address ceiling leaves no entry behind, because the ceiling
\* is at least one.
LEMMA RefuseIpInv == ASSUME Inv, NEW t \in Tasks, RefuseIp(t) PROVE Inv'
  <1> DEFINE ip == task[t].ip
  <1>1. ip \in Ips /\ Count(ip) >= 1
    BY Ceilings DEF Inv, TypeOK, RefuseIp, Count
  <1>2. ip \in DOMAIN perIp
    BY <1>1 DEF Count
  <1>3. perIp' = perIp
    BY <1>2 DEF RefuseIp, Count, Inv, TypeOK
  <1> QED
    BY <1>3, QuietMove DEF RefuseIp, States, Holding, Books, Counted, Unwound, Awaiting

\* The tail of a task takes one from its address, which has a count.
LEMMA ReleaseInv == ASSUME Inv, NEW t \in Tasks, Release(t) PROVE Inv'
  <1> DEFINE ip == task[t].ip
  <1>0. ip \in Ips /\ task[t].st = "release" /\ Goes(t, "permit", 0)
    BY DEF Inv, TypeOK, Release
  <1>1. \A i \in Ips : Count(i) \in Nat
    BY DEF Inv, TypeOK, Count
  <1>2. t \in From(ip, Books)
    BY <1>0 DEF From, In, Books, Counted
  <1>3. Cardinality(From(ip, Books)) # 0
    BY <1>2, Finite, FS_EmptySet
  <1>4. Count(ip) > 0
    BY <1>0, <1>1, <1>3 DEF Inv, BooksBalance, Books
  <1>5. ip \in DOMAIN perIp /\ perIp[ip] = Count(ip)
    BY <1>4 DEF Count
  <1>6. /\ DOMAIN perIp' = IF Count(ip) = 1 THEN DOMAIN perIp \ {ip} ELSE DOMAIN perIp
        /\ \A i \in DOMAIN perIp' : perIp'[i] = IF i = ip THEN Count(ip) - 1 ELSE perIp[i]
    BY <1>0, <1>1, <1>4 DEF Release
  <1>7. \A i \in Ips : Count(i)' = IF i = ip THEN Count(i) - 1 ELSE Count(i)
    BY <1>0, <1>1, <1>5, <1>6 DEF Count
  <1>8. TypeOK'
    <2>1. task' \in [Tasks -> [st : States, ip : Ips, left : Nat]]
      BY DEF Inv, TypeOK, Release, Goes, States, Holding
    <2>2. DOMAIN perIp' \subseteq Ips /\ perIp' \in [DOMAIN perIp' -> Nat]
      <3>1. \A i \in DOMAIN perIp' : i \in Ips /\ perIp'[i] \in Nat
        BY <1>0, <1>1, <1>4, <1>6 DEF Inv, TypeOK
      <3>2. perIp' = [i \in DOMAIN perIp' |-> perIp'[i]]
        BY DEF Release
      <3> QED
        BY <3>1, <3>2
    <2> QED
      BY <2>1, <2>2 DEF Inv, TypeOK, Release
  <1>9. Cardinality(In(Holding)') = Cardinality(In(Holding))
    BY <1>0, MovedCard DEF Inv, Holding, Awaiting
  <1>10. \A i \in Ips : Cardinality(From(i, Books)') =
                          IF i = ip THEN Cardinality(From(i, Books)) - 1
                          ELSE Cardinality(From(i, Books))
    BY <1>0, MovedCard DEF Inv, Books, Counted, Unwound, Awaiting
  <1>11. \A i \in DOMAIN perIp' : perIp'[i] > 0
    BY <1>0, <1>1, <1>4, <1>6 DEF Inv, TypeOK, BooksBalance
  <1>12. free' + Cardinality(In(Holding)') = MaxGlobal
    BY <1>9 DEF Inv, BooksBalance, Release
  <1>13. \A i \in Ips : Count(i)' <= MaxPerIp
    BY <1>1, <1>7, Ceilings DEF Inv
  <1> QED
    BY <1>7, <1>8, <1>10, <1>11, <1>12, <1>13 DEF Inv, BooksBalance, Books

\* A task that ends, by returning or by unwinding, gives its permit back.
LEMMA PermitInv ==
    ASSUME Inv, NEW t \in Tasks, NEW s \in {"done", "panicked"}, Goes(t, s, 0),
           task[t].st \in Holding, s \in Books <=> task[t].st \in Books,
           free' = free + 1, UNCHANGED <<phase, signalled, drainLeft, perIp>>
    PROVE  Inv'
  <1>1. TypeOK'
    <2>1. task' \in [Tasks -> [st : States, ip : Ips, left : Nat]]
      BY DEF Inv, TypeOK, Goes, States, Unwound
    <2> QED
      BY <2>1 DEF Inv, TypeOK
  <1>2. Cardinality(In(Holding)') = Cardinality(In(Holding)) - 1
    BY MovedCard DEF Inv, Holding, Awaiting
  <1>3. \A ip \in Ips : Cardinality(From(ip, Books)') = Cardinality(From(ip, Books))
    BY MovedCard DEF Inv
  <1>4. \A ip : Count(ip)' = Count(ip)
    BY DEF Count
  <1>5. free' + Cardinality(In(Holding)') = MaxGlobal
    BY SMTT(30), <1>2, Finite, Ceilings DEF Inv, TypeOK, BooksBalance
  <1> QED
    BY <1>1, <1>3, <1>4, <1>5 DEF Inv, BooksBalance, Books

\* Cancelling every awaiting task returns exactly their permits; the counters stay,
\* as nothing runs the tails.
LEMMA AbortInv ==
    ASSUME Inv, AbortAll, phase' = "stopped", UNCHANGED <<signalled, drainLeft, perIp>>
    PROVE  Inv'
  <1>1. \A t \in Tasks : /\ task'[t].st = IF task[t].st \in Awaiting THEN "aborted" ELSE task[t].st
                         /\ task'[t].ip = task[t].ip
    BY DEF Inv, TypeOK, AbortAll
  <1>2. task' \in [Tasks -> [st : States, ip : Ips, left : Nat]]
    BY DEF Inv, TypeOK, AbortAll, States, Unwound
  <1>3. Cardinality(In(Awaiting)) \in Nat
    BY Finite
  <1>4. TypeOK'
    <2>0. free \in Nat /\ free' = free + Cardinality(In(Awaiting))
      BY DEF Inv, TypeOK, AbortAll
    <2>1. free' \in Nat
      BY <1>3, <2>0
    <2> QED
      BY <1>2, <2>1 DEF Inv, TypeOK
  <1>5. In(Holding)' = In(Holding) \ In(Awaiting) /\ In(Awaiting) \subseteq In(Holding)
    BY <1>1 DEF In, Holding, Awaiting
  <1>6. Cardinality(In(Holding)') = Cardinality(In(Holding)) - Cardinality(In(Awaiting))
    <2>1. In(Holding) \cap In(Awaiting) = In(Awaiting)
      BY <1>5
    <2> QED
      BY <1>5, <2>1, Finite, FS_Difference
  <1>7. free' + Cardinality(In(Holding)') = MaxGlobal
    <2>1. free \in Nat /\ Cardinality(In(Holding)) \in Nat
      BY Finite DEF Inv, TypeOK
    <2>2. free + Cardinality(In(Holding)) = MaxGlobal /\ free' = free + Cardinality(In(Awaiting))
      BY DEF Inv, BooksBalance, AbortAll
    <2> QED
      BY <1>3, <1>6, <2>1, <2>2
  <1>8. \A ip : From(ip, Books)' = From(ip, Books)
    BY <1>1 DEF From, In, Books, Counted, Unwound, Awaiting
  <1>9. \A ip : Count(ip)' = Count(ip)
    BY DEF Count
  <1> QED
    BY <1>4, <1>7, <1>8, <1>9 DEF Inv, BooksBalance, Books

\* A tick changes deadlines only.
LEMMA TickInv == ASSUME Inv, Tick PROVE Inv'
  <1>1. \A t \in Tasks : task'[t].st = task[t].st /\ task'[t].ip = task[t].ip
    BY DEF Inv, TypeOK, Tick
  <1>2. \A t \in Tasks : task[t].st \in Awaiting \ {"idle"} => task[t].left > 0
    BY DEF Tick, Quiet, In
  <1>3. task' \in [Tasks -> [st : States, ip : Ips, left : Nat]]
    BY <1>2 DEF Inv, TypeOK, Tick
  <1>4. drainLeft' \in Nat
    BY DEF Inv, TypeOK, Tick, Quiet
  <1>5. TypeOK'
    BY <1>3, <1>4 DEF Inv, TypeOK, Tick
  <1>6. In(Holding)' = In(Holding) /\ \A ip : From(ip, Books)' = From(ip, Books)
    BY <1>1 DEF In, From
  <1>7. \A ip : Count(ip)' = Count(ip)
    BY DEF Count, Tick
  <1> QED
    BY <1>5, <1>6, <1>7 DEF Inv, BooksBalance, Books, Tick

\* Steps of one task that only move it between states, and the end of a task.
LEMMA TaskStepInv == ASSUME Inv, NEW t \in Tasks, TaskStep(t) PROVE Inv'
  <1> USE DEF States, Holding, Books, Counted, Unwound, Awaiting
  <1>0. {0, HandshakeTicks, WriteTicks} \subseteq Nat
    BY AdmissionAssumption DEF AdmissionAssumption
  <1>1. CASE Accept(t)
    BY <1>1, AcceptInv
  <1>2. CASE RefuseGlobal(t)
    BY <1>2, QuietMove DEF RefuseGlobal
  <1>3. CASE RefuseIp(t)
    BY <1>3, RefuseIpInv
  <1>4. CASE TlsDone(t)
    BY <1>0, <1>4, QuietMove DEF TlsDone, Steps
  <1>5. CASE HelloReceived(t)
    BY <1>0, <1>5, QuietMove DEF HelloReceived, Steps
  <1>6. CASE Request(t)
    BY <1>0, <1>6, QuietMove DEF Request, Steps
  <1>7. CASE WriteDone(t)
    BY <1>0, <1>7, QuietMove DEF WriteDone, Steps
  <1>8. CASE Leaves(t)
    BY <1>0, <1>8, QuietMove DEF Leaves, Steps
  <1>9. CASE ObservesShutdown(t)
    BY <1>0, <1>9, QuietMove DEF ObservesShutdown, Steps
  <1>10. CASE Deadline(t)
    BY <1>0, <1>10, QuietMove DEF Deadline
  <1>11. CASE Panics(t)
    BY <1>11, PermitInv DEF Panics
  <1>12. CASE Release(t)
    BY <1>12, ReleaseInv
  <1>13. CASE DropPermit(t)
    BY <1>13, PermitInv DEF DropPermit
  <1> QED
    BY <1>1, <1>2, <1>3, <1>4, <1>5, <1>6, <1>7, <1>8, <1>9, <1>10, <1>11, <1>12, <1>13
       DEF TaskStep

\* Steps that touch neither the tasks nor the books.
LEMMA StillInv ==
    ASSUME Inv, UNCHANGED <<drainLeft, free, perIp, task>>,
           phase' \in {"accepting", "draining", "stopped"}, signalled' \in BOOLEAN
    PROVE  Inv'
  BY DEF Inv, TypeOK, BooksBalance, Count, In, From

\* Every step preserves the invariant.
LEMMA StepInv == Inv /\ [Next]_vars => Inv'
  <1> SUFFICES ASSUME Inv, [Next]_vars PROVE Inv'
    OBVIOUS
  <1>1. ASSUME NEW t \in Tasks, TaskStep(t) PROVE Inv'
    BY <1>1, TaskStepInv
  <1>2. CASE AcceptFails
    BY <1>2, AbortInv DEF AcceptFails
  <1>3. CASE SignalShutdown
    BY <1>3, StillInv DEF SignalShutdown, Inv, TypeOK
  <1>4. CASE ObserveShutdown
    BY <1>4, StillInv DEF ObserveShutdown, Inv, TypeOK
  <1>5. CASE DrainDone
    BY <1>5, StillInv DEF DrainDone, Inv, TypeOK
  <1>6. CASE DrainTimeout
    BY <1>6, AbortInv DEF DrainTimeout
  <1>7. CASE Tick
    BY <1>7, TickInv
  <1>8. CASE UNCHANGED vars
    BY <1>8, StillInv DEF vars, Inv, TypeOK
  <1> QED
    BY <1>1, <1>2, <1>3, <1>4, <1>5, <1>6, <1>7, <1>8 DEF Next

\* No task has been accepted: every account is empty.
LEMMA InitInv == Init => Inv
  <1> SUFFICES ASSUME Init PROVE Inv
    OBVIOUS
  <1>1. TypeOK
    <2>1. DrainTicks \in Nat /\ MaxGlobal \in Nat
      BY Ceilings, AdmissionAssumption DEF AdmissionAssumption
    <2>2. task \in [Tasks -> [st : States, ip : Ips, left : Nat]]
      BY DEF Init, States
    <2>3. DOMAIN perIp = {} /\ perIp \in [{} -> Nat]
      BY DEF Init
    <2> QED
      BY <2>1, <2>2, <2>3 DEF Init, TypeOK
  <1>2. In(Holding) = {} /\ \A ip : From(ip, Books) = {} /\ Count(ip) = 0
    BY DEF Init, In, From, Holding, Books, Counted, Unwound, Awaiting, Count
  <1>3. \A ip : Cardinality(From(ip, Books)) = 0 /\ Cardinality(In(Holding)) = 0
    BY <1>2, FS_EmptySet
  <1>4. free + Cardinality(In(Holding)) = MaxGlobal
    BY <1>3, Ceilings DEF Init
  <1>5. \A ip \in DOMAIN perIp : perIp[ip] > 0
    BY DEF Init
  <1> QED
    BY <1>1, <1>2, <1>3, <1>4, <1>5, Ceilings DEF Inv, BooksBalance, Books

\* The semaphore and the map agree with the tasks in every reachable state.
THEOREM BooksBalanceAlways == Spec => []BooksBalance
  <1>1. Inv => BooksBalance
    BY DEF Inv
  <1> QED
    BY <1>1, InitInv, StepInv, PTL DEF Spec

\* "Global, per-IP connection ... limits are enforced": for every configuration, the
\* tasks alive never exceed the clamped ceilings.
THEOREM LimitsEnforcedAlways == Spec => []LimitsEnforced
  <1>1. Inv => LimitsEnforced
    <2> SUFFICES ASSUME Inv PROVE LimitsEnforced
      OBVIOUS
    <2>1. Cardinality(In(Holding)) <= MaxGlobal
      BY Finite, Ceilings DEF Inv, TypeOK, BooksBalance
    <2>2. ASSUME NEW ip \in Ips PROVE Cardinality(From(ip, Awaiting)) <= MaxPerIp
      <3>1. From(ip, Awaiting) \subseteq From(ip, Books)
        BY DEF From, In, Books, Counted
      <3>2. Cardinality(From(ip, Awaiting)) <= Cardinality(From(ip, Books))
        BY <3>1, Finite, FS_Subset
      <3>3. Cardinality(From(ip, Books)) = Count(ip) /\ Count(ip) <= MaxPerIp
        BY DEF Inv, BooksBalance, Books
      <3> QED
        BY <3>2, <3>3, Finite, Ceilings
    <2> QED
      BY <2>1, <2>2, Ceilings DEF LimitsEnforced
  <1> QED
    BY <1>1, InitInv, StepInv, PTL DEF Spec
=============================================================================
